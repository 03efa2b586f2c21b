------------------------------ MODULE MCDevice ------------------------------
(* DeviceHistory on a small catalogue: A is the factory build; B is a       *)
(* marked successor that cannot read this unit's config.json and halts; U  *)
(* is an unmarked image whose build is older than the label it was         *)
(* published under; X is built and signed for another model.               *)
EXTENDS DeviceHistory

CONSTANTS A, B, U, X, m1, m2, sB, sU, sX

MCVersions == {<<1>>, <<1, 0>>, <<2>>}

MCBuildModel == [i \in Images |-> IF i = X THEN m2 ELSE m1]

MCBuildVersion ==
    [i \in Images |-> CASE i = B -> <<1, 0>> [] i = X -> <<2>> [] OTHER -> <<1>>]

Signed(model, v, i) == [model |-> model, version |-> v, image |-> i]

MCCovers ==
    [s \in Signatures |->
        CASE s = sB -> Signed(m1, <<1, 0>>, B)
          [] s = sU -> Signed(m1, <<2>>, U)
          [] s = sX -> Signed(m2, <<2>>, X)]
=============================================================================
