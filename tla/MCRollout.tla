----------------------------- MODULE MCRollout -----------------------------
(* A unit on A.  Its owner may publish                                     *)
(*   B, a marked successor, under the key the unit has or under a later    *)
(*      one,                                                               *)
(*   H, which cannot read this unit's config.json,                         *)
(*   N, which does not boot,                                               *)
(*   X, an unmarked image that was built for another model,                *)
(*   U and V, unmarked images whose builds are older than the label they   *)
(*      are published under; V, like B, has no digest to tell it by.       *)
(* The unit's largest number is 3.                                         *)
EXTENDS Rollout

CONSTANTS A, B, H, N, U, V, X, m1, m2, sB, sK, sH, sN, sU, sV, sX

MCLabels == {<<1>>, <<2>>, <<3>>, <<4>>}

MCVersions == {<<1>>, <<2>>, <<3>>}

MCBuildModel == [i \in Images |-> IF i = X THEN m2 ELSE m1]

MCReported == [i \in Images |-> CASE i \in {H, N} -> <<2>> [] i = B -> <<3>> [] OTHER -> <<1>>]

MCDeviceReads == [v \in Labels |-> IF v = <<4>> THEN <<3>> ELSE v]

MCBuildVersion == [i \in Images |-> MCDeviceReads[MCReported[i]]]

Row(i, v, s) ==
    [owner |-> Owner, model |-> m1, version |-> v, image |-> i, signature |-> s, active |-> TRUE]

MCReleases ==
    {Row(B, <<3>>, sB), Row(B, <<3>>, sK), Row(H, <<2>>, sH), Row(N, <<2>>, sN),
     Row(X, <<2>>, sX), Row(U, <<4>>, sU), Row(V, <<4>>, sV)}

MCCovers ==
    [s \in Signatures |->
        IF s = sK THEN NoManifest
        ELSE LET r == CHOOSE r \in MCReleases : r.signature = s
             IN  [model |-> r.model, version |-> MCDeviceReads[r.version], image |-> r.image]]
=============================================================================
