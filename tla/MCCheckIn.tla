----------------------------- MODULE MCCheckIn -----------------------------
(***************************************************************************)
(* One unit, registered to alice, who publishes for its model, to bob, who *)
(* does not, or as of another model; and an identifier that is nobody's.   *)
(* Two requests at a time; the unit reports any of two versions, and a     *)
(* third is newer than both.                                               *)
(***************************************************************************)
EXTENDS CheckIn, TLC

CONSTANTS r1, r2, unit, stranger, alice, bob, M, N, image1, image2, sig

VersionsDef == {<<1, 0>>, <<1, 1>>, <<1, 1, 0>>}

Release(owner, version, image) ==
    [owner |-> owner, model |-> M, version |-> version, image |-> image,
     signature |-> sig, active |-> TRUE]

ReleasesDef == {Release(alice, <<1, 1>>, image1), Release(alice, <<1, 1, 0>>, image2)}

Call(version, model, genuine) ==
    [device |-> unit, version |-> version, model |-> model, genuine |-> genuine]

CallsDef == {Call(<<1, 0>>, M, TRUE), Call(<<1, 1>>, M, TRUE), Call(<<1, 0>>, M, FALSE)}

RegistrationsDef ==
    {[device |-> unit, owner |-> owner, model |-> M] : owner \in {alice, bob}}
    \cup {[device |-> unit, owner |-> alice, model |-> N]}

MaxLogDef == (unit :> 2) @@ (stranger :> 1)

Symmetry == Permutations(Requests)
=============================================================================
