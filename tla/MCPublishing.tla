---------------------------- MODULE MCPublishing ----------------------------
(***************************************************************************)
(* Two accounts, an image that names itself and one that does not,         *)
(* uploaded by three requests.  The forms are the ones whose interplay     *)
(* matters: the same bytes under two versions, two models and two          *)
(* accounts, two images under one version, a field that contradicts the    *)
(* marker, and a signature made by another key.                            *)
(***************************************************************************)
EXTENDS Publishing, TLC

CONSTANTS u1, u2, u3, alice, bob, M, N, V, W, tagged, plain,
          keyA, keyB, sTagged, sPlain, sPlainW, sBob, sForged

TagDef == (tagged :> <<M, V>>) @@ (plain :> NoTag)
PublishableDef == {<<M, V>>, <<M, W>>, <<N, V>>}
SignedByDef == [s \in Signatures |-> IF s \in {sBob, sForged} THEN keyB ELSE keyA]
CoversDef ==
    (sTagged :> <<M, V, tagged>>) @@ (sPlain :> <<M, V, plain>>) @@ (sPlainW :> <<M, W, plain>>)
    @@ (sBob :> <<N, V, plain>>) @@ (sForged :> <<M, W, tagged>>)

UploadForm(owner, image, model, version, signature) ==
    [owner |-> owner, image |-> image, model |-> model, version |-> version,
     signature |-> signature]

FormsDef == {
    UploadForm(alice, tagged, Blank, Blank, sTagged),
    UploadForm(alice, tagged, M, W, sForged),
    UploadForm(alice, plain, M, V, sPlain),
    UploadForm(alice, plain, M, W, sPlainW),
    UploadForm(bob, plain, N, V, sBob)}

ReleasesDef == {Row(f, n) : f \in Forms, n \in Publishable}

Symmetry == Permutations(Uploads)
=============================================================================
