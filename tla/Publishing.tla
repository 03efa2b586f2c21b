----------------------------- MODULE Publishing -----------------------------
(***************************************************************************)
(* Publishing firmware: POST /firmware/upload, run by several threads of   *)
(* the server at once, over the firmware table and the directory of        *)
(* binaries; withdrawing a version; and replacing the key that uploads are *)
(* verified against.                                                       *)
(*                                                                         *)
(* A step is what the code does between two accesses to shared state: a    *)
(* query, a commit, opening a file, writing it.  An upload may fail, or    *)
(* the whole server stop, between any two of them.                         *)
(***************************************************************************)
EXTENDS Catalogue

CONSTANTS
    Uploads,        \* the upload requests
    Keys,
    Tag,            \* what an image's build marker says, or NoTag
    WellFormed,     \* the images that validate_image accepts
    Publishable,    \* the <<model, version>> that validate_manifest_fields accepts
    SignedBy,       \* the key pair that made a signature
    Covers,         \* the <<model, version, image>> a signature is over
    Forms,          \* the upload forms that are submitted
    Blank, NoTag, NoKey

Names == Models \X Versions

ASSUME PublishingAssumption ==
    /\ NoTag \notin Names /\ NoKey \notin Keys /\ Blank \notin Models \cup Versions
    /\ Tag \in [Images -> Names \cup {NoTag}]
    /\ WellFormed \subseteq Images
    /\ Publishable \subseteq Names
    /\ SignedBy \in [Signatures -> Keys]
    /\ Covers \in [Signatures -> Models \X Versions \X Images]
    /\ Forms \subseteq [owner : Owners, image : Images, signature : Signatures,
                        model : Models \cup {Blank}, version : Versions \cup {Blank}]
    /\ Forms # {}

VARIABLES
    blob,       \* the file named after an image's hash
    publicKey,  \* the key of each account
    held,       \* history: every key an account has had
    pc,         \* where an upload is, or the answer it was given
    form,       \* what it submitted
    key,        \* its owner's key when the request was authenticated
    name        \* the <<model, version>> it publishes as, once settled

shared == <<firmware, blob, publicKey, held>>
local == <<pc, form, key, name>>
vars == <<shared, local>>

Answers == {"stored", "refused", "same binary", "same version", "unexplained"}
Places == {"received", "store", "writing", "add", "reread", "reread version"}

-----------------------------------------------------------------------------
Row(f, n) == [owner |-> f.owner, model |-> n[1], version |-> n[2], image |-> f.image,
              signature |-> f.signature, active |-> TRUE]

ASSUME ReleasesAssumption == {Row(f, n) : f \in Forms, n \in Publishable} \subseteq Releases

(* Mutant: a withdrawn version no longer counts.                           *)
ClashesWithActive(r) ==
    \E i \in DOMAIN firmware : /\ firmware[i].active
                               /\ SameBinary(firmware[i], r) \/ SameVersion(firmware[i], r)

Clashes(r) == \E i \in DOMAIN firmware : SameBinary(firmware[i], r) \/ SameVersion(firmware[i], r)

(* get_by_sha256, and the second query of _conflict.                       *)
HasBinary(r) == \E i \in DOMAIN firmware : SameBinary(firmware[i], r)
HasVersion(r) == \E i \in DOMAIN firmware : SameVersion(firmware[i], r)

(* _identify: the names a form may be published under, none or one.  The   *)
(* image's marker wins, and a field that contradicts it is refused; a form *)
(* without a marker must fill in both fields.                              *)
Identify(f) ==
    IF Tag[f.image] = NoTag
      THEN {<<f.model, f.version>>} \cap Names
      ELSE {n \in {Tag[f.image]} : f.model \in {Blank, n[1]} /\ f.version \in {Blank, n[2]}}

(* verify_manifest.                                                        *)
Verifies(signature, n, image, k) ==
    k # NoKey /\ SignedBy[signature] = k /\ Covers[signature] = <<n[1], n[2], image>>

-----------------------------------------------------------------------------
Goto(u, place) == pc' = [pc EXCEPT ![u] = place]

(* The request is authenticated, which reads the account and its key, and  *)
(* its body is read.                                                       *)
Receive(u) ==
    /\ pc[u] = "idle"
    /\ \E f \in Forms : /\ form' = [form EXCEPT ![u] = f]
                        /\ key' = [key EXCEPT ![u] = publicKey[f.owner]]
    /\ Goto(u, "received")
    /\ UNCHANGED <<shared, name>>

(* Everything up to the write.  The query for the same binary is the only  *)
(* access to shared state in it.                                           *)
Refuse(u) ==
    /\ pc[u] = "received"
    /\ form[u].image \notin WellFormed \/ Identify(form[u]) \cap Publishable = {}
    /\ Goto(u, "refused")
    /\ UNCHANGED <<shared, form, key, name>>

(* Mutant: it publishes as what was typed in.                              *)
SettledByForm(u, n) ==
    /\ pc[u] = "received"
    /\ form[u].image \in WellFormed
    /\ n \in Identify(form[u]) \cap Publishable
    /\ name' = [name EXCEPT ![u] = <<form[u].model, form[u].version>>]

Settled(u, n) ==
    /\ pc[u] = "received"
    /\ form[u].image \in WellFormed
    /\ n \in Identify(form[u]) \cap Publishable
    /\ name' = [name EXCEPT ![u] = n]

RefuseDuplicate(u) ==
    /\ \E n \in Names : Settled(u, n) /\ HasBinary(Row(form[u], n))
    /\ Goto(u, "same binary")
    /\ UNCHANGED <<shared, form, key>>

RefuseSignature(u) ==
    /\ \E n \in Names : /\ Settled(u, n)
                        /\ ~HasBinary(Row(form[u], n))
                        /\ ~Verifies(form[u].signature, n, form[u].image, key[u])
    /\ Goto(u, "refused")
    /\ UNCHANGED <<shared, form, key>>

(* Mutant: the manifest is signed by whatever key made it.                 *)
AcceptAnySigner(u) ==
    /\ \E n \in Names : /\ Settled(u, n)
                        /\ ~HasBinary(Row(form[u], n))
                        /\ Covers[form[u].signature] = <<n[1], n[2], form[u].image>>
    /\ Goto(u, "store")
    /\ UNCHANGED <<shared, form, key>>

Accept(u) ==
    /\ \E n \in Names : /\ Settled(u, n)
                        /\ ~HasBinary(Row(form[u], n))
                        /\ Verifies(form[u].signature, n, form[u].image, key[u])
    /\ Goto(u, "store")
    /\ UNCHANGED <<shared, form, key>>

-----------------------------------------------------------------------------
(* LocalStorage.put: opening the file truncates it, and one write from its *)
(* start puts every byte there.                                            *)
OpenFile(u) ==
    /\ pc[u] = "store"
    /\ blob' = [blob EXCEPT ![form[u].image] = "partial"]
    /\ Goto(u, "writing")
    /\ UNCHANGED <<firmware, publicKey, held, form, key, name>>

(* Mutant: a write that falls short is not noticed.                        *)
WriteFileShort(u) ==
    /\ pc[u] = "writing"
    /\ Goto(u, "add")
    /\ UNCHANGED <<shared, form, key, name>>

WriteFile(u) ==
    /\ pc[u] = "writing"
    /\ blob' = [blob EXCEPT ![form[u].image] = "whole"]
    /\ Goto(u, "add")
    /\ UNCHANGED <<firmware, publicKey, held, form, key, name>>

(* SqliteFirmwareRepository.add: the commit, which the unique indexes      *)
(* decide, and the two queries that name the one that refused.             *)
Add(u) ==
    /\ pc[u] = "add"
    /\ ~Clashes(Row(form[u], name[u]))
    /\ firmware' = Append(firmware, Row(form[u], name[u]))
    /\ Goto(u, "stored")
    /\ UNCHANGED <<blob, publicKey, held, form, key, name>>

(* Mutant: a rejected insert takes its file back.                          *)
AddRejectedDeletingBlob(u) ==
    /\ pc[u] = "add"
    /\ Clashes(Row(form[u], name[u]))
    /\ blob' = [blob EXCEPT ![form[u].image] = "absent"]
    /\ Goto(u, "reread")
    /\ UNCHANGED <<firmware, publicKey, held, form, key, name>>

AddRejected(u) ==
    /\ pc[u] = "add"
    /\ Clashes(Row(form[u], name[u]))
    /\ Goto(u, "reread")
    /\ UNCHANGED <<shared, form, key, name>>

Reread(u) ==
    /\ pc[u] = "reread"
    /\ Goto(u, IF HasBinary(Row(form[u], name[u])) THEN "same binary" ELSE "reread version")
    /\ UNCHANGED <<shared, form, key, name>>

(* Mutant: only a version that is still offered explains a conflict.       *)
RereadActiveVersion(u) ==
    /\ pc[u] = "reread version"
    /\ Goto(u, IF \E i \in DOMAIN firmware : /\ firmware[i].active
                                             /\ SameVersion(firmware[i], Row(form[u], name[u]))
                 THEN "same version" ELSE "unexplained")
    /\ UNCHANGED <<shared, form, key, name>>

RereadVersion(u) ==
    /\ pc[u] = "reread version"
    /\ Goto(u, IF HasVersion(Row(form[u], name[u])) THEN "same version" ELSE "unexplained")
    /\ UNCHANGED <<shared, form, key, name>>

(* The disk is full, the database is locked, the worker is killed: the     *)
(* request ends where it is, and what it wrote stays.                      *)
Broken(place) == IF place = "writing" THEN "torn" ELSE "failed"

Fail(u) ==
    /\ pc[u] \in Places
    /\ Goto(u, Broken(pc[u]))
    /\ UNCHANGED <<shared, form, key, name>>

Upload(u) ==
    \/ Receive(u) \/ Refuse(u) \/ RefuseDuplicate(u) \/ RefuseSignature(u) \/ Accept(u)
    \/ OpenFile(u) \/ WriteFile(u)
    \/ Add(u) \/ AddRejected(u) \/ Reread(u) \/ RereadVersion(u)
    \/ Fail(u)

-----------------------------------------------------------------------------
ServerStops ==
    /\ \E u \in Uploads : pc[u] \in Places
    /\ pc' = [u \in Uploads |-> IF pc[u] \in Places THEN Broken(pc[u]) ELSE pc[u]]
    /\ UNCHANGED <<shared, form, key, name>>

(* DeactivateFirmware: idempotent, and another account's row is not found. *)
Deactivate(owner, id) ==
    /\ Withdraw(owner, id)
    /\ UNCHANGED <<blob, publicKey, held, local>>

(* PUT /public-key replaces the account's key and nothing else.            *)
SetPublicKey(owner, k) ==
    /\ publicKey' = [publicKey EXCEPT ![owner] = k]
    /\ held' = [held EXCEPT ![owner] = @ \cup {k}]
    /\ UNCHANGED <<firmware, blob, local>>

Init ==
    /\ CatalogueInit
    /\ blob = [i \in Images |-> "absent"]
    /\ publicKey = [o \in Owners |-> NoKey]
    /\ held = [o \in Owners |-> {}]
    /\ pc = [u \in Uploads |-> "idle"]
    /\ form = [u \in Uploads |-> CHOOSE f \in Forms : TRUE]
    /\ key = [u \in Uploads |-> NoKey]
    /\ name = [u \in Uploads |-> NoTag]

Next ==
    \/ \E u \in Uploads : Upload(u)
    \/ ServerStops
    \/ \E owner \in Owners, id \in DOMAIN firmware : Deactivate(owner, id)
    \/ \E owner \in Owners, k \in Keys : SetPublicKey(owner, k)

Spec == Init /\ [][Next]_vars

-----------------------------------------------------------------------------
TypeOK ==
    /\ firmware \in Seq(Rows)
    /\ blob \in [Images -> {"absent", "partial", "whole"}]
    /\ publicKey \in [Owners -> Keys \cup {NoKey}]
    /\ held \in [Owners -> SUBSET Keys]
    /\ pc \in [Uploads -> {"idle", "failed", "torn"} \cup Places \cup Answers]
    /\ form \in [Uploads -> Forms]
    /\ key \in [Uploads -> Keys \cup {NoKey}]
    /\ name \in [Uploads -> Names \cup {NoTag}]

(* However uploads interleave and fail, an account holds one row for a     *)
(* model and version and one row for a model and binary, withdrawn ones    *)
(* included: a version number never comes to mean two images, and an image *)
(* is never offered under a version it will not report.                    *)
UniqueOnBothAxes ==
    \A i, j \in DOMAIN firmware :
        SameBinary(firmware[i], firmware[j]) \/ SameVersion(firmware[i], firmware[j]) => i = j

(* Publishing keeps the promises that Catalogue makes for it.              *)
KeepsCatalogue == CatalogueSpec

(* A row always has a file: no row is committed before its file is there,  *)
(* and neither a rejected upload nor a withdrawn version removes a file    *)
(* that another row has come to share.  (A row without one answers 404 to  *)
(* every device that was offered it.)                                      *)
RowsHaveBlob == \A i \in DOMAIN firmware : blob[firmware[i].image] # "absent"

(* What a row is published as is what its owner's key signed: its          *)
(* signature covers the row's own model, version and image, and was made   *)
(* by a key the account has had.  And an image that names itself is        *)
(* published under that name alone.                                        *)
RowsVerified ==
    \A i \in DOMAIN firmware :
        LET r == firmware[i] IN
        /\ Covers[r.signature] = <<r.model, r.version, r.image>>
        /\ SignedBy[r.signature] \in held[r.owner]
        /\ Tag[r.image] \in {NoTag, <<r.model, r.version>>}

(* A 409 is given for a row that is there, and an insert the indexes       *)
(* refused is always explained, although the two queries that explain it   *)
(* run after the refusal and at different times.                           *)
ConflictsExplained ==
    \A u \in Uploads :
        /\ pc[u] = "same binary" => HasBinary(Row(form[u], name[u]))
        /\ pc[u] = "same version" => HasVersion(Row(form[u], name[u]))
        /\ pc[u] # "unexplained"

(* The file of a row is incomplete only because an upload of the same      *)
(* bytes has opened it and not yet written it, or broke off in between.    *)
TornOnlyByReupload ==
    \A i \in DOMAIN firmware :
        blob[firmware[i].image] = "partial" =>
            \E u \in Uploads : pc[u] \in {"writing", "torn"} /\ form[u].image = firmware[i].image
=============================================================================
