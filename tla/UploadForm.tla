----------------------------- MODULE UploadForm -----------------------------
(***************************************************************************)
(* The dashboard's publishing form (frontend/src/views/FirmwareUpload.tsx),*)
(* which reads the chosen image and the chosen private key, signs what the *)
(* fields say in the tab and posts it.  Reading, importing and signing are *)
(* awaited, so any of them may finish after the operator has gone on to    *)
(* choose or type something else.                                          *)
(*                                                                         *)
(* The model and version fields are one label here, blank until both are   *)
(* filled in.  React runs the signing effect at once after a change event, *)
(* and some time after the render that an awaited result brings about.     *)
(***************************************************************************)
EXTENDS Naturals, SequencesExt

CONSTANTS
    Files,          \* images
    Labels,         \* <<model, version>> pairs
    Tag,            \* the label an image's one build marker says, or NoTag
    Keys,           \* private keys that import
    BadKey,         \* a file that is not such a key
    AccountKey,     \* the key the account's uploads are verified against
    HandSignatures, \* signatures made elsewhere and pasted in
    NoFile, NoTag, NoKey, NoSignature, Blank,
    MaxReads,       \* bound: images being read at a time
    MaxImports      \* bound: keys being imported at a time

Signatures == [key : Keys, label : Labels, file : Files]

ASSUME UploadFormAssumption ==
    /\ NoFile \notin Files /\ Blank \notin Labels /\ NoTag \notin Labels \cup {Blank}
    /\ NoKey \notin Keys \cup {BadKey} /\ BadKey \notin Keys
    /\ Tag \in [Files -> Labels \cup {NoTag}]
    /\ HandSignatures \subseteq Signatures /\ NoSignature \notin Signatures
    /\ MaxReads \in Nat /\ MaxImports \in Nat

VARIABLES
    file,           \* chosen in the file input, which is what gets post
    reading,        \* the reads handleFileChange awaits, oldest first
    bytes,          \* fileBytes: what gets signed
    inspection,     \* the state of the last read
    label,          \* the model and version fields
    key, keyError,  \* signingKey; whether the last trouble with it is shown
    importing,      \* the imports handleKeyChange awaits, oldest first
    signature,      \* the signature field
    signing,        \* what the effect is signing, unless cleaned up since
    effectDue,      \* rendered, and the effect has yet to run
    post,           \* what the server will make of the form under way to it
    typed           \* history: which fields hold what the operator typed

input == <<file, reading, bytes, inspection, label>>
keys == <<key, keyError, importing>>
signed == <<signature, signing, effectDue>>
vars == <<input, keys, signed, post, typed>>

-----------------------------------------------------------------------------
(* The effect that signs: once everything the manifest covers is there,    *)
(* and again whenever any of it changes.                                   *)
Covering(k, f, l) ==
    IF k = NoKey \/ f = NoFile \/ l = Blank THEN {}
    ELSE {[key |-> k, label |-> l, file |-> f]}

\* mutant: no cleanup, what was being signed still arrives
SignsBeside(k, f, l) == signing' = signing \cup Covering(k, f, l)

Signs(k, f, l) == signing' = Covering(k, f, l)

(* After a change event: the effect runs if what it depends on changed or  *)
(* it was due.                                                             *)
Flush(changed) ==
    /\ effectDue' = FALSE
    /\ IF changed \/ effectDue THEN Signs(key', bytes', label') ELSE UNCHANGED signing

RunEffect ==
    /\ effectDue
    /\ effectDue' = FALSE
    /\ Signs(key, bytes, label)
    /\ UNCHANGED <<input, keys, signature, post, typed>>

SignDone(s) ==
    /\ s \in signing
    /\ signing' = signing \ {s}
    /\ signature' = s
    /\ typed' = typed \ {"signature"}
    /\ UNCHANGED <<input, keys, effectDue, post>>

SignFails(s) ==
    /\ s \in signing
    /\ signing' = signing \ {s}
    /\ keyError' = TRUE
    /\ UNCHANGED <<input, key, importing, signature, effectDue, post, typed>>

-----------------------------------------------------------------------------
(* handleFileChange, up to its await and after it.                         *)
ClearFields ==
    /\ label' = Blank
    /\ signature' = NoSignature
    /\ typed' = {}

PickFile(f) ==
    /\ Len(reading) < MaxReads
    /\ ClearFields
    /\ file' = f
    /\ reading' = Append(reading, f)
    /\ inspection' = "checking"
    /\ UNCHANGED <<bytes, keys, post>>
    /\ Flush(label # Blank)

PickNoFile ==
    /\ file # NoFile
    /\ ClearFields
    /\ file' = NoFile
    /\ bytes' = NoFile
    /\ inspection' = "idle"
    /\ UNCHANGED <<reading, keys, post>>
    /\ Flush(TRUE)

ReadTagged(i) ==
    /\ Tag[reading[i]] # NoTag
    /\ label' = Tag[reading[i]]
    /\ inspection' = "found"
    /\ typed' = typed \ {"label"}

ReadUntagged(i) ==
    /\ Tag[reading[i]] = NoTag
    /\ inspection' = "absent"
    /\ UNCHANGED <<label, typed>>

(* Mutant: the fields are filled in with whatever was found.               *)
ReadDoneAnyhow(i) ==
    /\ bytes' = reading[i]
    /\ label' = Tag[reading[i]]
    /\ inspection' = "found"
    /\ typed' = typed \ {"label"}
    /\ reading' = RemoveAt(reading, i)
    /\ effectDue' = TRUE
    /\ UNCHANGED <<file, keys, signature, signing, post>>

ReadDone(i) ==
    /\ bytes' = reading[i]
    /\ ReadTagged(i) \/ ReadUntagged(i)
    /\ reading' = RemoveAt(reading, i)
    /\ effectDue' = TRUE
    /\ UNCHANGED <<file, keys, signature, signing, post>>

(* Mutant: the handler has no catch.                                       *)
ReadFailsUncaught(i) ==
    /\ reading' = RemoveAt(reading, i)
    /\ UNCHANGED <<file, bytes, inspection, label, keys, signed, post, typed>>

ReadFails(i) ==
    /\ bytes' = NoFile
    /\ inspection' = "absent"
    /\ reading' = RemoveAt(reading, i)
    /\ effectDue' = TRUE
    /\ UNCHANGED <<file, label, keys, signature, signing, post, typed>>

-----------------------------------------------------------------------------
(* handleKeyChange, likewise.                                              *)
ClearSignature ==
    /\ keyError' = FALSE
    /\ signature' = NoSignature
    /\ typed' = typed \ {"signature"}

PickKey(k) ==
    /\ Len(importing) < MaxImports
    /\ ClearSignature
    /\ importing' = Append(importing, k)
    /\ UNCHANGED <<input, key, post>>
    /\ Flush(FALSE)

PickNoKey ==
    /\ ClearSignature
    /\ key' = NoKey
    /\ UNCHANGED <<input, importing, post>>
    /\ Flush(TRUE)

ImportDone(i) ==
    /\ importing[i] # BadKey
    /\ key' = importing[i]
    /\ importing' = RemoveAt(importing, i)
    /\ effectDue' = TRUE
    /\ UNCHANGED <<input, keyError, signature, signing, post, typed>>

ImportFails(i) ==
    /\ importing[i] = BadKey
    /\ key' = NoKey
    /\ keyError' = TRUE
    /\ importing' = RemoveAt(importing, i)
    /\ effectDue' = TRUE
    /\ UNCHANGED <<input, signature, signing, post, typed>>

-----------------------------------------------------------------------------
(* The fields.  An image that names itself makes the label read-only.      *)
TypeLabel(l) ==
    /\ inspection # "found"
    /\ label' = l
    /\ typed' = typed \cup {"label"}
    /\ UNCHANGED <<file, reading, bytes, inspection, keys, signature, post>>
    /\ Flush(l # label)

TypeSignature(s) ==
    /\ signature' = s
    /\ typed' = typed \cup {"signature"}
    /\ UNCHANGED <<input, keys, post>>
    /\ Flush(FALSE)

(* What the server can store: the image's marker wins over the fields, and *)
(* the account's key has signed this label for this image.                 *)
Acceptable ==
    /\ label # Blank /\ Tag[file] \in {NoTag, label}
    /\ signature = [key |-> AccountKey, label |-> label, file |-> file]

(* handleSubmit: the button is enabled, every required field is filled in, *)
(* and what the form holds at this moment is sent.                         *)
Submit ==
    /\ post = "none"
    /\ inspection # "checking"
    /\ file # NoFile /\ label # Blank /\ signature # NoSignature
    /\ post' = IF Acceptable THEN "acceptable" ELSE "unacceptable"
    /\ UNCHANGED <<input, keys, signature, typed>>
    /\ Flush(FALSE)

Stored ==
    /\ post = "acceptable"
    /\ post' = "none"
    /\ file' = NoFile
    /\ bytes' = NoFile
    /\ label' = Blank
    /\ signature' = NoSignature
    /\ inspection' = "idle"
    /\ typed' = {}
    /\ effectDue' = TRUE
    /\ UNCHANGED <<reading, keys, signing>>

(* Refused, which the server may do for its own reasons too (a duplicate), *)
(* or no answer.                                                           *)
NotStored ==
    /\ post # "none"
    /\ post' = "none"
    /\ UNCHANGED <<input, keys, signed, typed>>

-----------------------------------------------------------------------------
Init ==
    /\ file = NoFile /\ bytes = NoFile /\ reading = <<>>
    /\ inspection = "idle"
    /\ label = Blank
    /\ key = NoKey /\ keyError = FALSE /\ importing = <<>>
    /\ signature = NoSignature /\ signing = {} /\ effectDue = FALSE
    /\ post = "none"
    /\ typed = {}

Operator ==
    \/ \E f \in Files : PickFile(f)
    \/ PickNoFile
    \/ \E k \in Keys \cup {BadKey} : PickKey(k)
    \/ PickNoKey
    \/ \E l \in Labels \cup {Blank} : TypeLabel(l)
    \/ \E s \in HandSignatures : TypeSignature(s)
    \/ Submit

Reads == \E i \in DOMAIN reading : ReadDone(i) \/ ReadFails(i)
Imports == \E i \in DOMAIN importing : ImportDone(i) \/ ImportFails(i)
SignEnds == \E s \in signing : SignDone(s) \/ SignFails(s)

Next == Operator \/ Reads \/ Imports \/ RunEffect \/ SignEnds \/ Stored \/ NotStored

(* The browser finishes what it was asked to read.                         *)
Spec == Init /\ [][Next]_vars /\ WF_vars(Reads)

-----------------------------------------------------------------------------
TypeOK ==
    /\ file \in Files \cup {NoFile} /\ bytes \in Files \cup {NoFile}
    /\ reading \in Seq(Files)
    /\ inspection \in {"idle", "checking", "found", "absent"}
    /\ label \in Labels \cup {Blank}
    /\ key \in Keys \cup {NoKey} /\ keyError \in BOOLEAN
    /\ importing \in Seq(Keys \cup {BadKey})
    /\ signature \in Signatures \cup {NoSignature}
    /\ signing \subseteq Signatures
    /\ effectDue \in BOOLEAN
    /\ post \in {"none", "acceptable", "unacceptable"}
    /\ typed \subseteq {"label", "signature"}

Settled == reading = <<>> /\ importing = <<>> /\ signing = {} /\ ~effectDue

(* However the reads, imports and signatures raced, once they are over the *)
(* signature field holds this key's signature of this label for these      *)
(* bytes, unless the operator pasted one since or signing failed.          *)
SettledSignature ==
    Settled /\ ~keyError /\ "signature" \notin typed =>
        \A s \in Covering(key, bytes, label) : signature = s

(* An image that was found to name itself is published as what it says:    *)
(* whatever came in between, the read-only label is the one in the bytes   *)
(* that get signed.                                                        *)
FoundNames == inspection = "found" => bytes \in Files /\ label = Tag[bytes]

(* The submit button does not stay disabled over an image that cannot be   *)
(* read, or that was replaced while it was read.                           *)
NeverStuckReading == inspection = "checking" ~> inspection # "checking"

(* "One that does not [name itself] must not leave the previous image's    *)
(* values sitting there looking like they describe this file": what can be *)
(* published of an image without a marker is what the operator typed.      *)
NoLeftovers ==
    inspection = "absent" /\ file # NoFile /\ Acceptable =>
        Tag[file] # NoTag \/ "label" \in typed
=============================================================================
