-------------------------- MODULE UploadFormProofs --------------------------
(***************************************************************************)
(* The races of the publishing form, for any images, keys, labels and any  *)
(* number of reads and imports under way.                                  *)
(***************************************************************************)
EXTENDS UploadForm, SequenceTheorems, TLAPS

(* What is being signed is what the form holds, unless the effect has yet  *)
(* to say so.                                                              *)
SigningCurrent == ~effectDue => signing \subseteq Covering(key, bytes, label)

(* SettledSignature, also while images are read: a read changes nothing    *)
(* before it ends, and what it changes makes the effect due.               *)
SignedUnlessUnderWay ==
    importing = <<>> /\ signing = {} /\ ~effectDue /\ ~keyError /\ "signature" \notin typed =>
        \A s \in Covering(key, bytes, label) : signature = s

SignInv == SigningCurrent /\ SignedUnlessUnderWay

-----------------------------------------------------------------------------
(* At most one signature covers what the form holds, and only once it      *)
(* holds everything.                                                       *)
LEMMA CoveringUnique ==
    ASSUME NEW k, NEW f, NEW l, NEW s \in Covering(k, f, l), NEW t \in Covering(k, f, l)
    PROVE  s = t
BY DEF Covering

LEMMA CoveringTyped ==
    ASSUME NEW k \in Keys \cup {NoKey}, NEW f \in Files \cup {NoFile}, NEW l \in Labels \cup {Blank}
    PROVE  Covering(k, f, l) \subseteq Signatures
BY DEF Covering, Signatures

(* Taking one out of a queue leaves a queue of the same things.            *)
LEMMA RemoveAtTyped ==
    ASSUME NEW S, NEW q \in Seq(S), NEW i \in DOMAIN q
    PROVE  q[i] \in S /\ RemoveAt(q, i) \in Seq(S)
<1>1. Len(q) \in Nat /\ DOMAIN q = 1 .. Len(q) /\ \A j \in 1 .. Len(q) : q[j] \in S
  BY LenProperties, ElementOfSeq
<1>2. i \in Int /\ i >= 1 /\ i <= Len(q)
  BY <1>1
<1>3. SubSeq(q, 1, i - 1) \in Seq(S)
  <2>1. \A j \in 1 .. i - 1 : q[j] \in S
    BY <1>1, <1>2
  <2> QED BY <2>1, <1>2, SubSeqProperties
<1>4. SubSeq(q, i + 1, Len(q)) \in Seq(S)
  <2>1. \A j \in i + 1 .. Len(q) : q[j] \in S
    BY <1>1, <1>2
  <2> QED BY <2>1, <1>1, <1>2, SubSeqProperties
<1> QED BY <1>1, <1>3, <1>4, ConcatProperties DEF RemoveAt

-----------------------------------------------------------------------------
(* The form's variables have their types.                                  *)
LEMMA FlushTyped ==
    ASSUME TypeOK, NEW changed, Flush(changed),
           key' \in Keys \cup {NoKey}, bytes' \in Files \cup {NoFile}, label' \in Labels \cup {Blank}
    PROVE  signing' \subseteq Signatures /\ effectDue' \in BOOLEAN
<1>1. effectDue' \in BOOLEAN
  BY Zenon DEF Flush
<1>2. CASE changed \/ effectDue
  <2>1. Signs(key', bytes', label')
    BY <1>2, Zenon DEF Flush
  <2>2. signing' = Covering(key', bytes', label')
    BY <2>1, Zenon DEF Signs
  <2>3. Covering(key', bytes', label') \subseteq Signatures
    BY CoveringTyped, Zenon
  <2> QED BY <1>1, <2>2, <2>3, Zenon
<1>3. CASE ~(changed \/ effectDue)
  <2>1. signing' = signing
    BY <1>3, Zenon DEF Flush
  <2>2. signing \subseteq Signatures
    BY Zenon DEF TypeOK
  <2> QED BY <1>1, <2>1, <2>2, Zenon
<1> QED BY <1>2, <1>3, Zenon

LEMMA OperatorTyped ==
    ASSUME TypeOK, Operator
    PROVE  TypeOK'
<1> USE DEF input, keys
<1>1. ASSUME NEW f \in Files, PickFile(f) PROVE TypeOK'
  <2>1. reading' \in Seq(Files)
    BY <1>1, AppendProperties DEF PickFile, TypeOK
  <2>2. signing' \subseteq Signatures /\ effectDue' \in BOOLEAN
    BY <1>1, FlushTyped DEF PickFile, ClearFields, TypeOK
  <2> QED BY <1>1, <2>1, <2>2 DEF PickFile, ClearFields, TypeOK
<1>2. ASSUME PickNoFile PROVE TypeOK'
  <2>2. signing' \subseteq Signatures /\ effectDue' \in BOOLEAN
    BY <1>2, FlushTyped DEF PickNoFile, ClearFields, TypeOK
  <2> QED BY <1>2, <2>2 DEF PickNoFile, ClearFields, TypeOK
<1>3. ASSUME NEW k \in Keys \cup {BadKey}, PickKey(k) PROVE TypeOK'
  <2>1. importing' \in Seq(Keys \cup {BadKey})
    BY <1>3, AppendProperties DEF PickKey, TypeOK
  <2>2. signing' \subseteq Signatures /\ effectDue' \in BOOLEAN
    BY <1>3, FlushTyped DEF PickKey, TypeOK
  <2> QED BY <1>3, <2>1, <2>2 DEF PickKey, ClearSignature, TypeOK
<1>4. ASSUME PickNoKey PROVE TypeOK'
  <2>2. signing' \subseteq Signatures /\ effectDue' \in BOOLEAN
    BY <1>4, FlushTyped DEF PickNoKey, TypeOK
  <2> QED BY <1>4, <2>2 DEF PickNoKey, ClearSignature, TypeOK
<1>5. ASSUME NEW l \in Labels \cup {Blank}, TypeLabel(l) PROVE TypeOK'
  <2>2. signing' \subseteq Signatures /\ effectDue' \in BOOLEAN
    BY <1>5, FlushTyped DEF TypeLabel, TypeOK
  <2> QED BY <1>5, <2>2 DEF TypeLabel, TypeOK
<1>6. ASSUME NEW s \in HandSignatures, TypeSignature(s) PROVE TypeOK'
  <2>2. signing' \subseteq Signatures /\ effectDue' \in BOOLEAN
    BY <1>6, FlushTyped DEF TypeSignature, TypeOK
  <2>3. s \in Signatures
    BY UploadFormAssumption
  <2> QED BY <1>6, <2>2, <2>3 DEF TypeSignature, TypeOK
<1>7. ASSUME Submit PROVE TypeOK'
  <2>2. signing' \subseteq Signatures /\ effectDue' \in BOOLEAN
    BY <1>7, FlushTyped DEF Submit, TypeOK
  <2>3. post' \in {"none", "acceptable", "unacceptable"}
    BY <1>7 DEF Submit
  <2> QED BY <1>7, <2>2, <2>3 DEF Submit, TypeOK
<1> QED BY <1>1, <1>2, <1>3, <1>4, <1>5, <1>6, <1>7 DEF Operator

LEMMA AnswerTyped ==
    ASSUME TypeOK, Reads \/ Imports \/ RunEffect \/ SignEnds \/ Stored \/ NotStored
    PROVE  TypeOK'
<1> USE DEF input, keys, signed
<1>1. ASSUME NEW i \in DOMAIN reading, ReadDone(i) PROVE TypeOK'
  <2>1. reading[i] \in Files /\ reading' \in Seq(Files)
    BY <1>1, RemoveAtTyped DEF ReadDone, TypeOK
  <2>2. CASE ReadTagged(i)
    <3>1. Tag[reading[i]] \in Labels
      BY <2>1, <2>2, UploadFormAssumption DEF ReadTagged
    <3> QED BY <1>1, <2>1, <2>2, <3>1 DEF ReadDone, ReadTagged, TypeOK
  <2>3. CASE ReadUntagged(i)
    BY <1>1, <2>1, <2>3 DEF ReadDone, ReadUntagged, TypeOK
  <2> QED BY <1>1, <2>2, <2>3 DEF ReadDone
<1>2. ASSUME NEW i \in DOMAIN reading, ReadFails(i) PROVE TypeOK'
  <2>1. reading' \in Seq(Files)
    BY <1>2, RemoveAtTyped DEF ReadFails, TypeOK
  <2> QED BY <1>2, <2>1 DEF ReadFails, TypeOK
<1>3. ASSUME NEW i \in DOMAIN importing, ImportDone(i) \/ ImportFails(i) PROVE TypeOK'
  <2>1. importing[i] \in Keys \cup {BadKey} /\ importing' \in Seq(Keys \cup {BadKey})
    BY <1>3, RemoveAtTyped DEF ImportDone, ImportFails, TypeOK
  <2> QED BY <1>3, <2>1 DEF ImportDone, ImportFails, TypeOK
<1>4. ASSUME RunEffect PROVE TypeOK'
  <2>1. signing' \subseteq Signatures
    BY <1>4, CoveringTyped DEF RunEffect, Signs, TypeOK
  <2> QED BY <1>4, <2>1 DEF RunEffect, TypeOK
<1>5. ASSUME NEW s \in signing, SignDone(s) \/ SignFails(s) PROVE TypeOK'
  BY <1>5 DEF SignDone, SignFails, TypeOK
<1>6. CASE Stored
  BY <1>6 DEF Stored, TypeOK
<1>7. CASE NotStored
  BY <1>7 DEF NotStored, TypeOK
<1> QED BY <1>1, <1>2, <1>3, <1>4, <1>5, <1>6, <1>7 DEF Reads, Imports, SignEnds

(* The form's variables have their types (FirmwareUpload.tsx 22-38).       *)
THEOREM TypeCorrect == Spec => []TypeOK
<1>1. Init => TypeOK
  BY EmptySeq DEF Init, TypeOK
<1>2. TypeOK /\ [Next]_vars => TypeOK'
  <2> SUFFICES ASSUME TypeOK, [Next]_vars PROVE TypeOK'
    OBVIOUS
  <2>1. CASE UNCHANGED vars
    BY <2>1 DEF vars, input, keys, signed, TypeOK
  <2> QED BY <2>1, OperatorTyped, AnswerTyped DEF Next
<1> QED BY <1>1, <1>2, PTL DEF Spec

-----------------------------------------------------------------------------
(* Only the end of a read finds a name, and it is the read bytes' own; as  *)
(* long as it stands nothing else touches the bytes or the label.          *)
THEOREM FoundIsInTheBytes == Spec => []FoundNames
<1>1. Init => FoundNames
  BY DEF Init, FoundNames
<1>2. TypeOK /\ FoundNames /\ [Next]_vars => FoundNames'
  <2> SUFFICES ASSUME TypeOK, FoundNames, [Next]_vars, inspection' = "found"
               PROVE  bytes' \in Files /\ label' = Tag[bytes']
    BY DEF FoundNames
  <2> USE DEF input
  <2>1. ASSUME NEW i \in DOMAIN reading, ReadDone(i)
        PROVE  bytes' \in Files /\ label' = Tag[bytes']
    <3>1. reading[i] \in Files
      BY RemoveAtTyped DEF TypeOK
    <3> QED BY <2>1, <3>1 DEF ReadDone, ReadTagged, ReadUntagged
  <2>2. ASSUME Operator
        PROVE  bytes' \in Files /\ label' = Tag[bytes']
    BY <2>2 DEF Operator, PickFile, PickNoFile, PickKey, PickNoKey, TypeLabel, TypeSignature,
         Submit, FoundNames
  <2>3. ASSUME NEW i \in DOMAIN reading, ReadFails(i)
        PROVE  bytes' \in Files /\ label' = Tag[bytes']
    BY <2>3 DEF ReadFails
  <2>4. CASE Imports \/ RunEffect \/ SignEnds \/ Stored \/ NotStored \/ UNCHANGED vars
    BY <2>4 DEF Imports, ImportDone, ImportFails, RunEffect, SignEnds, SignDone, SignFails,
         Stored, NotStored, vars, FoundNames
  <2> QED BY <2>1, <2>2, <2>3, <2>4 DEF Next, Reads
<1> QED BY <1>1, <1>2, TypeCorrect, PTL DEF Spec

-----------------------------------------------------------------------------
(* A change event leaves what is being signed current, and signs again     *)
(* whatever it changed.                                                    *)
LEMMA FlushSigns ==
    ASSUME SignInv, NEW changed, Flush(changed),
           ~changed => key' = key /\ bytes' = bytes /\ label' = label
    PROVE  /\ SigningCurrent'
           /\ \/ signing' = Covering(key', bytes', label')
              \/ /\ ~effectDue /\ signing' = signing
                 /\ key' = key /\ bytes' = bytes /\ label' = label
<1>1. CASE changed \/ effectDue
  <2>1. Signs(key', bytes', label')
    BY <1>1, Zenon DEF Flush
  <2> QED BY <2>1, Zenon DEF Signs, SigningCurrent
<1>2. CASE ~changed /\ ~effectDue
  <2>1. signing' = signing /\ key' = key /\ bytes' = bytes /\ label' = label
    BY <1>2, Zenon DEF Flush
  <2>2. SigningCurrent
    BY DEF SignInv
  <2>3. SigningCurrent'
    BY <1>2, <2>1, <2>2, Zenon DEF SigningCurrent
  <2> QED BY <1>2, <2>1, <2>3, Zenon
<1> QED BY <1>1, <1>2, Zenon

(* One signing that is running is all there is to wait for.                *)
LEMMA NothingToSign ==
    ASSUME signing' = Covering(key', bytes', label')
    PROVE  SignedUnlessUnderWay'
BY DEF SignedUnlessUnderWay

LEMMA DueLater ==
    ASSUME effectDue'
    PROVE  SignInv'
BY DEF SignInv, SigningCurrent, SignedUnlessUnderWay

LEMMA OperatorSigns ==
    ASSUME TypeOK, SignInv, Operator
    PROVE  SignInv'
<1> USE DEF input, keys
<1>1. ASSUME NEW f \in Files, PickFile(f) PROVE SignInv'
  <2>1. SigningCurrent'
    BY <1>1, FlushSigns DEF PickFile, ClearFields
  <2>2. Covering(key', bytes', label') = {}
    BY <1>1 DEF PickFile, ClearFields, Covering
  <2> QED BY <2>1, <2>2 DEF SignInv, SignedUnlessUnderWay
<1>2. ASSUME PickNoFile PROVE SignInv'
  <2>1. SigningCurrent'
    BY <1>2, FlushSigns DEF PickNoFile
  <2>2. Covering(key', bytes', label') = {}
    BY <1>2 DEF PickNoFile, Covering
  <2> QED BY <2>1, <2>2 DEF SignInv, SignedUnlessUnderWay
<1>3. ASSUME NEW k \in Keys \cup {BadKey}, PickKey(k) PROVE SignInv'
  <2>1. SigningCurrent'
    BY <1>3, FlushSigns DEF PickKey
  <2>2. importing' # <<>>
    BY <1>3, AppendProperties DEF PickKey, TypeOK
  <2> QED BY <2>1, <2>2 DEF SignInv, SignedUnlessUnderWay
<1>4. ASSUME PickNoKey PROVE SignInv'
  <2>1. SigningCurrent'
    BY <1>4, FlushSigns DEF PickNoKey
  <2>2. Covering(key', bytes', label') = {}
    BY <1>4 DEF PickNoKey, Covering
  <2> QED BY <2>1, <2>2 DEF SignInv, SignedUnlessUnderWay
<1>5. ASSUME NEW l \in Labels \cup {Blank}, TypeLabel(l) PROVE SignInv'
  <2> DEFINE changed == l # label
  <2>1. /\ SigningCurrent'
        /\ \/ signing' = Covering(key', bytes', label')
           \/ /\ ~effectDue /\ signing' = signing
              /\ key' = key /\ bytes' = bytes /\ label' = label
    BY <1>5, FlushSigns DEF TypeLabel
  <2>2. CASE signing' = Covering(key', bytes', label')
    BY <2>1, <2>2, NothingToSign DEF SignInv
  <2>3. CASE /\ ~effectDue /\ signing' = signing
             /\ key' = key /\ bytes' = bytes /\ label' = label
    BY <1>5, <2>1, <2>3 DEF TypeLabel, SignInv, SignedUnlessUnderWay
  <2> QED BY <2>1, <2>2, <2>3
<1>6. ASSUME NEW s \in HandSignatures, TypeSignature(s) PROVE SignInv'
  <2>1. SigningCurrent'
    BY <1>6, FlushSigns DEF TypeSignature
  <2> QED BY <1>6, <2>1 DEF TypeSignature, SignInv, SignedUnlessUnderWay
<1>7. ASSUME Submit PROVE SignInv'
  <2>1. /\ SigningCurrent'
        /\ \/ signing' = Covering(key', bytes', label')
           \/ /\ ~effectDue /\ signing' = signing
              /\ key' = key /\ bytes' = bytes /\ label' = label
    BY <1>7, FlushSigns DEF Submit
  <2>2. CASE signing' = Covering(key', bytes', label')
    BY <2>1, <2>2, NothingToSign DEF SignInv
  <2>3. CASE /\ ~effectDue /\ signing' = signing
             /\ key' = key /\ bytes' = bytes /\ label' = label
    BY <1>7, <2>1, <2>3 DEF Submit, SignInv, SignedUnlessUnderWay
  <2> QED BY <2>1, <2>2, <2>3
<1> QED BY <1>1, <1>2, <1>3, <1>4, <1>5, <1>6, <1>7 DEF Operator

LEMMA AnswerSigns ==
    ASSUME TypeOK, SignInv, Reads \/ Imports \/ RunEffect \/ SignEnds \/ Stored \/ NotStored
    PROVE  SignInv'
<1> USE DEF input, keys, signed
<1>1. CASE Reads \/ Imports \/ Stored
  <2>1. effectDue'
    BY <1>1 DEF Reads, ReadDone, ReadFails, Imports, ImportDone, ImportFails, Stored
  <2> QED BY <2>1, DueLater
<1>2. CASE RunEffect
  <2>1. signing' = Covering(key', bytes', label')
    BY <1>2 DEF RunEffect, Signs
  <2> QED BY <2>1, NothingToSign DEF SignInv, SigningCurrent
<1>3. ASSUME NEW s \in signing, SignDone(s) PROVE SignInv'
  <2>1. SigningCurrent'
    BY <1>3 DEF SignDone, SignInv, SigningCurrent
  <2>2. SignedUnlessUnderWay'
    <3> SUFFICES ASSUME ~effectDue', NEW t \in Covering(key', bytes', label')
                 PROVE  signature' = t
      BY DEF SignedUnlessUnderWay
    <3>1. s \in Covering(key, bytes, label) /\ t \in Covering(key, bytes, label)
      BY <1>3 DEF SignDone, SignInv, SigningCurrent
    <3> QED BY <1>3, <3>1, CoveringUnique DEF SignDone
  <2> QED BY <2>1, <2>2 DEF SignInv
<1>4. ASSUME NEW s \in signing, SignFails(s) PROVE SignInv'
  BY <1>4 DEF SignFails, SignInv, SigningCurrent, SignedUnlessUnderWay
<1>5. CASE NotStored
  BY <1>5 DEF NotStored, SignInv, SigningCurrent, SignedUnlessUnderWay
<1> QED BY <1>1, <1>2, <1>3, <1>4, <1>5 DEF SignEnds

(* However the reads, imports and signatures race, a form at rest holds    *)
(* the signature of what it holds: the effect's cleanup and re-run         *)
(* (FirmwareUpload.tsx 110-124) leave nothing stale behind.                *)
THEOREM RestIsSigned == Spec => []SettledSignature
<1>1. Init => SignInv
  BY DEF Init, SignInv, SigningCurrent, SignedUnlessUnderWay, Covering
<1>2. TypeOK /\ SignInv /\ [Next]_vars => SignInv'
  <2> SUFFICES ASSUME TypeOK, SignInv, [Next]_vars PROVE SignInv'
    OBVIOUS
  <2>1. CASE UNCHANGED vars
    BY <2>1 DEF vars, input, keys, signed, SignInv, SigningCurrent, SignedUnlessUnderWay
  <2> QED BY <2>1, OperatorSigns, AnswerSigns DEF Next
<1>3. SignInv => SettledSignature
  BY DEF SignInv, SignedUnlessUnderWay, SettledSignature, Settled
<1> QED BY <1>1, <1>2, <1>3, TypeCorrect, PTL DEF Spec
=============================================================================
