-------------------------- MODULE PublishingProofs --------------------------
(***************************************************************************)
(* The safety of publishing, for any accounts, images, keys and number of  *)
(* uploads at once.  Two facts carry it: the table only grows, so what a   *)
(* query found stays true; and what an upload has done so far is a         *)
(* function of where it is.                                                *)
(***************************************************************************)
EXTENDS Publishing, SequenceTheorems, TLAPS

AfterSettled == {"store", "writing", "add", "reread", "reread version",
                 "stored", "same binary", "same version"}
Accepted == {"store", "writing", "add"}

(* What an upload past its checks is publishing is what was signed by a    *)
(* key its owner has had.                                                  *)
KeysHeld ==
    /\ \A o \in Owners : publicKey[o] # NoKey => publicKey[o] \in held[o]
    /\ \A u \in Uploads : pc[u] # "idle" /\ key[u] # NoKey => key[u] \in held[form[u].owner]

Checked ==
    \A u \in Uploads :
        /\ pc[u] \in AfterSettled => name[u] \in Names
        /\ pc[u] \in Accepted =>
              /\ name[u] \in Identify(form[u]) \cap Publishable
              /\ Verifies(form[u].signature, name[u], form[u].image, key[u])

(* The file of an upload that has opened it is there.                      *)
Opened == \A u \in Uploads : pc[u] \in {"writing", "add"} => blob[form[u].image] # "absent"

PartialIsTorn ==
    \A i \in Images :
        blob[i] = "partial" => \E u \in Uploads : pc[u] \in {"writing", "torn"} /\ form[u].image = i

(* A refused insert is explained by a row of the table, and by its version *)
(* once no row has its binary.                                             *)
Explicable ==
    \A u \in Uploads :
        /\ pc[u] = "reread" => Clashes(Row(form[u], name[u]))
        /\ pc[u] = "reread version" => HasVersion(Row(form[u], name[u]))

IInv ==
    /\ TypeOK /\ UniqueOnBothAxes
    /\ KeysHeld /\ Checked /\ RowsVerified
    /\ Opened /\ RowsHaveBlob /\ PartialIsTorn
    /\ Explicable /\ ConflictsExplained

-----------------------------------------------------------------------------
(* A row made of a form and a name has the fields of a row.                *)
LEMMA RowIsRow ==
    ASSUME NEW f \in Forms, NEW n \in Names
    PROVE  Row(f, n) \in Rows
BY PublishingAssumption DEF Row, Rows, Names

(* Appending to the table leaves the rows it has where they are.           *)
LEMMA Appended ==
    ASSUME NEW table \in Seq(Rows), NEW r \in Rows
    PROVE  /\ Append(table, r) \in Seq(Rows)
           /\ DOMAIN Append(table, r) = DOMAIN table \cup {Len(table) + 1}
           /\ \A i \in DOMAIN table : Append(table, r)[i] = table[i]
           /\ Append(table, r)[Len(table) + 1] = r
<1>1. Append(table, r) \in Seq(Rows) /\ Len(Append(table, r)) = Len(table) + 1
  BY AppendProperties
<1>2. DOMAIN table = 1 .. Len(table) /\ DOMAIN Append(table, r) = 1 .. Len(table) + 1
  BY <1>1, LenProperties
<1>3. Len(table) \in Nat
  BY LenProperties
<1>4. 1 .. Len(table) + 1 = (1 .. Len(table)) \cup {Len(table) + 1}
  BY <1>3
<1>5. /\ \A i \in 1 .. Len(table) : Append(table, r)[i] = table[i]
      /\ Append(table, r)[Len(table) + 1] = r
  BY <1>3, AppendProperties
<1> QED
  BY <1>1, <1>2, <1>4, <1>5

(* The only steps that touch the table, and how.                           *)
LEMMA TableChanges ==
    ASSUME [Next]_vars
    PROVE  \/ firmware' = firmware
           \/ \E u \in Uploads : Add(u)
           \/ \E owner \in Owners, id \in DOMAIN firmware : Deactivate(owner, id)
BY DEF Next, vars, shared, Upload, Receive, Refuse, RefuseDuplicate, RefuseSignature, Accept,
       OpenFile, WriteFile, AddRejected, Reread, RereadVersion, Fail, ServerStops, SetPublicKey

(* The table only grows, and a row keeps all but its active flag.          *)
LEMMA TableGrows ==
    ASSUME TypeOK, Checked, [Next]_vars
    PROVE  /\ firmware' \in Seq(Rows)
           /\ DOMAIN firmware \subseteq DOMAIN firmware'
           /\ \A i \in DOMAIN firmware :
                 firmware'[i] = [firmware[i] EXCEPT !.active = firmware'[i].active]
<1>0. firmware \in Seq(Rows)
  BY DEF TypeOK
<1>1. \A i \in DOMAIN firmware : firmware[i] \in Rows
  BY <1>0, ElementOfSeq, LenProperties
<1>2. CASE firmware' = firmware
  BY <1>0, <1>1, <1>2 DEF Rows
<1>3. ASSUME NEW u \in Uploads, Add(u) PROVE firmware' \in Seq(Rows)
             /\ DOMAIN firmware \subseteq DOMAIN firmware'
             /\ \A i \in DOMAIN firmware : firmware'[i] = firmware[i]
  <2>1. Row(form[u], name[u]) \in Rows
    BY <1>3, RowIsRow DEF Add, TypeOK, Checked, AfterSettled
  <2> QED
    BY <1>0, <1>3, <2>1, Appended DEF Add
<1>4. ASSUME NEW owner \in Owners, NEW id \in DOMAIN firmware, Deactivate(owner, id)
      PROVE  /\ firmware' \in Seq(Rows)
             /\ DOMAIN firmware' = DOMAIN firmware
             /\ \A i \in DOMAIN firmware :
                   firmware'[i] = [firmware[i] EXCEPT !.active = firmware'[i].active]
  <2>1. [firmware[id] EXCEPT !.active = FALSE] \in Rows
    BY <1>1 DEF Rows
  <2>2. firmware' = [firmware EXCEPT ![id] = [firmware[id] EXCEPT !.active = FALSE]]
    BY <1>4 DEF Deactivate, Withdraw
  <2>3. firmware' \in Seq(Rows)
    BY <1>0, <2>1, <2>2, ExceptSeq, LenProperties
  <2>4. \A i \in DOMAIN firmware :
           firmware'[i] = IF i = id THEN [firmware[i] EXCEPT !.active = FALSE] ELSE firmware[i]
    BY <2>2
  <2> QED
    BY <1>1, <2>2, <2>3, <2>4 DEF Rows
<1> QED
  BY <1>1, <1>2, <1>3, <1>4, TableChanges DEF Rows

(* So a row that a query found is still found later.                       *)
LEMMA StillFound ==
    ASSUME TypeOK, Checked, [Next]_vars, NEW r
    PROVE  /\ HasBinary(r) => HasBinary(r)'
           /\ HasVersion(r) => HasVersion(r)'
           /\ Clashes(r) => Clashes(r)'
<1>1. firmware \in Seq(Rows) /\ \A i \in DOMAIN firmware : firmware[i] \in Rows
  BY ElementOfSeq, LenProperties DEF TypeOK
<1>2. \A i \in DOMAIN firmware :
         /\ i \in DOMAIN firmware'
         /\ SameBinary(firmware[i], r) => SameBinary(firmware'[i], r)
         /\ SameVersion(firmware[i], r) => SameVersion(firmware'[i], r)
  BY <1>1, TableGrows DEF SameBinary, SameVersion, Rows
<1> QED
  BY <1>2 DEF HasBinary, HasVersion, Clashes

-----------------------------------------------------------------------------
THEOREM InitEstablishes == Init => IInv
<1> SUFFICES ASSUME Init PROVE IInv
  OBVIOUS
<1>1. TypeOK
  <2>1. (CHOOSE f \in Forms : TRUE) \in Forms
    BY PublishingAssumption
  <2>2. firmware \in Seq(Rows)
    BY EmptySeq DEF Init, CatalogueInit
  <2> QED
    BY <2>1, <2>2 DEF Init, TypeOK
<1>2. DOMAIN firmware = {}
  BY DEF Init, CatalogueInit
<1> QED
  BY <1>1, <1>2 DEF Init, CatalogueInit, IInv, UniqueOnBothAxes, KeysHeld, Checked, AfterSettled, Accepted,
     RowsVerified, Opened, RowsHaveBlob, PartialIsTorn, Explicable, ConflictsExplained

(* What an upload's steps leave alone: the other uploads, and where its    *)
(* own form, key and name may change.                                      *)
LEMMA FormFixed ==
    ASSUME TypeOK, [Next]_vars, NEW u \in Uploads, pc[u] # "idle"
    PROVE  form'[u] = form[u] /\ key'[u] = key[u] /\ pc'[u] # "idle"
<1>1. ASSUME NEW v \in Uploads, Receive(v) PROVE form'[u] = form[u] /\ key'[u] = key[u] /\ pc'[u] # "idle"
  BY <1>1 DEF Receive, Goto, TypeOK
<1>2. ASSUME NEW v \in Uploads, Upload(v), ~Receive(v)
      PROVE  form'[u] = form[u] /\ key'[u] = key[u] /\ pc'[u] # "idle"
  BY <1>2 DEF Upload, Refuse, RefuseDuplicate, RefuseSignature, Accept, Goto, TypeOK,
     OpenFile, WriteFile, Add, AddRejected, Reread, RereadVersion, Fail, Broken
<1>3. CASE ServerStops
  BY <1>3 DEF ServerStops, Broken, TypeOK
<1>4. CASE UNCHANGED <<form, key, pc>>
  BY <1>4
<1> QED
  BY <1>1, <1>2, <1>3, <1>4 DEF Next, Deactivate, SetPublicKey, vars, local

LEMMA TypeStep == TypeOK /\ Checked /\ [Next]_vars => TypeOK'
<1> SUFFICES ASSUME TypeOK, Checked, [Next]_vars PROVE TypeOK'
  OBVIOUS
<1>0. firmware' \in Seq(Rows)
  BY TableGrows
<1>1. ASSUME NEW u \in Uploads, Receive(u) PROVE TypeOK'
  <2>1. PICK f \in Forms : /\ form' = [form EXCEPT ![u] = f]
                           /\ key' = [key EXCEPT ![u] = publicKey[f.owner]]
    BY <1>1 DEF Receive
  <2>2. f.owner \in Owners
    BY PublishingAssumption
  <2>3. publicKey[f.owner] \in Keys \cup {NoKey}
    BY <2>2 DEF TypeOK
  <2> QED
    BY <1>0, <1>1, <2>1, <2>3 DEF Receive, Goto, TypeOK, shared, Places
<1>2. ASSUME NEW u \in Uploads, NEW n \in Names, Settled(u, n),
             NEW p \in {"same binary", "refused", "store"}, Goto(u, p),
             UNCHANGED <<shared, form, key>>
      PROVE  TypeOK'
  <2>1. name' \in [Uploads -> Names \cup {NoTag}]
    BY <1>2 DEF Settled, TypeOK
  <2>2. pc' \in [Uploads -> {"idle", "failed", "torn"} \cup Places \cup Answers]
    BY <1>2 DEF Goto, TypeOK, Places, Answers
  <2> QED
    BY <1>0, <1>2, <2>1, <2>2 DEF TypeOK, shared
<1>3. ASSUME NEW u \in Uploads, RefuseDuplicate(u) \/ RefuseSignature(u) \/ Accept(u) PROVE TypeOK'
  BY <1>2, <1>3 DEF RefuseDuplicate, RefuseSignature, Accept
<1>4. ASSUME NEW u \in Uploads, OpenFile(u) \/ WriteFile(u) PROVE TypeOK'
  BY <1>0, <1>4 DEF OpenFile, WriteFile, Goto, TypeOK, Places
<1>5. ASSUME NEW u \in Uploads, Refuse(u) \/ Add(u) \/ AddRejected(u) \/ Reread(u)
             \/ RereadVersion(u) \/ Fail(u)
      PROVE  TypeOK'
  BY <1>0, <1>5 DEF Refuse, Add, AddRejected, Reread, RereadVersion, Fail, Broken, Goto, TypeOK,
     shared, Places, Answers
<1>6. CASE ServerStops
  BY <1>0, <1>6 DEF ServerStops, Broken, TypeOK, shared, Places, Answers
<1>7. ASSUME NEW owner \in Owners, NEW k \in Keys, SetPublicKey(owner, k) PROVE TypeOK'
  BY <1>0, <1>7 DEF SetPublicKey, TypeOK, local
<1>8. ASSUME NEW owner \in Owners, NEW id \in DOMAIN firmware, Deactivate(owner, id) PROVE TypeOK'
  BY <1>0, <1>8 DEF Deactivate, TypeOK, local
<1>9. CASE UNCHANGED vars
  BY <1>0, <1>9 DEF vars, shared, local, TypeOK
<1> QED
  BY <1>1, <1>3, <1>4, <1>5, <1>6, <1>7, <1>8, <1>9 DEF Next, Upload

(* The index is what keeps the axes unique: the step that appends a row    *)
(* looks at the whole table, whatever the upload read before it.           *)
LEMMA UniqueStep == TypeOK /\ Checked /\ UniqueOnBothAxes /\ [Next]_vars => UniqueOnBothAxes'
<1> SUFFICES ASSUME TypeOK, Checked, UniqueOnBothAxes, [Next]_vars PROVE UniqueOnBothAxes'
  OBVIOUS
<1>0. firmware \in Seq(Rows) /\ \A i \in DOMAIN firmware : firmware[i] \in Rows
  BY ElementOfSeq, LenProperties DEF TypeOK
<1>1. CASE firmware' = firmware
  BY <1>1 DEF UniqueOnBothAxes, SameBinary, SameVersion
<1>2. ASSUME NEW u \in Uploads, Add(u) PROVE UniqueOnBothAxes'
  <2> DEFINE r == Row(form[u], name[u])
  <2>1. r \in Rows /\ firmware' = Append(firmware, r)
    BY <1>2, RowIsRow DEF Add, TypeOK, Checked, AfterSettled
  <2>2. \A i \in DOMAIN firmware : ~SameBinary(firmware[i], r) /\ ~SameVersion(firmware[i], r)
    BY <1>2 DEF Add, Clashes
  <2>3. \A i \in DOMAIN firmware : ~SameBinary(r, firmware[i]) /\ ~SameVersion(r, firmware[i])
    BY <2>2 DEF SameBinary, SameVersion
  <2>4. /\ DOMAIN firmware' = DOMAIN firmware \cup {Len(firmware) + 1}
        /\ \A i \in DOMAIN firmware : firmware'[i] = firmware[i]
        /\ firmware'[Len(firmware) + 1] = r
    BY <1>0, <2>1, Appended
  <2> HIDE DEF r
  <2> QED
    BY <2>2, <2>3, <2>4 DEF UniqueOnBothAxes, SameBinary, SameVersion
<1>3. ASSUME NEW owner \in Owners, NEW id \in DOMAIN firmware, Deactivate(owner, id)
      PROVE  UniqueOnBothAxes'
  <2>1. DOMAIN firmware' = DOMAIN firmware
    BY <1>3 DEF Deactivate, Withdraw
  <2>2. \A i \in DOMAIN firmware : /\ firmware'[i].owner = firmware[i].owner
                                   /\ firmware'[i].model = firmware[i].model
                                   /\ firmware'[i].version = firmware[i].version
                                   /\ firmware'[i].image = firmware[i].image
    BY <1>0, TableGrows DEF Rows
  <2> QED
    BY <2>1, <2>2 DEF UniqueOnBothAxes, SameBinary, SameVersion
<1> QED
  BY <1>1, <1>2, <1>3, TableChanges

(* Where a step that moves an upload along takes it from.                  *)
LEMMA Moves ==
    ASSUME TypeOK, [Next]_vars, NEW u \in Uploads
    PROVE  /\ pc'[u] = "store" => pc[u] = "store" \/ Accept(u)
           /\ pc'[u] = "writing" => pc[u] = "writing" \/ OpenFile(u)
           /\ pc'[u] = "torn" => pc[u] \in {"torn", "writing"}
           /\ pc'[u] = "add" => pc[u] = "add" \/ WriteFile(u)
           /\ pc'[u] = "stored" => pc[u] = "stored" \/ Add(u)
           /\ pc'[u] = "reread" => pc[u] = "reread" \/ AddRejected(u)
           /\ pc'[u] = "reread version" => pc[u] = "reread version" \/ Reread(u)
           /\ pc'[u] = "same binary" => pc[u] = "same binary" \/ RefuseDuplicate(u) \/ Reread(u)
           /\ pc'[u] = "same version" => pc[u] = "same version" \/ RereadVersion(u)
           /\ pc'[u] = "unexplained" => pc[u] = "unexplained" \/ RereadVersion(u)
           /\ pc[u] = "writing" => pc'[u] \in {"writing", "torn"} \/ WriteFile(u)
           /\ pc[u] = "torn" => pc'[u] = "torn"
<1> USE DEF TypeOK
<1>1. ASSUME NEW v \in Uploads, Receive(v) \/ Refuse(v) \/ RefuseDuplicate(v) \/ RefuseSignature(v)
             \/ Accept(v)
      PROVE  /\ pc'[u] # pc[u] => u = v
             /\ pc[v] \in {"idle", "received"}
             /\ pc'[v] \in {"received", "refused", "same binary", "store"}
             /\ pc'[v] = "store" => Accept(v)
             /\ pc'[v] = "same binary" => RefuseDuplicate(v)
  BY <1>1 DEF Receive, Refuse, RefuseDuplicate, RefuseSignature, Accept, Settled, Goto
<1>2. ASSUME NEW v \in Uploads, OpenFile(v) \/ WriteFile(v) \/ Add(v) \/ AddRejected(v)
      PROVE  /\ pc'[u] # pc[u] => u = v
             /\ pc[v] \in {"store", "writing", "add"} /\ (pc[v] = "writing" => WriteFile(v))
             /\ pc'[v] \in {"writing", "add", "stored", "reread"}
             /\ pc'[v] = "writing" => OpenFile(v)
             /\ pc'[v] = "add" => WriteFile(v)
             /\ pc'[v] = "stored" => Add(v)
             /\ pc'[v] = "reread" => AddRejected(v)
  BY <1>2 DEF OpenFile, WriteFile, Add, AddRejected, Goto
<1>3. ASSUME NEW v \in Uploads, Reread(v) \/ RereadVersion(v)
      PROVE  /\ pc'[u] # pc[u] => u = v
             /\ pc[v] \in {"reread", "reread version"}
             /\ pc'[v] \in {"same binary", "reread version", "same version", "unexplained"}
             /\ pc'[v] \in {"same binary", "reread version"} => Reread(v)
             /\ pc'[v] \in {"same version", "unexplained"} => RereadVersion(v)
  BY <1>3 DEF Reread, RereadVersion, Goto
<1>4. ASSUME NEW v \in Uploads, Fail(v)
      PROVE  /\ pc'[u] # pc[u] => u = v
             /\ pc[v] \in Places /\ pc'[v] = Broken(pc[v])
  BY <1>4 DEF Fail, Goto, Broken, Places, Answers
<1>5. CASE ServerStops
  <2>1. pc'[u] = IF pc[u] \in Places THEN Broken(pc[u]) ELSE pc[u]
    BY <1>5 DEF ServerStops
  <2> QED
    BY <2>1 DEF Broken, Places
<1>6. CASE pc' = pc
  BY <1>6
<1> QED
  BY <1>1, <1>2, <1>3, <1>4, <1>5, <1>6
  DEF Next, Upload, Deactivate, SetPublicKey, vars, local, Broken, Places

(* A settled name stays what it is.                                        *)
LEMMA NameFixed ==
    ASSUME TypeOK, [Next]_vars, NEW u \in Uploads, pc[u] \notin {"idle", "received"}
    PROVE  name'[u] = name[u]
<1>1. ASSUME NEW v \in Uploads, NEW n, Settled(v, n) PROVE name'[u] = name[u]
  BY <1>1 DEF Settled, TypeOK
<1>2. ASSUME NEW v \in Uploads, Upload(v), ~\E n : Settled(v, n) PROVE name'[u] = name[u]
  BY <1>2 DEF Upload, Receive, Refuse, RefuseDuplicate, RefuseSignature, Accept,
     OpenFile, WriteFile, Add, AddRejected, Reread, RereadVersion, Fail
<1> QED
  BY <1>1, <1>2 DEF Next, ServerStops, Deactivate, SetPublicKey, vars, local

LEMMA KeysStep == TypeOK /\ KeysHeld /\ [Next]_vars => KeysHeld'
<1> SUFFICES ASSUME TypeOK, KeysHeld, [Next]_vars PROVE KeysHeld'
  OBVIOUS
<1>0. \A f \in Forms : f.owner \in Owners
  BY PublishingAssumption
<1>1. ASSUME NEW owner \in Owners, NEW k \in Keys, SetPublicKey(owner, k)
      PROVE  /\ KeysHeld'
             /\ \A o \in Owners : held[o] \subseteq held'[o]
  BY <1>0, <1>1 DEF SetPublicKey, KeysHeld, TypeOK, local
<1>2. CASE UNCHANGED <<publicKey, held>>
  <2>1. ASSUME NEW u \in Uploads, Receive(u) PROVE KeysHeld'
    <3>1. PICK f \in Forms : form' = [form EXCEPT ![u] = f] /\ key' = [key EXCEPT ![u] = publicKey[f.owner]]
      BY <2>1 DEF Receive
    <3>2. publicKey[f.owner] # NoKey => publicKey[f.owner] \in held[f.owner]
      BY <1>0 DEF KeysHeld
    <3>3. form'[u] = f /\ key'[u] = publicKey[f.owner]
      BY <3>1 DEF TypeOK
    <3>4. \A v \in Uploads \ {u} : form'[v] = form[v] /\ key'[v] = key[v] /\ pc'[v] = pc[v]
      BY <2>1, <3>1 DEF Receive, Goto, TypeOK
    <3> QED
      BY <1>2, <3>2, <3>3, <3>4 DEF KeysHeld
  <2>2. CASE \A u \in Uploads : pc'[u] # "idle" => pc[u] # "idle"
    <3>1. ASSUME NEW u \in Uploads, pc'[u] # "idle" PROVE form'[u] = form[u] /\ key'[u] = key[u]
      BY <2>2, <3>1, FormFixed
    <3> QED
      BY <1>2, <2>2, <3>1 DEF KeysHeld
  <2>3. ASSUME ~\E u \in Uploads : Receive(u), NEW u \in Uploads, pc[u] = "idle" PROVE pc'[u] = "idle"
    BY <2>3 DEF TypeOK, Next, Upload, Refuse, RefuseDuplicate, RefuseSignature, Accept, Settled, OpenFile,
       WriteFile, Add, AddRejected, Reread, RereadVersion, Fail, ServerStops, Places,
       Goto, Deactivate, SetPublicKey, vars, local
  <2> QED
    BY <2>1, <2>2, <2>3
<1> QED
  BY <1>1, <1>2 DEF Next, vars, shared, Upload, Receive, Refuse, RefuseDuplicate, RefuseSignature,
     Accept, OpenFile, WriteFile, Add, AddRejected, Reread, RereadVersion, Fail, ServerStops, Deactivate

LEMMA CheckedStep == TypeOK /\ Checked /\ [Next]_vars => Checked'
<1> SUFFICES ASSUME TypeOK, Checked, [Next]_vars, NEW u \in Uploads
             PROVE  /\ pc'[u] \in AfterSettled => name'[u] \in Names
                    /\ pc'[u] \in Accepted =>
                          /\ name'[u] \in Identify(form'[u]) \cap Publishable
                          /\ Verifies(form'[u].signature, name'[u], form'[u].image, key'[u])
  BY DEF Checked, Verifies, Identify
<1>1. CASE pc[u] \in AfterSettled
  <2>1. name'[u] = name[u] /\ form'[u] = form[u] /\ key'[u] = key[u]
    BY <1>1, NameFixed, FormFixed DEF AfterSettled
  <2>2. pc'[u] \in Accepted => pc[u] \in Accepted
    BY <1>1, Moves DEF Accepted, AfterSettled, Accept, Settled, OpenFile, WriteFile
  <2> QED
    BY <1>1, <2>1, <2>2 DEF Checked
<1>2. ASSUME NEW n \in Names, Settled(u, n) PROVE name'[u] = n /\ n \in Identify(form[u]) \cap Publishable
  BY <1>2 DEF Settled, TypeOK
<1>3. CASE Accept(u)
  <2>1. pc[u] = "received"
    BY <1>3 DEF Accept, Settled
  <2>2. form'[u] = form[u] /\ key'[u] = key[u]
    BY <2>1, FormFixed
  <2>3. PICK n \in Names : Settled(u, n) /\ Verifies(form[u].signature, n, form[u].image, key[u])
    BY <1>3 DEF Accept
  <2> QED
    BY <1>2, <2>2, <2>3
<1>4. CASE RefuseDuplicate(u)
  <2>1. name'[u] \in Names
    BY <1>2, <1>4 DEF RefuseDuplicate
  <2>2. pc'[u] = "same binary"
    BY <1>4 DEF RefuseDuplicate, Goto, TypeOK
  <2> QED
    BY <2>1, <2>2 DEF Accepted
<1>5. CASE pc[u] \notin AfterSettled /\ ~Accept(u) /\ ~RefuseDuplicate(u)
  <2>1. pc'[u] \notin AfterSettled
    BY <1>5, Moves DEF AfterSettled, OpenFile, WriteFile, Add, AddRejected, Reread, RereadVersion
  <2> QED
    BY <2>1 DEF Accepted, AfterSettled
<1> QED
  BY <1>1, <1>3, <1>4, <1>5

(* A row is what its owner signed because the commit stores exactly what   *)
(* was verified, and keys that an account has had are never forgotten.     *)
LEMMA VerifiedStep ==
    TypeOK /\ KeysHeld /\ Checked /\ RowsVerified /\ [Next]_vars => RowsVerified'
<1> SUFFICES ASSUME TypeOK, KeysHeld, Checked, RowsVerified, [Next]_vars PROVE RowsVerified'
  OBVIOUS
<1> DEFINE Fine(r, h) == /\ Covers[r.signature] = <<r.model, r.version, r.image>>
                         /\ SignedBy[r.signature] \in h[r.owner]
                         /\ Tag[r.image] \in {NoTag, <<r.model, r.version>>}
<1>0. firmware \in Seq(Rows) /\ \A i \in DOMAIN firmware : firmware[i] \in Rows
  BY ElementOfSeq, LenProperties DEF TypeOK
<1>1. \A o \in Owners : held[o] \subseteq held'[o]
  BY DEF Next, vars, shared, Upload, Receive, Refuse, RefuseDuplicate, RefuseSignature,
     Accept, OpenFile, WriteFile, Add, AddRejected, Reread, RereadVersion, Fail, ServerStops,
     Deactivate, SetPublicKey, TypeOK
<1>2. \A i \in DOMAIN firmware : Fine(firmware'[i], held')
  <2> SUFFICES ASSUME NEW i \in DOMAIN firmware PROVE Fine(firmware'[i], held')
    OBVIOUS
  <2>1. /\ firmware'[i].owner = firmware[i].owner /\ firmware'[i].model = firmware[i].model
        /\ firmware'[i].version = firmware[i].version /\ firmware'[i].image = firmware[i].image
        /\ firmware'[i].signature = firmware[i].signature
    BY <1>0, TableGrows DEF Rows
  <2>2. firmware[i].owner \in Owners
    BY <1>0 DEF Rows
  <2> QED
    BY <1>1, <2>1, <2>2 DEF RowsVerified
<1>3. ASSUME NEW u \in Uploads, Add(u) PROVE Fine(Row(form[u], name[u]), held')
  <2>1. /\ name[u] \in Names /\ name[u] \in Identify(form[u])
        /\ Verifies(form[u].signature, name[u], form[u].image, key[u])
    BY <1>3 DEF Add, Checked, AfterSettled, Accepted
  <2>2. name[u] = <<name[u][1], name[u][2]>>
    BY <2>1 DEF Names
  <2>3. key[u] \in held[form[u].owner] /\ held' = held
    BY <1>3, <2>1 DEF Add, Verifies, KeysHeld
  <2>4. Tag[form[u].image] \in {NoTag, name[u]}
    BY <2>1 DEF Identify
  <2> QED
    BY <2>1, <2>2, <2>3, <2>4 DEF Row, Verifies
<1>4. ASSUME NEW u \in Uploads, Add(u) PROVE RowsVerified'
  <2>1. Row(form[u], name[u]) \in Rows
    BY <1>4, RowIsRow DEF Add, TypeOK, Checked, AfterSettled
  <2>2. /\ DOMAIN firmware' = DOMAIN firmware \cup {Len(firmware) + 1}
        /\ firmware'[Len(firmware) + 1] = Row(form[u], name[u])
    BY <1>0, <1>4, <2>1, Appended DEF Add
  <2> QED
    BY <1>2, <1>3, <1>4, <2>2 DEF RowsVerified
<1>5. CASE DOMAIN firmware' = DOMAIN firmware
  BY <1>2, <1>5 DEF RowsVerified
<1> QED
  BY <1>4, <1>5, TableChanges DEF Deactivate, Withdraw

(* Files are opened and written, never removed.                            *)
LEMMA FileChanges ==
    ASSUME TypeOK, [Next]_vars
    PROVE  \/ blob' = blob
           \/ \E u \in Uploads : OpenFile(u) /\ blob' = [blob EXCEPT ![form[u].image] = "partial"]
           \/ \E u \in Uploads : WriteFile(u) /\ blob' = [blob EXCEPT ![form[u].image] = "whole"]
BY DEF Next, vars, shared, Upload, Receive, Refuse, RefuseDuplicate, RefuseSignature, Accept, OpenFile,
       WriteFile, Add, AddRejected, Reread, RereadVersion, Fail, ServerStops, Deactivate, SetPublicKey

LEMMA FileStays ==
    ASSUME TypeOK, [Next]_vars, NEW i \in Images, blob[i] # "absent"
    PROVE  blob'[i] # "absent"
BY FileChanges DEF TypeOK

LEMMA ImageOfForm == \A f \in Forms : f.image \in Images
BY PublishingAssumption

LEMMA OpenedStep == TypeOK /\ Opened /\ [Next]_vars => Opened'
<1> SUFFICES ASSUME TypeOK, Opened, [Next]_vars, NEW u \in Uploads, pc'[u] \in {"writing", "add"}
             PROVE  blob'[form'[u].image] # "absent"
  BY DEF Opened
<1>1. form[u].image \in Images
  BY ImageOfForm DEF TypeOK
<1>2. CASE pc[u] \in {"writing", "add"}
  <2>1. form'[u] = form[u]
    BY <1>2, FormFixed
  <2> QED
    BY <1>1, <1>2, <2>1, FileStays DEF Opened
<1>3. CASE OpenFile(u) \/ WriteFile(u)
  BY <1>1, <1>3 DEF OpenFile, WriteFile, TypeOK
<1> QED
  BY <1>2, <1>3, Moves

(* The file comes before the row, and is never taken back.                 *)
LEMMA RowsHaveBlobStep ==
    TypeOK /\ Checked /\ Opened /\ RowsHaveBlob /\ [Next]_vars => RowsHaveBlob'
<1> SUFFICES ASSUME TypeOK, Checked, Opened, RowsHaveBlob, [Next]_vars PROVE RowsHaveBlob'
  OBVIOUS
<1>0. firmware \in Seq(Rows) /\ \A i \in DOMAIN firmware : firmware[i] \in Rows
  BY ElementOfSeq, LenProperties DEF TypeOK
<1>1. \A i \in DOMAIN firmware : blob'[firmware'[i].image] # "absent"
  <2> SUFFICES ASSUME NEW i \in DOMAIN firmware PROVE blob'[firmware'[i].image] # "absent"
    OBVIOUS
  <2>1. firmware[i].image \in Images /\ firmware'[i].image = firmware[i].image
    BY <1>0, TableGrows DEF Rows
  <2> QED
    BY <2>1, FileStays DEF RowsHaveBlob
<1>2. ASSUME NEW u \in Uploads, Add(u) PROVE RowsHaveBlob'
  <2>1. Row(form[u], name[u]) \in Rows
    BY <1>2, RowIsRow DEF Add, TypeOK, Checked, AfterSettled
  <2>2. /\ DOMAIN firmware' = DOMAIN firmware \cup {Len(firmware) + 1}
        /\ firmware'[Len(firmware) + 1] = Row(form[u], name[u])
    BY <1>0, <1>2, <2>1, Appended DEF Add
  <2>3. blob[form[u].image] # "absent" /\ blob' = blob
    BY <1>2 DEF Add, Opened
  <2> QED
    BY <1>1, <2>2, <2>3 DEF RowsHaveBlob, Row
<1>3. CASE DOMAIN firmware' = DOMAIN firmware
  BY <1>1, <1>3 DEF RowsHaveBlob
<1> QED
  BY <1>2, <1>3, TableChanges DEF Deactivate, Withdraw

LEMMA TornStep == TypeOK /\ PartialIsTorn /\ [Next]_vars => PartialIsTorn'
<1> SUFFICES ASSUME TypeOK, PartialIsTorn, [Next]_vars, NEW i \in Images, blob'[i] = "partial"
             PROVE  \E u \in Uploads : pc'[u] \in {"writing", "torn"} /\ form'[u].image = i
  BY DEF PartialIsTorn
<1>1. ASSUME NEW v \in Uploads, OpenFile(v), form[v].image = i
      PROVE  \E u \in Uploads : pc'[u] \in {"writing", "torn"} /\ form'[u].image = i
  BY <1>1 DEF OpenFile, Goto, TypeOK
<1>2. CASE blob[i] = "partial"
  <2>1. PICK u \in Uploads : pc[u] \in {"writing", "torn"} /\ form[u].image = i
    BY <1>2 DEF PartialIsTorn
  <2>2. ~WriteFile(u)
    BY <2>1 DEF WriteFile, TypeOK
  <2>3. pc'[u] \in {"writing", "torn"} /\ form'[u] = form[u]
    BY <2>1, <2>2, Moves, FormFixed
  <2> QED
    BY <2>1, <2>3
<1> QED
  BY <1>1, <1>2, FileChanges, ImageOfForm DEF TypeOK

(* A refusal of the indexes stays true: no row is deleted.  So the second  *)
(* query, made when the first found no row with the binary, finds one with *)
(* the version.                                                            *)
LEMMA ExplicableStep ==
    TypeOK /\ Checked /\ Explicable /\ ConflictsExplained /\ [Next]_vars
        => Explicable' /\ ConflictsExplained'
<1> SUFFICES ASSUME TypeOK, Checked, Explicable, ConflictsExplained, [Next]_vars, NEW u \in Uploads
             PROVE  /\ pc'[u] = "reread" => Clashes(Row(form[u], name[u]))'
                    /\ pc'[u] = "reread version" => HasVersion(Row(form[u], name[u]))'
                    /\ pc'[u] = "same binary" => HasBinary(Row(form[u], name[u]))'
                    /\ pc'[u] = "same version" => HasVersion(Row(form[u], name[u]))'
                    /\ pc'[u] # "unexplained"
  BY DEF Explicable, ConflictsExplained
<1> DEFINE r == Row(form[u], name[u])
<1>1. CASE pc[u] \in {"add", "reread", "reread version", "same binary", "same version", "unexplained"}
  <2>1. form'[u] = form[u] /\ name'[u] = name[u]
    BY <1>1, NameFixed, FormFixed
  <2>2. r' = r
    BY <2>1 DEF Row
  <2>3. /\ pc'[u] = "reread" => pc[u] = "reread" \/ AddRejected(u)
        /\ pc'[u] = "reread version" => pc[u] = "reread version" \/ Reread(u)
        /\ pc'[u] = "same binary" => pc[u] = "same binary" \/ Reread(u)
        /\ pc'[u] = "same version" => pc[u] = "same version" \/ RereadVersion(u)
        /\ pc'[u] = "unexplained" => pc[u] = "unexplained" \/ RereadVersion(u)
    BY <1>1, Moves DEF RefuseDuplicate, Settled
  <2>4. AddRejected(u) => Clashes(r)
    BY DEF AddRejected
  <2>5. pc[u] = "reread" => Clashes(r)
    BY DEF Explicable
  <2>6. Clashes(r) => HasBinary(r) \/ HasVersion(r)
    BY DEF Clashes, HasBinary, HasVersion
  <2>7. Reread(u) => IF HasBinary(r) THEN pc'[u] = "same binary" ELSE pc'[u] = "reread version" /\ HasVersion(r)
    BY <2>5, <2>6 DEF Reread, Goto, TypeOK
  <2>8. RereadVersion(u) => pc'[u] = "same version" /\ HasVersion(r)
    BY DEF RereadVersion, Goto, TypeOK, Explicable
  <2>9. /\ pc'[u] = "reread" => Clashes(r)
        /\ pc'[u] = "reread version" => HasVersion(r)
        /\ pc'[u] = "same binary" => HasBinary(r)
        /\ pc'[u] = "same version" => HasVersion(r)
        /\ pc'[u] # "unexplained"
    BY <2>3, <2>4, <2>5, <2>7, <2>8 DEF Explicable, ConflictsExplained
  <2> HIDE DEF r
  <2>10. /\ HasBinary(r) => HasBinary(r)'
         /\ HasVersion(r) => HasVersion(r)'
         /\ Clashes(r) => Clashes(r)'
    <3>1. ASSUME NEW s, s = r
          PROVE  /\ HasBinary(s) => HasBinary(s)'
                 /\ HasVersion(s) => HasVersion(s)'
                 /\ Clashes(s) => Clashes(s)'
      BY StillFound
    <3> QED
      BY <2>2, <3>1 DEF HasBinary, HasVersion, Clashes
  <2> QED
    BY <2>9, <2>10 DEF r
<1>2. CASE RefuseDuplicate(u)
  <2>1. PICK n \in Names : Settled(u, n) /\ HasBinary(Row(form[u], n))
    BY <1>2 DEF RefuseDuplicate
  <2>2. form' = form /\ name'[u] = n /\ firmware' = firmware /\ pc'[u] = "same binary"
    BY <1>2, <2>1 DEF RefuseDuplicate, Settled, Goto, TypeOK, shared
  <2> QED
    BY <2>1, <2>2 DEF HasBinary, Row
<1> QED
  BY <1>1, <1>2, Moves DEF AddRejected, Reread, RereadVersion

-----------------------------------------------------------------------------
(* The inductive invariant holds in every reachable state.                 *)
THEOREM Invariance == Spec => []IInv
<1>1. IInv /\ [Next]_vars => IInv'
  BY TypeStep, UniqueStep, KeysStep, CheckedStep, VerifiedStep, OpenedStep, RowsHaveBlobStep,
     TornStep, ExplicableStep DEF IInv
<1> QED
  BY InitEstablishes, <1>1, PTL DEF Spec

(* Every variable stays in its type, a settled name included: nothing is   *)
(* published under a blank field of the form.                              *)
THEOREM TypeCorrect == Spec => []TypeOK
<1>1. IInv => TypeOK
  BY DEF IInv
<1> QED
  BY <1>1, Invariance, PTL

(* Both axes stay unique, for any number of concurrent uploads: the        *)
(* pre-check of UploadFirmware.execute plays no part in the proof, the     *)
(* unique indexes carry it.                                                *)
THEOREM IdentityIsUnique == Spec => []UniqueOnBothAxes
<1>1. IInv => UniqueOnBothAxes
  BY DEF IInv
<1> QED
  BY <1>1, Invariance, PTL

(* Every row has its file, wherever uploads break off.                     *)
THEOREM FileBeforeRow == Spec => []RowsHaveBlob
<1>1. IInv => RowsHaveBlob
  BY DEF IInv
<1> QED
  BY <1>1, Invariance, PTL

(* Every row carries its owner's signature over exactly that row.          *)
THEOREM RowsAreSigned == Spec => []RowsVerified
<1>1. IInv => RowsVerified
  BY DEF IInv
<1> QED
  BY <1>1, Invariance, PTL

(* A refused insert is always explained, by a row that is there.           *)
THEOREM ConflictsAreNamed == Spec => []ConflictsExplained
<1>1. IInv => ConflictsExplained
  BY DEF IInv
<1> QED
  BY <1>1, Invariance, PTL

(* An incomplete file of a row has an upload of the same bytes to blame.   *)
THEOREM TornHasACause == Spec => []TornOnlyByReupload
<1>1. IInv => TornOnlyByReupload
  <2> SUFFICES ASSUME IInv, NEW i \in DOMAIN firmware, blob[firmware[i].image] = "partial"
               PROVE  \E u \in Uploads : pc[u] \in {"writing", "torn"} /\ form[u].image = firmware[i].image
    BY DEF TornOnlyByReupload
  <2>1. firmware[i].image \in Images
    <3>1. firmware \in Seq(Rows)
      BY DEF IInv, TypeOK
    <3>2. firmware[i] \in Rows
      BY <3>1, ElementOfSeq, LenProperties
    <3> QED
      BY <3>2 DEF Rows
  <2> QED
    BY <2>1 DEF IInv, PartialIsTorn
<1> QED
  BY <1>1, Invariance, PTL

(* Publishing implements Catalogue: a commit is a Publish, a deactivation  *)
(* a Withdraw, and no other step touches the table.                        *)
THEOREM ImplementsCatalogue == Spec => KeepsCatalogue
<1>1. Init => CatalogueInit
  BY DEF Init
<1>2. IInv /\ [Next]_vars => [CatalogueNext]_firmware
  <2> SUFFICES ASSUME IInv, [Next]_vars, firmware' # firmware PROVE CatalogueNext
    OBVIOUS
  <2>1. ASSUME NEW u \in Uploads, Add(u) PROVE CatalogueNext
    <3> DEFINE r == Row(form[u], name[u])
    <3>1. r \in Releases
      BY <2>1, ReleasesAssumption DEF Add, IInv, TypeOK, Checked, Accepted
    <3>2. r.active = TRUE
      BY DEF Row
    <3>3. Publish(r)
      BY <2>1, <3>2 DEF Add, Clashes, Publish
    <3> QED
      BY <3>1, <3>3 DEF CatalogueNext
  <2>2. ASSUME NEW owner \in Owners, NEW id \in DOMAIN firmware, Deactivate(owner, id)
        PROVE  CatalogueNext
    BY <2>2 DEF Deactivate, CatalogueNext
  <2> QED
    BY <2>1, <2>2, TableChanges
<1> QED
  BY <1>1, <1>2, Invariance, PTL DEF Spec, KeepsCatalogue, CatalogueSpec
=============================================================================
