--------------------------- MODULE MigrationsProofs ---------------------------
(***************************************************************************)
(* What the migrations promise, for any number of rows, any labels and     *)
(* binaries, and any sequence of upgrades and downgrades: of the rows,     *)
(* torn or not; of the schema and of the upgrades' end, until one is torn. *)
(***************************************************************************)
EXTENDS Migrations, WellFoundedInduction, SequenceTheorems, TLAPS

-----------------------------------------------------------------------------
(* The operations.                                                         *)

(* A set of natural numbers has a least one.                               *)
LEMMA LeastNat ==
    ASSUME NEW T \in SUBSET Nat, T # {}
    PROVE  \E n \in T : \A m \in T : n <= m
  <1> DEFINE R == OpToRel(<, Nat)
  <1>1. IsWellFoundedOn(R, Nat)
    BY NatLessThanWellFounded
  <1>2. \A m, n \in Nat : <<m, n>> \in R <=> m < n
    BY DEF OpToRel
  <1> HIDE DEF R
  <1>3. PICK n \in T : \A m \in T : ~ (<<m, n>> \in R)
    BY <1>1, WFMin
  <1>4. n \in Nat /\ \A m \in T : m \in Nat /\ ~(m < n)
    BY <1>2, <1>3
  <1>5. \A m \in T : n <= m
    BY <1>4
  <1> QED BY <1>3, <1>5

LEMMA GreatestNat ==
    ASSUME NEW max \in Nat, NEW T \in SUBSET (0..max), T # {}
    PROVE  \E n \in T : \A m \in T : m <= n
  <1> DEFINE Rest == {max - m : m \in T}
  <1>1. \A m \in T : m \in Nat /\ max - m \in Nat
    OBVIOUS
  <1>2. Rest \in SUBSET Nat /\ Rest # {}
    BY <1>1
  <1>3. PICK k \in Rest : \A m \in Rest : k <= m
    BY <1>2, LeastNat
  <1>4. PICK n \in T : k = max - n
    BY <1>3
  <1>5. ASSUME NEW m \in T PROVE m <= n
    <2>1. max - n <= max - m
      BY <1>3, <1>4
    <2> QED BY <1>1, <2>1
  <1> QED BY <1>5

(* What a row is known by, and the columns that a later revision fills.    *)
Keys == {"id", "label", "model", "sha256"}

Filled == {<<"firmware", "size_bytes">>, <<"firmware", "download_id">>}

(* An operation that neither takes a row or its name away nor has to do    *)
(* with the columns that are filled.                                       *)
Mild(o) ==
    /\ o.do \in {"create", "drop"} => o.on[2] \notin Keys /\ o.on \notin Filled
    /\ o.do = "drop" => o.on # <<"firmware", "*">>

AllMild(ops) == \A i \in DOMAIN ops : Mild(ops[i])

LEMMA MildThings ==
    \A t, c : /\ c \notin Keys \cup {"*", "size_bytes", "download_id"} =>
                     Mild(Create(t, c)) /\ Mild(Drop(t, c))
              /\ t # "firmware" /\ c \notin Keys => Mild(Create(t, c)) /\ Mild(Drop(t, c))
              /\ c \notin Keys \cup {"size_bytes", "download_id"} => Mild(Create(t, c))
  BY DEF Mild, Create, Drop, Filled

LEMMA MildDo == \A what : what \notin {"create", "drop"} => Mild(Do(what))
  BY DEF Mild, Do

(* The names of a list of additions, or of their inverses.                 *)
MildNames(t, names) ==
    /\ AllMild(Adding(t, names)) /\ AllMild(Dropping(t, names))
    /\ AllMild(Reversible(Adding(t, names)).up)
    /\ AllMild(Reversible(Adding(t, names)).down)

LEMMA MildAdding ==
    ASSUME NEW t, NEW S, NEW names \in Seq(S),
           \A i \in DOMAIN names : Mild(Create(t, names[i])) /\ Mild(Drop(t, names[i]))
    PROVE  MildNames(t, names)
  <1>1. AllMild(Adding(t, names)) /\ AllMild(Dropping(t, names))
    BY DEF AllMild, Adding, Dropping
  <1>2. Reversible(Adding(t, names)).up = Adding(t, names)
    BY DEF Reversible
  <1>3. Len(names) \in Nat /\ DOMAIN names = 1..Len(names)
    BY LenProperties
  <1>4. DOMAIN Adding(t, names) = 1..Len(names) /\ Len(Adding(t, names)) = Len(names)
    BY <1>3 DEF Adding
  <1>5. ASSUME NEW i \in DOMAIN Reversible(Adding(t, names)).down
        PROVE  \E j \in DOMAIN names : Reversible(Adding(t, names)).down[i] = Drop(t, names[j])
    <2>1. /\ i \in 1..Len(names)
          /\ Reversible(Adding(t, names)).down[i] =
                [Adding(t, names)[Len(names) + 1 - i] EXCEPT !.do = "drop"]
      BY <1>4, <1>5 DEF Reversible
    <2>2. Len(names) + 1 - i \in DOMAIN names
      BY <1>3, <2>1
    <2>3. Adding(t, names)[Len(names) + 1 - i] = Create(t, names[Len(names) + 1 - i])
      BY <2>2 DEF Adding
    <2>4. \A c : [Create(t, c) EXCEPT !.do = "drop"] = Drop(t, c)
      BY DEF Create, Drop
    <2> QED BY <2>1, <2>2, <2>3, <2>4
  <1>6. AllMild(Reversible(Adding(t, names)).down)
    BY <1>5 DEF AllMild
  <1> QED BY <1>1, <1>2, <1>6 DEF MildNames

LEMMA MildJoin ==
    ASSUME NEW s, NEW u, NEW S, s \in Seq(S), u \in Seq(S), AllMild(s), AllMild(u)
    PROVE  AllMild(s \o u)
  <1>1. \A i \in DOMAIN (s \o u) : \/ i \in DOMAIN s /\ (s \o u)[i] = s[i]
                                   \/ i - Len(s) \in DOMAIN u /\ (s \o u)[i] = u[i - Len(s)]
    BY ConcatProperties, LenProperties
  <1> QED BY <1>1 DEF AllMild

LEMMA JoinAt ==
    ASSUME NEW S, NEW s \in Seq(S), NEW u \in Seq(S), NEW k \in 1..Len(u)
    PROVE  (s \o u)[Len(s) + k] = u[k]
  <1>1. Len(s) \in Nat /\ Len(u) \in Nat
    BY LenProperties
  <1>2. Len(s) + k \in 1..Len(s) + Len(u) /\ ~(Len(s) + k <= Len(s)) /\ Len(s) + k - Len(s) = k
    BY <1>1
  <1> QED BY <1>2, ConcatProperties

LEMMA TheRevisions ==
    /\ Newest = 14
    /\ Revisions[1] = Initial /\ Revisions[2] = Users /\ Revisions[3] = UniqueFirmware
    /\ Revisions[4] = OriginalFilename /\ Revisions[5] = DeviceCheckin
    /\ Revisions[6] = FirmwareSizeNotes /\ Revisions[7] = FirmwareActive
    /\ Revisions[8] = DeviceLastError /\ Revisions[9] = DeviceEvents
    /\ Revisions[10] = UniqueBinary /\ Revisions[11] = EmailIdentity
    /\ Revisions[12] = OwnerScoping /\ Revisions[13] = DeviceRegistration
    /\ Revisions[14] = AccountPublicKey
  BY DEF Revisions, Newest

(* The revisions that only add tables, columns or indexes.                 *)
MildName(t, c) == Mild(Create(t, c)) /\ Mild(Drop(t, c))

LEMMA MildOne ==
    ASSUME NEW t, NEW a, MildName(t, a)
    PROVE  MildNames(t, <<a>>)
  <1> DEFINE names == <<a>>
  <1>1. names \in Seq({a}) /\ \A i \in DOMAIN names : names[i] = a
    OBVIOUS
  <1> QED BY <1>1, MildAdding DEF MildName

LEMMA MildTwo ==
    ASSUME NEW t, NEW a, NEW b, MildName(t, a), MildName(t, b)
    PROVE  MildNames(t, <<a, b>>)
  <1> DEFINE names == <<a, b>>
  <1>1. names \in Seq({a, b}) /\ \A i \in DOMAIN names : names[i] \in {a, b}
    OBVIOUS
  <1> QED BY <1>1, MildAdding DEF MildName

LEMMA MildThree ==
    ASSUME NEW t, NEW a, NEW b, NEW c,
           MildName(t, a), MildName(t, b), MildName(t, c)
    PROVE  MildNames(t, <<a, b, c>>)
  <1> DEFINE names == <<a, b, c>>
  <1>1. names \in Seq({a, b, c}) /\ \A i \in DOMAIN names : names[i] \in {a, b, c}
    OBVIOUS
  <1> QED BY <1>1, MildAdding DEF MildName

LEMMA MildAdditions ==
    \A r \in {2, 4, 5, 7, 8, 9, 13, 14} : AllMild(Revisions[r].up) /\ AllMild(Revisions[r].down)
  <1>1. /\ MildName("users", "*") /\ MildName("users", "ix_users_username")
        /\ MildName("users", "public_key")
    BY MildThings DEF MildName, Keys
  <1>2. /\ MildName("devices", "poll_interval_seconds") /\ MildName("devices", "rssi")
        /\ MildName("devices", "ip") /\ MildName("devices", "last_error")
        /\ MildName("devices", "failed_attempts") /\ MildName("devices", "secret_hash")
        /\ MildName("devices", "enabled") /\ MildName("devices", "registered_at")
    BY MildThings DEF MildName, Keys
  <1>3. /\ MildName("firmware", "original_filename") /\ MildName("firmware", "active")
        /\ MildName("device_events", "*") /\ MildName("device_events", "ix_device_events_device_id_id")
    BY MildThings DEF MildName, Keys
  <1>4. /\ MildNames("users", <<"*", "ix_users_username">>)
        /\ MildNames("devices", <<"last_error", "failed_attempts">>)
        /\ MildNames("device_events", <<"*", "ix_device_events_device_id_id">>)
    BY <1>1, <1>2, <1>3, MildTwo
  <1>5. /\ MildNames("firmware", <<"original_filename">>)
        /\ MildNames("firmware", <<"active">>)
        /\ MildNames("users", <<"public_key">>)
    BY <1>1, <1>3, MildOne
  <1>6. /\ MildNames("devices", <<"poll_interval_seconds", "rssi", "ip">>)
        /\ MildNames("devices", <<"secret_hash", "enabled", "registered_at">>)
    BY <1>2, MildThree
  <1> QED BY <1>4, <1>5, <1>6, TheRevisions
          DEF MildNames, Users, OriginalFilename, DeviceCheckin, FirmwareActive, DeviceLastError,
              DeviceEvents, DeviceRegistration, AccountPublicKey

(* The others, operation by operation.                                     *)
Undone(o) == [o EXCEPT !.do = "drop"]

LEMMA Reversed ==
    ASSUME NEW ops, NEW n \in Nat, Len(ops) = n, DOMAIN ops = 1..n
    PROVE  /\ Reversible(ops).up = ops
           /\ DOMAIN Reversible(ops).down = 1..n
           /\ \A j \in 1..n : Reversible(ops).down[j] = Undone(ops[n + 1 - j])
  BY DEF Reversible, Undone

LEMMA InitialIsMild ==
    /\ AllMild(Initial.up)
    /\ \A j \in DOMAIN Initial.down : Initial.down[j].do = "drop" /\ Initial.down[j].on[2] \notin Keys
  <1> DEFINE ops == Adding("firmware", <<"*", "ix_firmware_model">>)
                    \o Adding("devices", <<"*", "ix_devices_device_id">>)
  <1>1. /\ Len(ops) = 4 /\ DOMAIN ops = 1..4
        /\ ops[1] = Create("firmware", "*") /\ ops[2] = Create("firmware", "ix_firmware_model")
        /\ ops[3] = Create("devices", "*") /\ ops[4] = Create("devices", "ix_devices_device_id")
    BY DEF Adding
  <1>2. Initial = Reversible(ops)
    BY DEF Initial
  <1>3. /\ Initial.up = ops /\ DOMAIN Initial.down = 1..4
        /\ \A j \in 1..4 : Initial.down[j] = Undone(ops[4 + 1 - j])
    <2>1. Len(ops) = 4 /\ DOMAIN ops = 1..4
      BY <1>1
    <2> HIDE DEF ops
    <2>2. 4 \in Nat
      OBVIOUS
    <2>3. /\ Reversible(ops).up = ops /\ DOMAIN Reversible(ops).down = 1..4
          /\ \A j \in 1..4 : Reversible(ops).down[j] = Undone(ops[4 + 1 - j])
      BY <2>1, <2>2, Reversed
    <2> QED BY <1>2, <2>3
  <1> HIDE DEF ops
  <1>4. \A i \in 1..4 : i \in {1, 2, 3, 4} /\ 4 + 1 - i \in 1..4
    OBVIOUS
  <1>5. \A i \in 1..4 : Mild(ops[i])
    BY <1>1, <1>4, MildThings DEF Keys
  <1>6. \A i \in 1..4 : Undone(ops[i]).do = "drop" /\ Undone(ops[i]).on[2] \notin Keys
    BY <1>1, <1>4 DEF Keys, Create, Undone
  <1>7. AllMild(Initial.up)
    BY <1>1, <1>3, <1>5 DEF AllMild
  <1> QED BY <1>3, <1>4, <1>6, <1>7

LEMMA ThirdIsMild == AllMild(UniqueFirmware.up) /\ AllMild(UniqueFirmware.down)
  <1>1. /\ Mild(Create("firmware", "uq_firmware_model_version"))
        /\ Mild(Drop("firmware", "uq_firmware_model_version"))
        /\ Mild(Do("delete older"))
    BY MildThings, MildDo DEF Keys
  <1>2. /\ DOMAIN UniqueFirmware.up = {1, 2} /\ DOMAIN UniqueFirmware.down = {1}
        /\ UniqueFirmware.up[1] = Do("delete older")
        /\ UniqueFirmware.up[2] = Create("firmware", "uq_firmware_model_version")
        /\ UniqueFirmware.down[1] = Drop("firmware", "uq_firmware_model_version")
    BY DEF UniqueFirmware
  <1> QED BY <1>1, <1>2 DEF AllMild

LEMMA TenthIsMild == AllMild(UniqueBinary.up) /\ AllMild(UniqueBinary.down)
  <1>1. /\ Mild(Create("firmware", "uq_firmware_model_sha256"))
        /\ Mild(Drop("firmware", "uq_firmware_model_sha256"))
        /\ Mild(Do("refuse shared"))
    BY MildThings, MildDo DEF Keys
  <1>2. /\ DOMAIN UniqueBinary.up = {1, 2} /\ DOMAIN UniqueBinary.down = {1}
        /\ UniqueBinary.up[1] = Do("refuse shared")
        /\ UniqueBinary.up[2] = Create("firmware", "uq_firmware_model_sha256")
        /\ UniqueBinary.down[1] = Drop("firmware", "uq_firmware_model_sha256")
    BY DEF UniqueBinary
  <1> QED BY <1>1, <1>2 DEF AllMild

LEMMA EleventhIsMild == AllMild(EmailIdentity.up) /\ AllMild(EmailIdentity.down)
  <1> DEFINE u == EmailIdentity.up
             d == EmailIdentity.down
  <1>1. /\ DOMAIN u = 1..5 /\ u[1] = Drop("users", "*")
        /\ u[2] = Create("users", "*") /\ u[3] = Create("users", "ix_users_email")
        /\ u[4] = Create("refresh_tokens", "*")
        /\ u[5] = Create("refresh_tokens", "ix_refresh_tokens_user_id")
    BY DEF EmailIdentity, Adding
  <1>2. /\ DOMAIN d = 1..4 /\ d[1] = Drop("refresh_tokens", "*") /\ d[2] = Drop("users", "*")
        /\ d[3] = Create("users", "*") /\ d[4] = Create("users", "ix_users_username")
    BY DEF EmailIdentity, Adding
  <1> HIDE DEF u, d
  <1>3. Mild(u[1]) /\ Mild(u[2]) /\ Mild(u[3]) /\ Mild(u[4]) /\ Mild(u[5])
    BY <1>1, MildThings DEF Keys
  <1>4. Mild(d[1]) /\ Mild(d[2]) /\ Mild(d[3]) /\ Mild(d[4])
    BY <1>2, MildThings DEF Keys
  <1>5. \A i \in 1..5 : i \in {1, 2, 3, 4, 5}
    OBVIOUS
  <1>6. AllMild(u)
    BY <1>1, <1>3, <1>5 DEF AllMild
  <1>7. \A i \in 1..4 : i \in {1, 2, 3, 4}
    OBVIOUS
  <1>8. AllMild(d)
    BY <1>2, <1>4, <1>7 DEF AllMild
  <1> QED BY <1>6, <1>8 DEF u, d

(* An operation that may drop a filled column, but no row or name.         *)
Spares(o) ==
    /\ o.do = "create" => o.on \notin Filled
    /\ o.do = "drop" => o.on[2] \notin Keys /\ o.on # <<"firmware", "*">>

LEMMA MildSpares == \A o : Mild(o) => Spares(o)
  BY DEF Mild, Spares

LEMMA DropSpares ==
    \A c : c \notin Keys \cup {"*"} => Spares(Drop("firmware", c))
  BY DEF Spares, Drop

LEMMA SixthIsMild ==
    /\ Len(FirmwareSizeNotes.up) = 7 /\ DOMAIN FirmwareSizeNotes.up = 1..7
    /\ FirmwareSizeNotes.up[2] = Create("firmware", "size_bytes")
    /\ FirmwareSizeNotes.up[4] = Do("fill sizes")
    /\ \A i \in (1..7) \ {2} : Mild(FirmwareSizeNotes.up[i])
    /\ \A i \in DOMAIN FirmwareSizeNotes.down : Spares(FirmwareSizeNotes.down[i])
  <1> DEFINE u == FirmwareSizeNotes.up
             d == FirmwareSizeNotes.down
  <1>1. /\ Len(u) = 7 /\ DOMAIN u = 1..7 /\ u[1] = Do("require blobs")
        /\ u[2] = Create("firmware", "size_bytes") /\ u[3] = Create("firmware", "notes")
        /\ u[4] = Do("fill sizes")
    BY DEF FirmwareSizeNotes, BatchAlter
  <1>7. /\ u[5] = Create("_alembic_tmp_firmware", "*")
        /\ u[6] = Do("copy rows") /\ u[7] = Drop("_alembic_tmp_firmware", "*")
    <2> DEFINE s == <<Do("require blobs"), Create("firmware", "size_bytes"),
                      Create("firmware", "notes"), Do("fill sizes")>>
    <2>1. u = s \o BatchAlter
      BY DEF FirmwareSizeNotes
    <2>2. Len(s) = 4 /\ Len(BatchAlter) = 3
      BY DEF BatchAlter
    <2> DEFINE Ops == {s[1], s[2], s[3], s[4], BatchAlter[1], BatchAlter[2], BatchAlter[3]}
    <2>3. s \in Seq(Ops) /\ BatchAlter \in Seq(Ops)
      BY DEF BatchAlter
    <2> HIDE DEF u, s, Ops
    <2>4. ASSUME NEW k \in 1..3 PROVE u[4 + k] = BatchAlter[k]
      <3>1. k \in 1..Len(BatchAlter)
        BY <2>2
      <3>2. (s \o BatchAlter)[Len(s) + k] = BatchAlter[k]
        BY <2>3, <3>1, JoinAt
      <3> QED BY <2>1, <2>2, <3>2
    <2>5. u[5] = BatchAlter[1] /\ u[6] = BatchAlter[2] /\ u[7] = BatchAlter[3]
      BY <2>4
    <2> QED BY <2>5 DEF BatchAlter
  <1>2. /\ DOMAIN d = {1, 2} /\ d[1] = Drop("firmware", "notes")
        /\ d[2] = Drop("firmware", "size_bytes")
    BY DEF FirmwareSizeNotes, Dropping
  <1> HIDE DEF u, d
  <1>3. Mild(u[1]) /\ Mild(u[3]) /\ Mild(u[4]) /\ Mild(u[5]) /\ Mild(u[6]) /\ Mild(u[7])
    BY <1>1, <1>7, MildThings, MildDo DEF Keys
  <1>4. \A i \in (1..7) \ {2} : i \in {1, 3, 4, 5, 6, 7}
    OBVIOUS
  <1>5. \A i \in (1..7) \ {2} : Mild(u[i])
    BY <1>3, <1>4
  <1>6. \A i \in DOMAIN d : Spares(d[i])
    BY <1>2, DropSpares DEF Keys
  <1> QED BY <1>1, <1>5, <1>6 DEF u, d

LEMMA TwelfthIsMild ==
    /\ Len(OwnerScoping.up) = 13 /\ DOMAIN OwnerScoping.up = 1..13
    /\ OwnerScoping.up[3] = Create("firmware", "download_id")
    /\ OwnerScoping.up[6] = Do("fill links")
    /\ \A i \in (1..13) \ {3} : Mild(OwnerScoping.up[i])
    /\ \A i \in DOMAIN OwnerScoping.down : Spares(OwnerScoping.down[i])
  <1> DEFINE u == OwnerScoping.up
             d == OwnerScoping.down
  <1>1. /\ Len(u) = 13 /\ DOMAIN u = 1..13
        /\ u[1] = Do("find first owner") /\ u[2] = Create("firmware", "owner_id")
        /\ u[3] = Create("firmware", "download_id") /\ u[4] = Create("devices", "owner_id")
        /\ u[5] = Do("assign owner") /\ u[6] = Do("fill links")
        /\ u[7] = Create("firmware", "uq_firmware_download_id")
    BY DEF OwnerScoping, Dropping, Adding
  <1>2. /\ u[8] = Drop("firmware", "uq_firmware_model_version")
        /\ u[9] = Drop("firmware", "uq_firmware_model_sha256")
        /\ u[10] = Create("firmware", "uq_firmware_owner_model_version")
        /\ u[11] = Create("firmware", "uq_firmware_owner_model_sha256")
        /\ u[12] = Create("firmware", "ix_firmware_owner_id")
        /\ u[13] = Create("devices", "ix_devices_owner_id")
    BY DEF OwnerScoping, Dropping, Adding
  <1>3. /\ DOMAIN d = 1..10
        /\ d[1] = Drop("devices", "ix_devices_owner_id")
        /\ d[2] = Drop("firmware", "ix_firmware_owner_id")
        /\ d[3] = Drop("firmware", "uq_firmware_owner_model_sha256")
        /\ d[4] = Drop("firmware", "uq_firmware_owner_model_version")
        /\ d[5] = Create("firmware", "uq_firmware_model_version")
    BY DEF OwnerScoping, Dropping, Adding
  <1>4. /\ d[6] = Create("firmware", "uq_firmware_model_sha256")
        /\ d[7] = Drop("firmware", "uq_firmware_download_id")
        /\ d[8] = Drop("devices", "owner_id")
        /\ d[9] = Drop("firmware", "download_id")
        /\ d[10] = Drop("firmware", "owner_id")
    BY DEF OwnerScoping, Dropping, Adding
  <1> HIDE DEF u, d
  <1>5. Mild(u[1]) /\ Mild(u[2]) /\ Mild(u[4]) /\ Mild(u[5]) /\ Mild(u[6]) /\ Mild(u[7])
    BY <1>1, MildThings, MildDo DEF Keys
  <1>6. Mild(u[8]) /\ Mild(u[9]) /\ Mild(u[10]) /\ Mild(u[11]) /\ Mild(u[12]) /\ Mild(u[13])
    BY <1>2, MildThings DEF Keys
  <1>7. \A i \in (1..13) \ {3} : i \in {1, 2, 4, 5, 6, 7, 8, 9, 10, 11, 12, 13}
    OBVIOUS
  <1>8. \A i \in (1..13) \ {3} : Mild(u[i])
    BY <1>5, <1>6, <1>7
  <1>9. Spares(d[1]) /\ Spares(d[2]) /\ Spares(d[3]) /\ Spares(d[4]) /\ Spares(d[5])
    BY <1>3, MildThings, MildSpares DEF Keys
  <1>10. Spares(d[6]) /\ Spares(d[7]) /\ Spares(d[8]) /\ Spares(d[9]) /\ Spares(d[10])
    BY <1>4, MildThings, MildSpares, DropSpares DEF Keys
  <1>11. \A i \in 1..10 : i \in {1, 2, 3, 4, 5, 6, 7, 8, 9, 10}
    OBVIOUS
  <1>12. \A i \in DOMAIN d : Spares(d[i])
    BY <1>3, <1>9, <1>10, <1>11
  <1> QED BY <1>1, <1>8, <1>12 DEF u, d

(* All fourteen.                                                           *)
LEMMA UpsAreMild ==
    \A v \in 1..Newest : \A i \in DOMAIN Revisions[v].up :
        Mild(Revisions[v].up[i]) \/ (v = 6 /\ i = 2) \/ (v = 12 /\ i = 3)
  <1>1. \A v \in 1..14 : v \in {1, 3, 6, 10, 11, 12} \cup {2, 4, 5, 7, 8, 9, 13, 14}
    OBVIOUS
  <1>2. ASSUME NEW v \in {1, 3, 10, 11} \cup {2, 4, 5, 7, 8, 9, 13, 14} PROVE AllMild(Revisions[v].up)
    BY TheRevisions, MildAdditions, InitialIsMild, ThirdIsMild, TenthIsMild, EleventhIsMild
  <1>3. \A i \in DOMAIN Revisions[6].up : Mild(Revisions[6].up[i]) \/ i = 2
    BY TheRevisions, SixthIsMild
  <1>4. \A i \in DOMAIN Revisions[12].up : Mild(Revisions[12].up[i]) \/ i = 3
    BY TheRevisions, TwelfthIsMild
  <1> QED BY <1>1, <1>2, <1>3, <1>4, TheRevisions DEF AllMild

LEMMA DownsSpare ==
    \A v \in 1..Newest : \A i \in DOMAIN Revisions[v].down :
        LET o == Revisions[v].down[i]
        IN  IF v = 1 THEN o.do = "drop" /\ o.on[2] \notin Keys ELSE Spares(o)
  <1>1. \A v \in 1..14 : v \in {1, 3, 6, 10, 11, 12} \cup {2, 4, 5, 7, 8, 9, 13, 14}
    OBVIOUS
  <1>2. ASSUME NEW v \in {3, 10, 11} \cup {2, 4, 5, 7, 8, 9, 13, 14} PROVE AllMild(Revisions[v].down)
    BY TheRevisions, MildAdditions, ThirdIsMild, TenthIsMild, EleventhIsMild
  <1>3. \A v \in {6, 12} : \A i \in DOMAIN Revisions[v].down : Spares(Revisions[v].down[i])
    BY TheRevisions, SixthIsMild, TwelfthIsMild
  <1>4. \A i \in DOMAIN Revisions[1].down :
            Revisions[1].down[i].do = "drop" /\ Revisions[1].down[i].on[2] \notin Keys
    BY TheRevisions, InitialIsMild
  <1> QED BY <1>1, <1>2, <1>3, <1>4, MildSpares, TheRevisions DEF AllMild

(* What a revision from 0012 on stands for has the filled columns.         *)
LEMMA FilledAt ==
    ASSUME NEW r \in 12..Newest
    PROVE  Filled \subseteq SchemaAt[r]
  <1>1. /\ 6 \in 1..r /\ 12 \in 1..r /\ r \in 0..Newest /\ r \in 1..14
        /\ \A w \in 1..r : w \in 1..Newest
    BY TheRevisions
  <1>2. /\ 2 \in DOMAIN Revisions[6].up /\ Revisions[6].up[2] = Create("firmware", "size_bytes")
        /\ 3 \in DOMAIN Revisions[12].up /\ Revisions[12].up[3] = Create("firmware", "download_id")
    <2>1. Revisions[6] = FirmwareSizeNotes /\ Revisions[12] = OwnerScoping
      BY TheRevisions
    <2>2. 2 \in 1..7 /\ 3 \in 1..13
      OBVIOUS
    <2> QED BY <2>1, <2>2, SixthIsMild, TwelfthIsMild
  <1>3. \A o, e : Mild(o) /\ e \in Filled => ~Removes(o, e)
    BY DEF Mild, Removes, Filled
  <1>4. \A t, c, e : ~Removes(Create(t, c), e)
    BY DEF Removes, Create
  <1>5. \A w \in 1..Newest : \A j \in DOMAIN Revisions[w].up : \A e \in Filled :
            ~Removes(Revisions[w].up[j], e)
    BY <1>2, <1>3, <1>4, UpsAreMild
  <1>6. \A t, c : Create(t, c).do = "create" /\ Create(t, c).on = <<t, c>>
    BY DEF Create
  <1>7. Lasts(6, 2, r) /\ Lasts(12, 3, r)
    <2>1. \A w \in 6..r : w \in 1..Newest
      BY <1>1, TheRevisions
    <2>2. \A w \in 12..r : w \in 1..Newest
      BY <1>1, TheRevisions
    <2>3. Revisions[6].up[2].on \in Filled /\ Revisions[12].up[3].on \in Filled
      BY <1>2, <1>6 DEF Filled
    <2> QED BY <1>2, <1>5, <1>6, <2>1, <2>2, <2>3 DEF Lasts
  <1>8. SchemaAt[r] = UNION {{Revisions[v].up[i].on : i \in {i \in DOMAIN Revisions[v].up : Lasts(v, i, r)}} :
                             v \in 1..r}
    BY <1>1 DEF SchemaAt
  <1>9. Revisions[6].up[2].on \in SchemaAt[r] /\ Revisions[12].up[3].on \in SchemaAt[r]
    BY <1>1, <1>2, <1>7, <1>8
  <1> QED BY <1>2, <1>6, <1>9 DEF Filled

-----------------------------------------------------------------------------
(* The database.                                                           *)
Fields == {"revision", "schema", "firmware", "devices", "users"}
Columns == {"id", "label", "model", "sha256", "owner_id", "size_bytes", "download_id"}

RowsOk(rows) ==
    /\ \A r \in rows : DOMAIN r = Columns /\ r.id \in 1..MaxRows
    /\ \A r, s \in rows : r.id = s.id => r = s

WellFormed(d) ==
    /\ DOMAIN d = Fields
    /\ d.revision \in 0..Newest
    /\ RowsOk(d.firmware)
    /\ d.users \subseteq 1..MaxUsers

(* A filled column that is there is full.                                  *)
Sized(d) == <<"firmware", "size_bytes">> \in d.schema => \A r \in d.firmware : r.size_bytes = r.sha256
Linked(d) == <<"firmware", "download_id">> \in d.schema => \A r \in d.firmware : r.download_id = r.id

(* It is from the revision on that adds it, and within this one once the   *)
(* operation has run that fills it.                                        *)
Full(d, goal, step) ==
    /\ d.revision >= 6 \/ (d.revision = 5 /\ goal > 5 /\ step > 4) => Sized(d)
    /\ d.revision >= 12 \/ (d.revision = 11 /\ goal > 11 /\ step > 6) => Linked(d)

(* Every row of the one is in the other, or a later one of its version.    *)
Kept(rows, later) ==
    \A r \in rows :
        \/ \E s \in later : s.id = r.id /\ s.label = r.label /\ s.sha256 = r.sha256
        \/ \E s \in later : s.label = r.label /\ s.id > r.id

JobOk ==
    /\ job \in Jobs
    /\ job.goal \in 0..Newest /\ job.goal # db.revision
    /\ db.revision = disk.revision
    /\ ~job.open => db = disk
    /\ Full(db, job.goal, job.step)
    /\ job.goal > db.revision \/ db.revision > 1 => Kept(disk.firmware, db.firmware)

IInv ==
    /\ WellFormed(disk) /\ Full(disk, 0, 0)
    /\ WellFormed(db)
    /\ IF Running THEN JobOk ELSE db = disk

LEMMA KeptSame == \A rows : Kept(rows, rows)
  BY DEF Kept

LEMMA KeptOn ==
    ASSUME NEW a, NEW b, NEW c, RowsOk(a), RowsOk(b), RowsOk(c), Kept(a, b), Kept(b, c)
    PROVE  Kept(a, c)
  <1>1. \A r \in a \cup b \cup c : r.id \in Int
    BY MigrationsAssumption DEF RowsOk
  <1> SUFFICES ASSUME NEW r \in a
               PROVE  \/ \E t \in c : t.id = r.id /\ t.label = r.label /\ t.sha256 = r.sha256
                      \/ \E t \in c : t.label = r.label /\ t.id > r.id
    BY DEF Kept
  <1>2. CASE \E s \in b : s.id = r.id /\ s.label = r.label /\ s.sha256 = r.sha256
    BY <1>2 DEF Kept
  <1>3. CASE \E s \in b : s.label = r.label /\ s.id > r.id
    <2>1. PICK s \in b : s.label = r.label /\ s.id > r.id
      BY <1>3
    <2>2. PICK t \in c : t.label = s.label /\ (t.id = s.id \/ t.id > s.id)
      BY DEF Kept
    <2>3. t.id > r.id
      BY <1>1, <2>1, <2>2
    <2> QED BY <2>1, <2>2, <2>3
  <1> QED BY <1>2, <1>3 DEF Kept

(* An operation of the command under way.                                  *)
LEMMA TheStep ==
    ASSUME WellFormed(db), JobOk, job.step \in DOMAIN Steps, NEW o, o = Steps[job.step]
    PROVE  /\ o.do = "drop" => o.on[2] \notin Keys
           /\ o.do = "drop" /\ (job.goal > db.revision \/ db.revision > 1) => o.on # <<"firmware", "*">>
           /\ o.do = "create" /\ o.on = <<"firmware", "size_bytes">> =>
                 db.revision = 5 /\ job.goal > 5 /\ job.step = 2
           /\ o.do = "create" /\ o.on = <<"firmware", "download_id">> =>
                 db.revision = 11 /\ job.goal > 11 /\ job.step = 3
           /\ db.revision = 5 /\ job.goal > 5 /\ job.step = 4 => o.do = "fill sizes"
           /\ db.revision = 11 /\ job.goal > 11 /\ job.step = 6 => o.do = "fill links"
  <1>1. /\ job.goal \in 0..Newest /\ db.revision \in 0..Newest /\ job.goal # db.revision
        /\ Newest = 14
    BY TheRevisions DEF WellFormed, JobOk
  <1>2. Revisions[6] = FirmwareSizeNotes /\ Revisions[12] = OwnerScoping
    BY TheRevisions
  <1>3. \A t, c : Create(t, c).do = "create" /\ Create(t, c).on = <<t, c>>
    BY DEF Create
  <1>4. \A w : Do(w).do = w
    BY DEF Do
  <1>5. CASE job.goal > db.revision
    <2> DEFINE v == db.revision + 1
    <2>1. v \in 1..Newest /\ o = Revisions[v].up[job.step] /\ job.step \in DOMAIN Revisions[v].up
      BY <1>1, <1>5 DEF Steps, Ups
    <2>2. CASE v = 6 /\ job.step = 2
      <3>1. o = Create("firmware", "size_bytes")
        BY <1>2, <2>1, <2>2, SixthIsMild
      <3>2. o.do = "create" /\ o.on = <<"firmware", "size_bytes">> /\ db.revision = 5 /\ job.goal > 5
        BY <1>1, <1>3, <1>5, <2>2, <3>1
      <3> QED BY <2>2, <3>2
    <2>3. CASE v = 12 /\ job.step = 3
      <3>1. o = Create("firmware", "download_id")
        BY <1>2, <2>1, <2>3, TwelfthIsMild
      <3>2. o.do = "create" /\ o.on = <<"firmware", "download_id">> /\ db.revision = 11 /\ job.goal > 11
        BY <1>1, <1>3, <1>5, <2>3, <3>1
      <3> QED BY <2>3, <3>2
    <2>4. CASE ~(v = 6 /\ job.step = 2) /\ ~(v = 12 /\ job.step = 3)
      <3>1. Mild(o)
        BY <2>1, <2>4, UpsAreMild
      <3>2. db.revision = 5 /\ job.step = 4 => o.do = "fill sizes"
        <4> SUFFICES ASSUME db.revision = 5, job.step = 4 PROVE o.do = "fill sizes"
          OBVIOUS
        <4>1. v = 6
          OBVIOUS
        <4>2. o = Do("fill sizes")
          BY <1>2, <2>1, <4>1, SixthIsMild
        <4> QED BY <1>4, <4>2
      <3>3. db.revision = 11 /\ job.step = 6 => o.do = "fill links"
        <4> SUFFICES ASSUME db.revision = 11, job.step = 6 PROVE o.do = "fill links"
          OBVIOUS
        <4>1. v = 12
          OBVIOUS
        <4>2. o = Do("fill links")
          BY <1>2, <2>1, <4>1, TwelfthIsMild
        <4> QED BY <1>4, <4>2
      <3> QED BY <3>1, <3>2, <3>3 DEF Mild, Filled
    <2> QED BY <2>2, <2>3, <2>4
  <1>6. CASE ~(job.goal > db.revision)
    <2>1. db.revision \in 1..Newest /\ o = Revisions[db.revision].down[job.step]
          /\ job.step \in DOMAIN Revisions[db.revision].down
      BY <1>1, <1>6 DEF Steps, Ups
    <2>2. IF db.revision = 1 THEN o.do = "drop" /\ o.on[2] \notin Keys ELSE Spares(o)
      BY <2>1, DownsSpare
    <2>3. ~(db.revision = 5 /\ job.goal > 5) /\ ~(db.revision = 11 /\ job.goal > 11)
      BY <1>1, <1>6
    <2>4. CASE db.revision = 1
      <3>1. o.do = "drop" /\ o.on[2] \notin Keys /\ ~(db.revision > 1)
        BY <2>2, <2>4
      <3> QED BY <1>6, <2>3, <3>1
    <2>5. CASE db.revision # 1
      <3>1. Spares(o)
        BY <2>2, <2>5
      <3> QED BY <2>3, <3>1 DEF Spares, Filled
    <2> QED BY <2>4, <2>5
  <1> QED BY <1>5, <1>6

LEMMA AfterStep ==
    ASSUME IInv, Running, NEW after, NEW writes \in BOOLEAN, Done(after, writes),
           WellFormed(after), after.revision = db.revision,
           Full(after, job.goal, job.step + 1),
           job.goal > db.revision \/ db.revision > 1 => Kept(db.firmware, after.firmware)
    PROVE  IInv' /\ KeepsRows
  <1>1. JobOk /\ WellFormed(disk) /\ Full(disk, 0, 0) /\ WellFormed(db)
    BY DEF IInv
  <1> DEFINE still == job.open \/ writes
  <1>2. still \in BOOLEAN /\ job.open \in BOOLEAN /\ (~still => ~job.open)
    BY <1>1 DEF JobOk, Jobs
  <1>3. job' = [job EXCEPT !.step = job.step + 1, !.open = still]
    BY DEF Done
  <1>4. db' = after /\ disk' = IF job'.open THEN disk ELSE after
    BY DEF Done
  <1> HIDE DEF still
  <1>5. /\ job' \in Jobs /\ job'.goal = job.goal /\ job'.step = job.step + 1
    <2> DEFINE n == job.step + 1
    <2>1. n \in Nat \ {0} /\ job \in Jobs
      BY <1>1 DEF JobOk, Jobs
    <2>2. job' = [job EXCEPT !.step = n, !.open = still]
      BY <1>3
    <2> HIDE DEF n
    <2>3. /\ job' \in Jobs /\ job'.goal = job.goal /\ job'.step = n
      BY <1>2, <2>1, <2>2 DEF Jobs
    <2> QED BY <2>3 DEF n
  <1>6. job'.open = still
    BY <1>1, <1>3 DEF JobOk, Jobs
  <1>7. Running'
    BY <1>5, MigrationsAssumption DEF Running
  <1>8. CASE still
    <2>1. disk' = disk
      BY <1>4, <1>6, <1>8
    <2>2. job.goal > db.revision \/ db.revision > 1 => Kept(disk.firmware, after.firmware)
      BY <1>1, KeptOn DEF WellFormed, JobOk
    <2>3. JobOk'
      BY <1>1, <1>4, <1>5, <1>6, <1>8, <2>1, <2>2 DEF JobOk
    <2>4. KeepsRows
      BY <2>1, KeptSame DEF KeepsRows, Kept
    <2> QED BY <1>1, <1>4, <1>7, <2>1, <2>3, <2>4 DEF IInv
  <1>9. CASE ~still
    <2>1. disk' = after /\ db = disk
      BY <1>1, <1>2, <1>4, <1>6, <1>9 DEF JobOk
    <2>2. JobOk'
      BY <1>1, <1>4, <1>5, <2>1, KeptSame DEF JobOk
    <2>3. KeepsRows
      BY <1>1, <2>1 DEF KeepsRows, Kept, Ups
    <2>4. Full(after, 0, 0)
      BY DEF Full
    <2> QED BY <1>4, <1>7, <2>1, <2>2, <2>3, <2>4 DEF IInv
  <1> QED BY <1>8, <1>9

(* What an operation does for the columns to be filled after it.           *)
KeepsSizes(o, after) ==
    IF o.do = "fill sizes" THEN Sized(after)
    ELSE (o.do = "create" /\ o.on = <<"firmware", "size_bytes">>) \/ (Sized(db) => Sized(after))

KeepsLinks(o, after) ==
    IF o.do = "fill links" THEN Linked(after)
    ELSE (o.do = "create" /\ o.on = <<"firmware", "download_id">>) \/ (Linked(db) => Linked(after))

LEMMA FullAfter ==
    ASSUME WellFormed(db), JobOk, job.step \in DOMAIN Steps, NEW o, o = Steps[job.step],
           NEW after, after.revision = db.revision,
           KeepsSizes(o, after), KeepsLinks(o, after)
    PROVE  Full(after, job.goal, job.step + 1)
  <1>1. db.revision \in Nat /\ job.step \in Nat /\ job.goal \in Nat /\ Full(db, job.goal, job.step)
    BY TheRevisions DEF WellFormed, JobOk, Jobs
  <1>2. ASSUME db.revision >= 6 \/ (db.revision = 5 /\ job.goal > 5 /\ job.step + 1 > 4)
        PROVE  Sized(after)
    <2>1. CASE o.do = "fill sizes"
      BY <2>1 DEF KeepsSizes
    <2>2. CASE o.do # "fill sizes"
      <3>1. ~(db.revision = 5 /\ job.goal > 5 /\ job.step = 4)
        BY <2>2, TheStep
      <3>2. db.revision >= 6 \/ (db.revision = 5 /\ job.goal > 5 /\ job.step > 4)
        BY <1>1, <1>2, <3>1
      <3>3. Sized(db)
        BY <1>1, <3>2 DEF Full
      <3>4. ~(o.do = "create" /\ o.on = <<"firmware", "size_bytes">>)
        <4>1. ~(db.revision = 5 /\ job.goal > 5 /\ job.step = 2)
          BY <1>1, <3>2
        <4> QED BY <4>1, TheStep
      <3> QED BY <2>2, <3>3, <3>4 DEF KeepsSizes
    <2> QED BY <2>1, <2>2
  <1>3. ASSUME db.revision >= 12 \/ (db.revision = 11 /\ job.goal > 11 /\ job.step + 1 > 6)
        PROVE  Linked(after)
    <2>1. CASE o.do = "fill links"
      BY <2>1 DEF KeepsLinks
    <2>2. CASE o.do # "fill links"
      <3>1. ~(db.revision = 11 /\ job.goal > 11 /\ job.step = 6)
        BY <2>2, TheStep
      <3>2. db.revision >= 12 \/ (db.revision = 11 /\ job.goal > 11 /\ job.step > 6)
        BY <1>1, <1>3, <3>1
      <3>3. Linked(db)
        BY <1>1, <3>2 DEF Full
      <3>4. ~(o.do = "create" /\ o.on = <<"firmware", "download_id">>)
        <4>1. ~(db.revision = 11 /\ job.goal > 11 /\ job.step = 3)
          BY <1>1, <3>2
        <4> QED BY <4>1, TheStep
      <3> QED BY <2>2, <3>3, <3>4 DEF KeepsLinks
    <2> QED BY <2>1, <2>2
  <1> QED BY <1>2, <1>3 DEF Full

-----------------------------------------------------------------------------
(* The operations, one by one.                                             *)
LEMMA Creates ==
    ASSUME IInv, CreateStep
    PROVE  IInv' /\ KeepsRows
  <1> DEFINE o == Steps[job.step]
             after == [db EXCEPT !.schema = Alter(@, o)]
  <1>1. Running /\ job.step \in DOMAIN Steps /\ o.do = "create" /\ Done(after, FALSE)
    BY DEF CreateStep, At
  <1>2. WellFormed(db) /\ JobOk
    BY <1>1 DEF IInv
  <1>3. DOMAIN db = Fields
    BY <1>2 DEF WellFormed
  <1>4. /\ DOMAIN after = Fields /\ after.revision = db.revision /\ after.firmware = db.firmware
        /\ after.users = db.users /\ after.schema = db.schema \cup {o.on}
    BY <1>1, <1>3 DEF Alter, Fields
  <1> HIDE DEF o, after
  <1>5. WellFormed(after)
    BY <1>2, <1>4 DEF WellFormed
  <1>6. /\ o.on = <<"firmware", "size_bytes">> \/ (Sized(db) => Sized(after))
        /\ o.on = <<"firmware", "download_id">> \/ (Linked(db) => Linked(after))
    BY <1>4 DEF Sized, Linked
  <1>7. Full(after, job.goal, job.step + 1)
    BY <1>1, <1>2, <1>4, <1>6, FullAfter DEF o, KeepsSizes, KeepsLinks
  <1>8. Kept(db.firmware, after.firmware)
    BY <1>4, KeptSame
  <1> QED BY <1>1, <1>4, <1>5, <1>7, <1>8, AfterStep

(* Rows written anew, each under its own id.                               *)
OnlyRewrites(f, rows) ==
    \A r \in rows : /\ DOMAIN f[r] = Columns
                    /\ f[r].id = r.id /\ f[r].label = r.label /\ f[r].sha256 = r.sha256

LEMMA Rewritten ==
    ASSUME NEW rows, RowsOk(rows), NEW f, OnlyRewrites(f, rows)
    PROVE  RowsOk({f[r] : r \in rows}) /\ Kept(rows, {f[r] : r \in rows})
  BY DEF RowsOk, Kept, OnlyRewrites

LEMMA Drops ==
    ASSUME IInv, DropStep
    PROVE  IInv' /\ KeepsRows
  <1> DEFINE o == Steps[job.step]
             left(t, rows) ==
                IF o.on = <<t, "*">> THEN {}
                ELSE {[c \in DOMAIN r |-> IF o.on = <<t, c>> THEN NULL ELSE r[c]] : r \in rows}
             after == [db EXCEPT !.schema = Alter(@, o),
                                 !.firmware = left("firmware", @),
                                 !.devices = left("devices", @),
                                 !.users = IF o.on = <<"users", "*">> THEN {} ELSE @]
  <1>1. Running /\ job.step \in DOMAIN Steps /\ o.do = "drop" /\ Done(after, FALSE)
    BY DEF DropStep, At, Target
  <1>2. WellFormed(db) /\ JobOk
    BY <1>1 DEF IInv
  <1>3. DOMAIN db = Fields
    BY <1>2 DEF WellFormed
  <1>4. /\ DOMAIN after = Fields /\ after.revision = db.revision
        /\ after.firmware = left("firmware", db.firmware)
        /\ after.users \subseteq db.users
    BY <1>3 DEF Fields
  <1>5. after.schema = {e \in db.schema : ~Removes(o, e)}
    BY <1>1, <1>3 DEF Alter, Fields
  <1> HIDE DEF o, after
  <1>6. /\ o.on[2] \notin Keys
        /\ job.goal > db.revision \/ db.revision > 1 => o.on # <<"firmware", "*">>
    BY <1>1, <1>2, TheStep DEF o
  <1>7. CASE o.on = <<"firmware", "*">>
    <2>1. after.firmware = {}
      BY <1>4, <1>7
    <2>2. WellFormed(after)
      BY <1>2, <1>4, <2>1 DEF WellFormed, RowsOk
    <2>3. Sized(after) /\ Linked(after)
      BY <2>1 DEF Sized, Linked
    <2>4. Full(after, job.goal, job.step + 1)
      BY <1>1, <1>2, <1>4, <2>3, FullAfter DEF o, KeepsSizes, KeepsLinks
    <2> QED BY <1>1, <1>4, <1>6, <1>7, <2>2, <2>4, AfterStep
  <1>8. CASE o.on # <<"firmware", "*">>
    <2> DEFINE f == [r \in db.firmware |->
                        [c \in DOMAIN r |-> IF o.on = <<"firmware", c>> THEN NULL ELSE r[c]]]
    <2>1. RowsOk(db.firmware)
      BY <1>2 DEF WellFormed
    <2>2. after.firmware = {f[r] : r \in db.firmware}
      BY <1>4, <1>8
    <2>3. ASSUME NEW r \in db.firmware
          PROVE  /\ DOMAIN f[r] = Columns
                 /\ \A c \in Columns : o.on # <<"firmware", c>> => f[r][c] = r[c]
      BY <2>1 DEF RowsOk
    <2> HIDE DEF f
    <2>4. \A c \in Keys : c \in Columns /\ o.on # <<"firmware", c>>
      BY <1>6 DEF Keys, Columns
    <2>5. \A r \in db.firmware : f[r].id = r.id /\ f[r].label = r.label /\ f[r].sha256 = r.sha256
      BY <2>3, <2>4 DEF Keys
    <2>6. RowsOk(after.firmware) /\ Kept(db.firmware, after.firmware)
      <3>1. OnlyRewrites(f, db.firmware)
        BY <2>3, <2>5 DEF OnlyRewrites
      <3> QED BY <2>1, <2>2, <3>1, Rewritten
    <2>7. WellFormed(after)
      BY <1>2, <1>4, <2>6 DEF WellFormed
    <2>8. Sized(db) => Sized(after)
      <3> SUFFICES ASSUME Sized(db), <<"firmware", "size_bytes">> \in after.schema, NEW r \in db.firmware
                   PROVE  f[r].size_bytes = f[r].sha256
        BY <2>2 DEF Sized
      <3>1. r.size_bytes = r.sha256 /\ o.on # <<"firmware", "size_bytes">>
        BY <1>1, <1>5 DEF Sized, Removes
      <3>2. f[r].size_bytes = r.size_bytes
        BY <2>3, <3>1 DEF Columns
      <3> QED BY <2>5, <3>1, <3>2
    <2>9. Linked(db) => Linked(after)
      <3> SUFFICES ASSUME Linked(db), <<"firmware", "download_id">> \in after.schema, NEW r \in db.firmware
                   PROVE  f[r].download_id = f[r].id
        BY <2>2 DEF Linked
      <3>1. r.download_id = r.id /\ o.on # <<"firmware", "download_id">>
        BY <1>1, <1>5 DEF Linked, Removes
      <3>2. f[r].download_id = r.download_id
        BY <2>3, <3>1 DEF Columns
      <3> QED BY <2>5, <3>1, <3>2
    <2>10. Full(after, job.goal, job.step + 1)
      BY <1>1, <1>2, <1>4, <2>8, <2>9, FullAfter DEF o, KeepsSizes, KeepsLinks
    <2> QED BY <1>1, <1>4, <2>6, <2>7, <2>10, AfterStep
  <1> QED BY <1>7, <1>8

(* Only the rows are written.                                              *)
LEMMA RowsWritten ==
    ASSUME WellFormed(db), NEW rows, RowsOk(rows), NEW after, after = [db EXCEPT !.firmware = rows]
    PROVE  /\ WellFormed(after) /\ after.revision = db.revision
           /\ after.firmware = rows /\ after.schema = db.schema
  BY DEF WellFormed, Fields

LEMMA Deletes ==
    ASSUME IInv, DeleteOlder
    PROVE  IInv' /\ KeepsRows
  <1> DEFINE rows == {r \in db.firmware : \A s \in db.firmware : s.label = r.label => s.id <= r.id}
             after == [db EXCEPT !.firmware = rows]
  <1>1. /\ Running /\ job.step \in DOMAIN Steps /\ Done(after, TRUE)
        /\ Steps[job.step].do = "delete older"
    BY DEF DeleteOlder, At
  <1>2. WellFormed(db) /\ JobOk /\ RowsOk(db.firmware)
    BY <1>1 DEF IInv, WellFormed
  <1>3. RowsOk(rows)
    BY <1>2 DEF RowsOk
  <1>4. Kept(db.firmware, rows)
    <2> SUFFICES ASSUME NEW r \in db.firmware
                 PROVE  \E s \in rows : s.label = r.label /\ (s = r \/ s.id > r.id)
      BY DEF Kept
    <2> DEFINE T == {s.id : s \in {s \in db.firmware : s.label = r.label}}
    <2>1. T \in SUBSET (0..MaxRows) /\ T # {} /\ MaxRows \in Nat /\ \A s \in db.firmware : s.id \in Nat
      BY <1>2, MigrationsAssumption DEF RowsOk
    <2>2. PICK n \in T : \A m \in T : m <= n
      BY <2>1, GreatestNat
    <2>3. PICK s \in db.firmware : s.label = r.label /\ s.id = n
      BY <2>2
    <2>4. s \in rows /\ r.id <= s.id
      BY <2>2, <2>3
    <2>5. s = r \/ s.id > r.id
      BY <1>2, <2>1, <2>4 DEF RowsOk
    <2> QED BY <2>3, <2>4, <2>5
  <1> HIDE DEF rows, after
  <1>5. /\ WellFormed(after) /\ after.revision = db.revision
        /\ after.firmware = rows /\ after.schema = db.schema
    BY <1>2, <1>3, RowsWritten DEF after
  <1>6. rows \subseteq db.firmware
    BY DEF rows
  <1>7. (Sized(db) => Sized(after)) /\ (Linked(db) => Linked(after))
    BY <1>5, <1>6 DEF Sized, Linked
  <1>8. Full(after, job.goal, job.step + 1)
    BY <1>1, <1>2, <1>5, <1>7, FullAfter DEF KeepsSizes, KeepsLinks
  <1> QED BY <1>1, <1>4, <1>5, <1>8, AfterStep

(* Nothing is written, or what is written is what was there.               *)
LEMMA LeavesRows ==
    ASSUME IInv, Running, job.step \in DOMAIN Steps,
           Steps[job.step].do \notin {"fill sizes", "fill links"},
           NEW writes \in BOOLEAN, Done(db, writes)
    PROVE  IInv' /\ KeepsRows
  <1>1. WellFormed(db) /\ JobOk
    BY DEF IInv
  <1>2. Full(db, job.goal, job.step + 1)
    BY <1>1, FullAfter DEF KeepsSizes, KeepsLinks
  <1> QED BY <1>1, <1>2, KeptSame, AfterStep

LEMMA FillsSizes ==
    ASSUME IInv, FillSizes
    PROVE  IInv' /\ KeepsRows
  <1> DEFINE f == [r \in db.firmware |-> [r EXCEPT !.size_bytes = r.sha256]]
             rows == {f[r] : r \in db.firmware}
             after == [db EXCEPT !.firmware = rows]
             writes == db.firmware # {}
  <1>1. Running /\ job.step \in DOMAIN Steps /\ Steps[job.step].do = "fill sizes"
    BY DEF FillSizes, At
  <1>2. Done(after, writes)
    <2>1. rows = {[r EXCEPT !.size_bytes = r.sha256] : r \in db.firmware}
      OBVIOUS
    <2> QED BY <2>1 DEF FillSizes
  <1>3. WellFormed(db) /\ JobOk /\ RowsOk(db.firmware)
    BY <1>1 DEF IInv, WellFormed
  <1>4. \A r \in db.firmware : /\ DOMAIN f[r] = Columns /\ f[r].size_bytes = r.sha256
                               /\ \A c \in Columns \ {"size_bytes"} : f[r][c] = r[c]
    BY <1>3 DEF RowsOk, Columns
  <1>5. writes \in BOOLEAN
    OBVIOUS
  <1> HIDE DEF f, after, writes
  <1>6. OnlyRewrites(f, db.firmware)
    BY <1>4 DEF OnlyRewrites, Columns
  <1>7. RowsOk(rows) /\ Kept(db.firmware, rows)
    BY <1>3, <1>6, Rewritten
  <1>8. \A r \in rows : r.size_bytes = r.sha256
    BY <1>4, <1>6 DEF OnlyRewrites
  <1>9. Linked(db) => \/ <<"firmware", "download_id">> \notin db.schema
                      \/ \A r \in rows : r.download_id = r.id
    BY <1>4, <1>6 DEF OnlyRewrites, Columns, Linked
  <1> HIDE DEF rows
  <1>10. /\ WellFormed(after) /\ after.revision = db.revision
         /\ after.firmware = rows /\ after.schema = db.schema
    BY <1>3, <1>7, RowsWritten DEF after
  <1>11. Sized(after) /\ (Linked(db) => Linked(after))
    BY <1>8, <1>9, <1>10 DEF Sized, Linked
  <1>12. Full(after, job.goal, job.step + 1)
    BY <1>1, <1>3, <1>10, <1>11, FullAfter DEF KeepsSizes, KeepsLinks
  <1> QED BY <1>1, <1>2, <1>5, <1>7, <1>10, <1>12, AfterStep

LEMMA FillsLinks ==
    ASSUME IInv, FillLinks
    PROVE  IInv' /\ KeepsRows
  <1> DEFINE f == [r \in db.firmware |-> [r EXCEPT !.download_id = r.id]]
             rows == {f[r] : r \in db.firmware}
             after == [db EXCEPT !.firmware = rows]
             writes == db.firmware # {}
  <1>1. Running /\ job.step \in DOMAIN Steps /\ Steps[job.step].do = "fill links"
    BY DEF FillLinks, At
  <1>2. Done(after, writes)
    <2>1. rows = {[r EXCEPT !.download_id = r.id] : r \in db.firmware}
      OBVIOUS
    <2> QED BY <2>1 DEF FillLinks
  <1>3. WellFormed(db) /\ JobOk /\ RowsOk(db.firmware)
    BY <1>1 DEF IInv, WellFormed
  <1>4. \A r \in db.firmware : /\ DOMAIN f[r] = Columns /\ f[r].download_id = r.id
                               /\ \A c \in Columns \ {"download_id"} : f[r][c] = r[c]
    BY <1>3 DEF RowsOk, Columns
  <1>5. writes \in BOOLEAN
    OBVIOUS
  <1> HIDE DEF f, after, writes
  <1>6. OnlyRewrites(f, db.firmware)
    BY <1>4 DEF OnlyRewrites, Columns
  <1>7. RowsOk(rows) /\ Kept(db.firmware, rows)
    BY <1>3, <1>6, Rewritten
  <1>8. \A r \in rows : r.download_id = r.id
    BY <1>4, <1>6 DEF OnlyRewrites
  <1>9. Sized(db) => \/ <<"firmware", "size_bytes">> \notin db.schema
                     \/ \A r \in rows : r.size_bytes = r.sha256
    BY <1>4, <1>6 DEF OnlyRewrites, Columns, Sized
  <1> HIDE DEF rows
  <1>10. /\ WellFormed(after) /\ after.revision = db.revision
         /\ after.firmware = rows /\ after.schema = db.schema
    BY <1>3, <1>7, RowsWritten DEF after
  <1>11. Linked(after) /\ (Sized(db) => Sized(after))
    BY <1>8, <1>9, <1>10 DEF Sized, Linked
  <1>12. Full(after, job.goal, job.step + 1)
    BY <1>1, <1>3, <1>10, <1>11, FullAfter DEF KeepsSizes, KeepsLinks
  <1> QED BY <1>1, <1>2, <1>5, <1>7, <1>10, <1>12, AfterStep

LEMMA Assigns ==
    ASSUME IInv, AssignOwner
    PROVE  IInv' /\ KeepsRows
  <1> DEFINE f == [r \in db.firmware |-> [r EXCEPT !.owner_id = job.owner]]
             rows == {f[r] : r \in db.firmware}
             units == {[r EXCEPT !.owner_id = job.owner] : r \in db.devices}
             after == [db EXCEPT !.firmware = rows, !.devices = units]
  <1>1. Running /\ job.step \in DOMAIN Steps /\ Steps[job.step].do = "assign owner"
    BY DEF AssignOwner, At
  <1>2. WellFormed(db) /\ JobOk /\ RowsOk(db.firmware)
    BY <1>1 DEF IInv, WellFormed
  <1>3. CASE job.owner = NULL
    BY <1>1, <1>3, LeavesRows DEF AssignOwner
  <1>4. CASE job.owner # NULL
    <2>1. Done(after, TRUE)
      <3>1. rows = {[r EXCEPT !.owner_id = job.owner] : r \in db.firmware}
        OBVIOUS
      <3> QED BY <1>4, <3>1 DEF AssignOwner
    <2>2. \A r \in db.firmware : /\ DOMAIN f[r] = Columns
                                 /\ \A c \in Columns \ {"owner_id"} : f[r][c] = r[c]
      BY <1>2 DEF RowsOk, Columns
    <2> HIDE DEF f, units
    <2>3. /\ DOMAIN after = Fields /\ after.revision = db.revision /\ after.users = db.users
          /\ after.firmware = rows /\ after.schema = db.schema
      BY <1>2 DEF WellFormed, Fields
    <2> HIDE DEF after
    <2>4. OnlyRewrites(f, db.firmware)
      BY <2>2 DEF OnlyRewrites, Columns
    <2>5. RowsOk(rows) /\ Kept(db.firmware, rows)
      BY <1>2, <2>4, Rewritten
    <2>6. \A r \in db.firmware : f[r].size_bytes = r.size_bytes /\ f[r].download_id = r.download_id
      BY <2>2 DEF Columns
    <2>7. (Sized(db) => Sized(after)) /\ (Linked(db) => Linked(after))
      BY <2>3, <2>4, <2>6 DEF Sized, Linked, OnlyRewrites
    <2>8. WellFormed(after)
      BY <1>2, <2>3, <2>5 DEF WellFormed
    <2>9. Full(after, job.goal, job.step + 1)
      BY <1>1, <1>2, <2>3, <2>7, FullAfter DEF KeepsSizes, KeepsLinks
    <2> QED BY <1>1, <2>1, <2>3, <2>5, <2>8, <2>9, AfterStep
  <1> QED BY <1>3, <1>4

LEMMA FindsOwner ==
    ASSUME IInv, FindFirstOwner
    PROVE  IInv' /\ Running' /\ KeepsRows
  <1>1. /\ Running /\ job.step \in DOMAIN Steps /\ Steps[job.step].do = "find first owner"
        /\ db' = db /\ disk' = disk /\ job' = [job EXCEPT !.step = job.step + 1, !.owner = FirstOwner]
    BY DEF FindFirstOwner, At
  <1>2. WellFormed(db) /\ JobOk /\ job \in Jobs
    BY <1>1 DEF IInv, JobOk
  <1>3. FirstOwner \in 1..MaxUsers \cup {NULL}
    <2>1. db.users \in SUBSET Nat /\ db.users \subseteq 1..MaxUsers
      BY <1>2, MigrationsAssumption DEF WellFormed
    <2>2. db.users # {} => \E u \in db.users : \A v \in db.users : u <= v
      BY <2>1, LeastNat
    <2> QED BY <2>1, <2>2 DEF FirstOwner
  <1> DEFINE n == job.step + 1
  <1>4. n \in Nat \ {0}
    BY <1>2 DEF Jobs
  <1>5. job' = [job EXCEPT !.step = n, !.owner = FirstOwner]
    BY <1>1
  <1> HIDE DEF n
  <1>6. job' \in Jobs /\ job'.goal = job.goal /\ job'.step = n /\ job'.open = job.open
    BY <1>2, <1>3, <1>4, <1>5 DEF Jobs
  <1>7. Running'
    BY <1>6, MigrationsAssumption DEF Running
  <1>8. Full(db, job.goal, n)
    BY <1>1, <1>2, FullAfter DEF n, KeepsSizes, KeepsLinks
  <1>9. JobOk'
    BY <1>1, <1>2, <1>6, <1>8 DEF JobOk
  <1>10. KeepsRows
    BY <1>1, KeptSame DEF KeepsRows, Kept
  <1> QED BY <1>1, <1>7, <1>9, <1>10 DEF IInv

(* However a command stops, what was not committed is gone.                *)
LEMMA Stops ==
    ASSUME IInv, Stop
    PROVE  IInv' /\ KeepsRows
  <1>1. job' = NULL /\ disk' = disk /\ db' = disk
    BY DEF Stop
  <1>2. KeepsRows
    BY <1>1, KeptSame DEF KeepsRows, Kept
  <1> QED BY <1>1, <1>2 DEF IInv, Running

LEMMA Records ==
    ASSUME IInv, Record
    PROVE  IInv' /\ KeepsRows
  <1> DEFINE reached == IF Ups THEN db.revision + 1 ELSE db.revision - 1
  <1>1. /\ Running /\ job.step \notin DOMAIN Steps /\ disk' = db'
        /\ db' = [db EXCEPT !.revision = reached]
        /\ job' = IF reached = job.goal THEN NULL ELSE [job EXCEPT !.step = 1, !.open = FALSE]
    BY DEF Record
  <1>2. WellFormed(db) /\ JobOk /\ job \in Jobs
    BY <1>1 DEF IInv, JobOk
  <1>3. /\ job.goal \in 0..14 /\ db.revision \in 0..14 /\ job.goal # db.revision
        /\ job.step \in Nat /\ job.step # 0 /\ Newest = 14
    BY <1>2, TheRevisions DEF WellFormed, JobOk, Jobs
  <1>4. /\ reached \in 0..Newest
        /\ \/ reached = db.revision + 1 /\ job.goal > db.revision
           \/ reached = db.revision - 1 /\ job.goal < db.revision
    BY <1>3 DEF Ups
  <1>5. /\ db.revision = 5 /\ job.goal > 5 => job.step > 4
        /\ db.revision = 11 /\ job.goal > 11 => job.step > 6
    <2>1. Revisions[6] = FirmwareSizeNotes /\ Revisions[12] = OwnerScoping
      BY TheRevisions
    <2>2. ASSUME db.revision = 5, job.goal > 5 PROVE job.step > 4
      <3>1. DOMAIN Steps = 1..7
        <4>1. Steps = Revisions[6].up
          BY <2>2 DEF Steps, Ups
        <4> QED BY <2>1, <4>1, SixthIsMild
      <3> QED BY <1>1, <1>3, <3>1
    <2>3. ASSUME db.revision = 11, job.goal > 11 PROVE job.step > 6
      <3>1. DOMAIN Steps = 1..13
        <4>1. Steps = Revisions[12].up
          BY <2>3 DEF Steps, Ups
        <4> QED BY <2>1, <4>1, TwelfthIsMild
      <3> QED BY <1>1, <1>3, <3>1
    <2> QED BY <2>2, <2>3
  <1> HIDE DEF reached
  <1>6. /\ DOMAIN db' = Fields /\ db'.revision = reached /\ db'.firmware = db.firmware
        /\ db'.schema = db.schema /\ db'.users = db.users
    BY <1>1, <1>2 DEF WellFormed, Fields
  <1>7. WellFormed(db')
    BY <1>2, <1>4, <1>6 DEF WellFormed
  <1>8. (Sized(db) => Sized(db')) /\ (Linked(db) => Linked(db'))
    BY <1>6 DEF Sized, Linked
  <1>9. Full(db', 0, 0) /\ Full(db', job.goal, 1)
    <2>1. Full(db, job.goal, job.step)
      BY <1>2 DEF JobOk
    <2>2. reached >= 6 => Sized(db)
      <3>1. reached >= 6 => db.revision >= 6 \/ (db.revision = 5 /\ job.goal > 5 /\ job.step > 4)
        BY <1>3, <1>4, <1>5
      <3> QED BY <2>1, <3>1 DEF Full
    <2>3. reached >= 12 => Linked(db)
      <3>1. reached >= 12 => db.revision >= 12 \/ (db.revision = 11 /\ job.goal > 11 /\ job.step > 6)
        BY <1>3, <1>4, <1>5
      <3> QED BY <2>1, <3>1 DEF Full
    <2> QED BY <1>6, <1>8, <2>2, <2>3 DEF Full
  <1>10. KeepsRows
    <2>1. Kept(disk.firmware, disk'.firmware) \/ ~(Ups \/ disk.revision > 1)
      BY <1>1, <1>2, <1>6 DEF JobOk, Ups
    <2> QED BY <2>1 DEF KeepsRows, Kept
  <1>11. CASE reached = job.goal
    BY <1>1, <1>7, <1>9, <1>10, <1>11 DEF IInv, Running
  <1>12. CASE reached # job.goal
    <2>1. job' \in Jobs /\ job'.goal = job.goal /\ job'.step = 1
      <3> DEFINE one == 1
                 no == FALSE
      <3>1. job' = [job EXCEPT !.step = one, !.open = no]
        BY <1>1, <1>12
      <3>2. one \in Nat \ {0} /\ no \in BOOLEAN
        OBVIOUS
      <3> HIDE DEF one, no
      <3>3. job' \in Jobs /\ job'.goal = job.goal /\ job'.step = one
        BY <1>2, <3>1, <3>2 DEF Jobs
      <3> QED BY <3>3 DEF one
    <2>2. Running'
      BY <2>1, MigrationsAssumption DEF Running
    <2>3. JobOk'
      BY <1>1, <1>2, <1>6, <1>9, <1>12, <2>1, KeptSame DEF JobOk
    <2> QED BY <1>1, <1>7, <1>9, <1>10, <2>2, <2>3 DEF IInv
  <1> QED BY <1>11, <1>12

-----------------------------------------------------------------------------
(* Between two commands.                                                   *)
LEMMA Starts ==
    ASSUME IInv, NEW goal \in Goals, Start(goal)
    PROVE  IInv' /\ KeepsRows
  <1>1. /\ ~Running /\ db = disk /\ goal # disk.revision /\ disk' = disk /\ db' = db
        /\ WellFormed(disk) /\ Full(disk, 0, 0)
        /\ job' = [goal |-> goal, step |-> 1, open |-> FALSE, owner |-> NULL]
    BY DEF Start, IInv
  <1>2. goal \in 0..Newest /\ goal \in Nat
    BY GoalsAssumption, TheRevisions
  <1>3. /\ job' \in Jobs /\ job'.goal = goal /\ job'.step = 1
    <2> DEFINE no == FALSE
               one == 1
    <2>1. job' = [goal |-> goal, step |-> one, open |-> no, owner |-> NULL]
      BY <1>1
    <2>2. one \in Nat \ {0} /\ no \in BOOLEAN
      OBVIOUS
    <2> HIDE DEF one, no
    <2>3. job' \in Jobs /\ job'.goal = goal /\ job'.step = one
      BY <1>2, <2>1, <2>2 DEF Jobs
    <2> QED BY <2>3 DEF one
  <1>4. Running'
    BY <1>3, MigrationsAssumption DEF Running
  <1>5. Full(disk, goal, 1)
    BY <1>1 DEF Full
  <1>6. JobOk'
    BY <1>1, <1>2, <1>3, <1>5, KeptSame DEF JobOk
  <1> QED BY <1>1, <1>4, <1>6 DEF IInv, KeepsRows

LEMMA Uses ==
    ASSUME IInv, ~Running, NEW after, Use(after), WellFormed(after), Full(after, 0, 0)
    PROVE  IInv' /\ KeepsRows
  BY DEF IInv, Use, Running, KeepsRows

(* A new row's id is one more than the greatest.                           *)
LEMMA NextIsNew ==
    ASSUME NEW rows, RowsOk(rows)
    PROVE  NextId(rows) \in Nat \ {0} /\ \A r \in rows : r.id # NextId(rows)
  <1>1. CASE rows = {}
    BY <1>1 DEF NextId
  <1>2. CASE rows # {}
    <2> DEFINE T == {r.id : r \in rows}
               Tops(i) == \A r \in rows : r.id <= i
    <2>1. T \in SUBSET (0..MaxRows) /\ T # {} /\ MaxRows \in Nat /\ \A r \in rows : r.id \in Nat
      BY <1>2, MigrationsAssumption DEF RowsOk
    <2>2. \E n \in T : Tops(n)
      <3>1. PICK n \in T : \A m \in T : m <= n
        BY <2>1, GreatestNat
      <3> QED BY <3>1
    <2> DEFINE top == CHOOSE i \in T : Tops(i)
    <2>3. top \in T /\ Tops(top)
      BY <2>2
    <2>4. NextId(rows) = 1 + top
      BY <1>2 DEF NextId
    <2>5. top \in Nat
      BY <2>1, <2>3
    <2> HIDE DEF top
    <2> QED BY <2>1, <2>3, <2>4, <2>5
  <1> QED BY <1>1, <1>2

LEMMA Uploads ==
    ASSUME IInv, NEW label \in Labels, NEW image \in Images, Upload(label, image)
    PROVE  IInv' /\ KeepsRows
  <1>1. /\ ~Running /\ db = disk /\ WellFormed(disk) /\ Full(disk, 0, 0) /\ RowsOk(disk.firmware)
        /\ disk.revision \in Nat
    BY TheRevisions DEF IInv, Upload, Serving, WellFormed
  <1> DEFINE id == NextId(disk.firmware)
             row(u) == [id |-> id, label |-> label, model |-> label[1], sha256 |-> image,
                        owner_id |-> u,
                        size_bytes |-> IF disk.revision >= 6 THEN image ELSE NULL,
                        download_id |-> IF disk.revision >= 12 THEN id ELSE NULL]
             after(u) == [disk EXCEPT !.firmware = disk.firmware \cup {row(u)}]
  <1>2. PICK u : id <= MaxRows /\ Use(after(u))
    BY DEF Upload
  <1>3. id \in 1..MaxRows /\ \A r \in disk.firmware : r.id # id
    BY <1>1, <1>2, NextIsNew, MigrationsAssumption
  <1> HIDE DEF id
  <1>4. /\ DOMAIN row(u) = Columns /\ row(u).id = id
        /\ disk.revision >= 6 => row(u).size_bytes = row(u).sha256
        /\ disk.revision >= 12 => row(u).download_id = row(u).id
    BY DEF Columns
  <1> HIDE DEF row
  <1>5. RowsOk(disk.firmware \cup {row(u)})
    BY <1>1, <1>3, <1>4 DEF RowsOk
  <1>6. /\ DOMAIN after(u) = Fields /\ after(u).revision = disk.revision
        /\ after(u).firmware = disk.firmware \cup {row(u)}
        /\ after(u).schema = disk.schema /\ after(u).users = disk.users
    BY <1>1 DEF WellFormed, Fields
  <1> HIDE DEF after
  <1>7. WellFormed(after(u))
    BY <1>1, <1>5, <1>6 DEF WellFormed
  <1>8. Full(after(u), 0, 0)
    <2>1. disk.revision >= 6 => Sized(after(u))
      BY <1>1, <1>4, <1>6 DEF Full, Sized
    <2>2. disk.revision >= 12 => Linked(after(u))
      BY <1>1, <1>4, <1>6 DEF Full, Linked
    <2> QED BY <1>6, <2>1, <2>2 DEF Full
  <1> QED BY <1>1, <1>2, <1>7, <1>8, Uses

LEMMA Operates ==
    ASSUME IInv, Operate
    PROVE  IInv' /\ KeepsRows
  <1>1. ASSUME NEW after, Use(after), ~Running, DOMAIN after = Fields,
               after.revision = disk.revision, after.firmware \subseteq disk.firmware,
               after.schema = disk.schema, after.users \subseteq 1..MaxUsers
        PROVE  IInv' /\ KeepsRows
    <2>1. WellFormed(disk) /\ Full(disk, 0, 0)
      BY DEF IInv
    <2>2. WellFormed(after)
      BY <1>1, <2>1 DEF WellFormed, RowsOk
    <2>3. (Sized(disk) => Sized(after)) /\ (Linked(disk) => Linked(after))
      BY <1>1 DEF Sized, Linked
    <2>4. Full(after, 0, 0)
      BY <1>1, <2>1, <2>3 DEF Full
    <2> QED BY <1>1, <2>2, <2>4, Uses
  <1>2. DOMAIN disk = Fields /\ disk.users \subseteq 1..MaxUsers
    BY DEF IInv, WellFormed
  <1>3. CASE AddUser
    <2>1. PICK u \in 1..MaxUsers : Use([disk EXCEPT !.users = @ \cup {u}])
      BY <1>3 DEF AddUser
    <2> DEFINE after == [disk EXCEPT !.users = @ \cup {u}]
    <2>2. /\ DOMAIN after = Fields /\ after.revision = disk.revision /\ after.firmware = disk.firmware
          /\ after.schema = disk.schema /\ after.users = disk.users \cup {u}
      BY <1>2 DEF Fields
    <2>3. ~Running /\ Use(after)
      BY <1>3, <2>1 DEF AddUser, Serving
    <2> HIDE DEF after
    <2> QED BY <1>1, <1>2, <2>2, <2>3
  <1>4. CASE AddDevice
    <2>1. PICK u : Use([disk EXCEPT !.devices = {[id |-> 1, owner_id |-> u]}])
      BY <1>4 DEF AddDevice
    <2> DEFINE after == [disk EXCEPT !.devices = {[id |-> 1, owner_id |-> u]}]
    <2>2. /\ DOMAIN after = Fields /\ after.revision = disk.revision /\ after.firmware = disk.firmware
          /\ after.schema = disk.schema /\ after.users = disk.users
      BY <1>2 DEF Fields
    <2>3. ~Running /\ Use(after)
      BY <1>4, <2>1 DEF AddDevice, Serving
    <2> HIDE DEF after
    <2> QED BY <1>1, <1>2, <2>2, <2>3
  <1>5. CASE DeleteRow
    <2>1. PICK r \in disk.firmware : Use([disk EXCEPT !.firmware = @ \ {r}])
      BY <1>5 DEF DeleteRow
    <2> DEFINE after == [disk EXCEPT !.firmware = @ \ {r}]
    <2>2. /\ DOMAIN after = Fields /\ after.revision = disk.revision
          /\ after.firmware \subseteq disk.firmware
          /\ after.schema = disk.schema /\ after.users = disk.users
      BY <1>2 DEF Fields
    <2>3. ~Running /\ Use(after)
      BY <1>5, <2>1 DEF DeleteRow, Serving
    <2> HIDE DEF after
    <2> QED BY <1>1, <1>2, <2>2, <2>3
  <1>6. CASE LoseBlob
    BY <1>6 DEF LoseBlob, IInv, WellFormed, Serving, Running, JobOk, KeepsRows
  <1> QED BY <1>3, <1>4, <1>5, <1>6, Starts, Uploads DEF Operate

LEMMA Migrates ==
    ASSUME IInv, Migrate
    PROVE  IInv' /\ KeepsRows
  <1>1. CASE Rejected
    BY <1>1, Stops DEF Rejected, Die, Stopped
  <1>2. CASE RequireBlobs
    <2>1. /\ Running /\ job.step \in DOMAIN Steps /\ Steps[job.step].do = "require blobs"
          /\ Stop \/ Done(db, FALSE)
      BY <1>2 DEF RequireBlobs, At, Refuse
    <2> QED BY <2>1, Stops, LeavesRows
  <1>3. CASE CopyRows
    <2>1. /\ Running /\ job.step \in DOMAIN Steps /\ Steps[job.step].do = "copy rows"
          /\ Done(db, TRUE)
      BY <1>3 DEF CopyRows, At
    <2> QED BY <2>1, LeavesRows
  <1>4. CASE RefuseShared
    <2>1. /\ Running /\ job.step \in DOMAIN Steps /\ Steps[job.step].do = "refuse shared"
          /\ Stop \/ Done(db, FALSE)
      BY <1>4 DEF RefuseShared, At, Refuse
    <2> QED BY <2>1, Stops, LeavesRows
  <1> QED BY <1>1, <1>2, <1>3, <1>4, Creates, Drops, Deletes, FillsSizes, FindsOwner, Assigns,
             FillsLinks, Records DEF Migrate

LEMMA InitHolds == Init => IInv
  <1> SUFFICES ASSUME Init PROVE IInv
    OBVIOUS
  <1>1. /\ DOMAIN disk = Fields /\ disk.revision = 0 /\ disk.schema = {} /\ disk.firmware = {}
        /\ disk.users = {} /\ db = disk /\ ~Running
    BY DEF Init, Fields, Running
  <1>2. 0 \in 0..Newest
    BY TheRevisions
  <1> QED BY <1>1, <1>2 DEF IInv, WellFormed, RowsOk, Full

LEMMA StepHolds == IInv /\ [Next]_vars => IInv' /\ [KeepsRows]_vars
  <1> SUFFICES ASSUME IInv, [Next]_vars PROVE IInv' /\ [KeepsRows]_vars
    OBVIOUS
  <1>1. CASE Migrate
    BY <1>1, Migrates
  <1>2. CASE Operate
    BY <1>2, Operates
  <1>3. CASE Crash
    BY <1>3, Stops DEF Crash
  <1>4. CASE UNCHANGED vars
    <2>1. /\ disk' = disk /\ db' = db /\ job' = job
      BY <1>4 DEF vars
    <2> QED BY <1>4, <2>1 DEF IInv, Running, JobOk
  <1> QED BY <1>1, <1>2, <1>3, <1>4 DEF Next

-----------------------------------------------------------------------------
(* A filled column that is there is full from its revision on, and the     *)
(* rows of a database under migration are those of the file, or later ones *)
(* of the same versions.                                                   *)
THEOREM Invariant == Spec => []IInv
  <1>1. IInv /\ [Next]_vars => IInv'
    BY StepHolds
  <1> QED BY <1>1, InitHolds, PTL DEF Spec

(* No command loses a published row but an older one of the same version,  *)
(* until a downgrade drops the whole table: however often the database     *)
(* goes up and down, and wherever a command stops, torn or refused.        *)
THEOREM KeepsPublished == Spec => RowsKept
  <1>1. IInv /\ [Next]_vars => [KeepsRows]_vars
    BY StepHolds
  <1> QED BY <1>1, Invariant, PTL DEF Spec, RowsKept

(* Whenever the server of 0012 or later runs, every row has a link of its  *)
(* own and the size of its own binary.                                     *)
THEOREM RowsCanBeServed == Spec => []RowsServable
  <1>1. IInv => RowsServable
    <2> SUFFICES ASSUME IInv, Serving, disk.revision >= 12, NEW r \in disk.firmware
                 PROVE  /\ r.size_bytes = r.sha256
                        /\ r.download_id # NULL
                        /\ \A s \in disk.firmware : s.download_id = r.download_id => s = r
      BY DEF RowsServable
    <2>1. /\ WellFormed(disk) /\ Full(disk, 0, 0) /\ RowsOk(disk.firmware)
          /\ disk.revision \in 12..Newest /\ disk.revision >= 6
      BY TheRevisions DEF IInv, WellFormed
    <2>2. Filled \subseteq disk.schema
      BY <2>1, FilledAt DEF Serving
    <2>3. \A s \in disk.firmware : s.size_bytes = s.sha256 /\ s.download_id = s.id
      BY <2>1, <2>2 DEF Full, Sized, Linked, Filled
    <2>4. \A s \in disk.firmware : s.id \in Nat /\ s.id # NULL
      BY <2>1, MigrationsAssumption DEF RowsOk
    <2> QED BY <2>1, <2>3, <2>4 DEF RowsOk
  <1> QED BY <1>1, Invariant, PTL

-----------------------------------------------------------------------------
(* The schema that a list of operations leaves.                            *)

(* What is left of a schema after the first operations of a list.          *)
After(s, ops, k) ==
    {e \in s : \A j \in 1..k : ~Removes(ops[j], e)}
    \cup {ops[i].on : i \in {i \in 1..k : /\ ops[i].do = "create"
                                          /\ \A j \in i + 1..k : ~Removes(ops[j], ops[i].on)}}

LEMMA AfterNone == \A s, ops : After(s, ops, 0) = s
  <1> SUFFICES ASSUME NEW s, NEW ops PROVE After(s, ops, 0) = s
    OBVIOUS
  <1>1. 1..0 = {}
    OBVIOUS
  <1> QED BY <1>1 DEF After

LEMMA AfterOne ==
    ASSUME NEW s, NEW ops, NEW k \in Nat
    PROVE  After(s, ops, k + 1) = Alter(After(s, ops, k), ops[k + 1])
  <1> DEFINE o == ops[k + 1]
             Made(i, n) == i \in 1..n /\ ops[i].do = "create"
                           /\ \A j \in i + 1..n : ~Removes(ops[j], ops[i].on)
  <1>1. \A n, e : e \in After(s, ops, n) <=>
                      \/ e \in s /\ \A j \in 1..n : ~Removes(ops[j], e)
                      \/ \E i : Made(i, n) /\ e = ops[i].on
    BY DEF After
  <1>2. /\ \A j : j \in 1..k + 1 <=> j \in 1..k \/ j = k + 1
        /\ \A i \in 1..k : \A j : j \in i + 1..k + 1 <=> j \in i + 1..k \/ j = k + 1
        /\ \A j : j \notin k + 1 + 1..k + 1
    OBVIOUS
  <1>3. \A i : Made(i, k + 1) <=> \/ Made(i, k) /\ ~Removes(o, ops[i].on)
                                  \/ i = k + 1 /\ o.do = "create"
    <2> SUFFICES ASSUME NEW i
                 PROVE  Made(i, k + 1) <=> \/ Made(i, k) /\ ~Removes(o, ops[i].on)
                                           \/ i = k + 1 /\ o.do = "create"
      OBVIOUS
    <2>1. CASE i \in 1..k
      <3>1. i # k + 1
        BY <2>1
      <3> QED BY <1>2, <2>1, <3>1
    <2>2. CASE i = k + 1
      <3>1. i \notin 1..k
        BY <2>2
      <3> QED BY <1>2, <2>2, <3>1
    <2>3. CASE i \notin 1..k /\ i # k + 1
      BY <1>2, <2>3
    <2> QED BY <2>1, <2>2, <2>3
  <1>4. \A e : e \in After(s, ops, k + 1) <=>
                   \/ e \in After(s, ops, k) /\ ~Removes(o, e)
                   \/ o.do = "create" /\ e = o.on
    <2> HIDE DEF Made, o
    <2>1. \A e : (\A j \in 1..k + 1 : ~Removes(ops[j], e)) <=>
                 (\A j \in 1..k : ~Removes(ops[j], e)) /\ ~Removes(o, e)
      BY <1>2 DEF o
    <2>2. ops[k + 1] = o
      BY DEF o
    <2> QED BY <1>1, <1>3, <2>1, <2>2
  <1> HIDE DEF o, Made
  <1>5. CASE o.do = "create"
    <2>1. \A e : ~Removes(o, e)
      BY <1>5 DEF Removes
    <2>2. Alter(After(s, ops, k), o) = After(s, ops, k) \cup {o.on}
      BY <1>5 DEF Alter
    <2> QED BY <1>4, <1>5, <2>1, <2>2 DEF o
  <1>6. CASE o.do = "drop"
    <2>1. Alter(After(s, ops, k), o) = {e \in After(s, ops, k) : ~Removes(o, e)}
      BY <1>6 DEF Alter
    <2> QED BY <1>4, <1>6, <2>1 DEF o
  <1>7. CASE o.do \notin {"create", "drop"}
    <2>1. Alter(After(s, ops, k), o) = After(s, ops, k)
      BY <1>7 DEF Alter
    <2>2. \A e : ~Removes(o, e)
      BY <1>7 DEF Removes
    <2> QED BY <1>4, <1>7, <2>1, <2>2 DEF o
  <1> QED BY <1>5, <1>6, <1>7

(* A revision's schema is the one before it, upgraded.                     *)
LEMMA NextSchema ==
    ASSUME NEW v \in 1..Newest, NEW n \in Nat, DOMAIN Revisions[v].up = 1..n
    PROVE  SchemaAt[v] = After(SchemaAt[v - 1], Revisions[v].up, n)
  <1> DEFINE u == Revisions[v].up
             In(r, e) == \E w \in 1..r : \E i \in DOMAIN Revisions[w].up :
                            Lasts(w, i, r) /\ e = Revisions[w].up[i].on
  <1>1. v \in Nat /\ v - 1 \in 0..Newest /\ v \in 0..Newest
        /\ \A w : w \in 1..v <=> w \in 1..v - 1 \/ w = v
    BY TheRevisions
  <1>2. \A r \in 0..Newest : \A e : e \in SchemaAt[r] <=> In(r, e)
    BY DEF SchemaAt
  <1>3. ASSUME NEW w \in 1..v - 1, NEW i \in DOMAIN Revisions[w].up
        PROVE  Lasts(w, i, v) <=>
                  Lasts(w, i, v - 1) /\ \A j \in 1..n : ~Removes(u[j], Revisions[w].up[i].on)
    <2>1. /\ v \in w..v /\ v > w
          /\ \A x : x \in w..v <=> x \in w..v - 1 \/ x = v
      BY <1>1
    <2> QED BY <2>1 DEF Lasts
  <1>4. ASSUME NEW i \in 1..n
        PROVE  Lasts(v, i, v) <=>
                  /\ u[i].do = "create"
                  /\ \A j \in i + 1..n : ~Removes(u[j], u[i].on)
    <2>1. \A x : x \in v..v <=> x = v
      BY <1>1
    <2>2. ~(v > v) /\ \A j : j \in i + 1..n <=> j \in 1..n /\ j > i
      BY <1>1
    <2> QED BY <2>1, <2>2 DEF Lasts
  <1> HIDE DEF u
  <1>5. \A e : In(v, e) <=>
                  \/ In(v - 1, e) /\ \A j \in 1..n : ~Removes(u[j], e)
                  \/ \E i \in 1..n : /\ u[i].do = "create" /\ e = u[i].on
                                     /\ \A j \in i + 1..n : ~Removes(u[j], u[i].on)
    BY <1>1, <1>3, <1>4 DEF u
  <1>6. \A e : e \in After(SchemaAt[v - 1], u, n) <=>
                  \/ e \in SchemaAt[v - 1] /\ \A j \in 1..n : ~Removes(u[j], e)
                  \/ \E i \in 1..n : /\ u[i].do = "create" /\ e = u[i].on
                                     /\ \A j \in i + 1..n : ~Removes(u[j], u[i].on)
    BY DEF After
  <1> HIDE DEF In
  <1>7. \A e : e \in SchemaAt[v] <=> e \in After(SchemaAt[v - 1], u, n)
    BY <1>1, <1>2, <1>5, <1>6
  <1> QED BY <1>7 DEF u

(* Only additions.                                                         *)
LEMMA AfterAdditions ==
    ASSUME NEW s, NEW ops, NEW k \in Nat, \A i \in 1..k : ops[i].do = "create"
    PROVE  After(s, ops, k) = s \cup {ops[i].on : i \in 1..k}
  <1>1. \A i \in 1..k : \A e : ~Removes(ops[i], e)
    BY DEF Removes
  <1>2. \A i \in 1..k : \A j \in i + 1..k : j \in 1..k
    OBVIOUS
  <1> QED BY <1>1, <1>2 DEF After

LEMMA AfterDrops ==
    ASSUME NEW s, NEW ops, NEW k \in Nat, \A i \in 1..k : ops[i].do = "drop"
    PROVE  After(s, ops, k) = {e \in s : \A i \in 1..k : ~Removes(ops[i], e)}
  BY DEF After

(* The schema has nothing that taking an addition back would remove.       *)
Fresh(o, s) == \A e \in s : ~Removes(Undone(o), e)

Addition(o) == o.do = "create" /\ Undone(o).do = "drop" /\ Undone(o).on = o.on

(* The other schema is the one with all of them.                           *)
Gains(s, ops, n, t) ==
    /\ DOMAIN ops = 1..n /\ Len(ops) = n
    /\ \A i \in 1..n : Addition(ops[i]) /\ Fresh(ops[i], s)
    /\ \A e : e \in t <=> e \in s \/ \E i \in 1..n : e = ops[i].on

(* Additions are taken back by the list in reverse.                        *)
LEMMA AdditionsUndone ==
    ASSUME NEW s, NEW t, NEW ops, NEW n \in Nat, Gains(s, ops, n, t)
    PROVE  After(s, ops, n) = t /\ After(t, Reversible(ops).down, n) = s
  <1> DEFINE d == Reversible(ops).down
  <1>1. \A i \in 1..n : ops[i].do = "create"
    BY DEF Gains, Addition
  <1>2. \A j \in 1..n : d[j] = Undone(ops[n + 1 - j])
    <2>1. /\ Reversible(ops).up = ops
          /\ DOMAIN Reversible(ops).down = 1..n
          /\ \A j \in 1..n : Reversible(ops).down[j] = Undone(ops[n + 1 - j])
      <3>1. Len(ops) = n /\ DOMAIN ops = 1..n /\ n \in Nat
        BY DEF Gains
      <3> QED BY ONLY <3>1, Reversed
    <2> QED BY <2>1
  <1>3. After(s, ops, n) = t
    <2>1. After(s, ops, n) = s \cup {ops[i].on : i \in 1..n}
      BY <1>1, AfterAdditions
    <2>2. \A e : e \in s \cup {ops[i].on : i \in 1..n} <=> e \in t
      BY DEF Gains
    <2> QED BY ONLY <2>1, <2>2
  <1>4. \A j \in 1..n : n + 1 - j \in 1..n /\ n + 1 - (n + 1 - j) = j
    OBVIOUS
  <1>5. \A i \in 1..n : Undone(ops[i]).do = "drop" /\ Undone(ops[i]).on = ops[i].on
    BY DEF Gains, Addition
  <1> HIDE DEF d
  <1>6. After(t, d, n) = {e \in t : \A j \in 1..n : ~Removes(d[j], e)}
    <2>1. \A j \in 1..n : d[j].do = "drop"
      BY <1>2, <1>4, <1>5
    <2> QED BY <2>1, AfterDrops
  <1>7. \A e : (\A j \in 1..n : ~Removes(d[j], e)) <=> (\A i \in 1..n : ~Removes(Undone(ops[i]), e))
    BY <1>2, <1>4
  <1>8. \A i \in 1..n : Removes(Undone(ops[i]), ops[i].on)
    BY <1>5 DEF Removes
  <1>9. \A e \in s : \A i \in 1..n : ~Removes(Undone(ops[i]), e)
    BY DEF Gains, Fresh
  <1>10. \A e : e \in After(t, d, n) <=> e \in s
    <2>1. \A e \in t : e \in s \/ \E i \in 1..n : e = ops[i].on
      BY DEF Gains
    <2>2. \A e \in s : e \in t
      BY DEF Gains
    <2>3. \A e : e \in After(t, d, n) <=> e \in t /\ \A i \in 1..n : ~Removes(Undone(ops[i]), e)
      BY <1>6, <1>7
    <2>4. ASSUME NEW e, e \in s PROVE e \in After(t, d, n)
      BY <1>9, <2>2, <2>3, <2>4
    <2>5. ASSUME NEW e, e \in After(t, d, n) PROVE e \in s
      BY <1>8, <2>1, <2>3, <2>5
    <2> QED BY <2>4, <2>5
  <1>11. After(t, d, n) = s
    <2>1. After(t, d, n) = {e \in t : \A j \in 1..n : ~Removes(d[j], e)}
      BY <1>6
    <2> HIDE DEF After
    <2> QED BY ONLY <1>10
  <1> QED BY <1>3, <1>11 DEF d
(* The database takes an operation: what it creates is not there but its   *)
(* table is; what it drops is there and is no column of an index.          *)
IndexedColumns == {"label", "model", "sha256", "owner_id", "download_id"}

Applies(o, s) ==
    /\ o.do = "create" => o.on \notin s /\ (o.on[2] = "*" \/ <<o.on[1], "*">> \in s)
    /\ o.do = "drop" => o.on \in s /\ o.on[2] \notin IndexedColumns

Smooth(s, ops) == \A k \in DOMAIN ops : Applies(ops[k], After(s, ops, k - 1))

(* No two additions are of the same thing, and a table comes first.        *)
InOrder(s, ops, n) ==
    /\ \A i, j \in 1..n : ops[i].on = ops[j].on => i = j
    /\ \A i \in 1..n : \/ ops[i].on[2] = "*"
                      \/ <<ops[i].on[1], "*">> \in s
                      \/ \E j \in 1..i - 1 : ops[j].on = <<ops[i].on[1], "*">>

LEMMA AdditionsSmooth ==
    ASSUME NEW s, NEW t, NEW ops, NEW n \in Nat, Gains(s, ops, n, t), InOrder(s, ops, n)
    PROVE  Smooth(s, ops)
  <1>1. DOMAIN ops = 1..n /\ \A i \in 1..n : Addition(ops[i]) /\ Fresh(ops[i], s)
    BY DEF Gains
  <1> SUFFICES ASSUME NEW k \in 1..n PROVE Applies(ops[k], After(s, ops, k - 1))
    BY <1>1 DEF Smooth
  <1>2. k - 1 \in Nat /\ \A i \in 1..k - 1 : i \in 1..n /\ i # k
    OBVIOUS
  <1>3. After(s, ops, k - 1) = s \cup {ops[i].on : i \in 1..k - 1}
    <2>1. \A i \in 1..k - 1 : ops[i].do = "create"
      BY <1>1, <1>2 DEF Addition
    <2> QED BY <1>2, <2>1, AfterAdditions
  <1>4. ops[k].do = "create" /\ ops[k].on \notin s
    <2>1. Undone(ops[k]).do = "drop" /\ Undone(ops[k]).on = ops[k].on /\ ops[k].do = "create"
      BY <1>1 DEF Addition
    <2>2. Removes(Undone(ops[k]), ops[k].on)
      BY <2>1 DEF Removes
    <2> QED BY <1>1, <2>1, <2>2 DEF Fresh
  <1>5. \A i \in 1..k - 1 : ops[i].on # ops[k].on
    BY <1>2 DEF InOrder
  <1>6. \/ ops[k].on[2] = "*" \/ <<ops[k].on[1], "*">> \in s
        \/ \E j \in 1..k - 1 : ops[j].on = <<ops[k].on[1], "*">>
    BY DEF InOrder
  <1> HIDE DEF After
  <1> QED BY <1>3, <1>4, <1>5, <1>6 DEF Applies

-----------------------------------------------------------------------------
(* Upgrades and downgrades undo each other.                                *)

(* Only the first operation of an upgrade refuses, and a downgrade does    *)
(* nothing but create and drop.                                            *)
Refusing == {"require blobs", "refuse shared"}

RefusesFirst(rev) ==
    /\ \A i \in DOMAIN rev.up : rev.up[i].do \in Refusing => i = 1
    /\ \A i \in DOMAIN rev.down : rev.down[i].do \in {"create", "drop"}

(* A migration goes from one schema to the other without being rejected,   *)
(* and back.                                                               *)
Reverses(rev, s, t) ==
    /\ RefusesFirst(rev)
    /\ \E n, m \in Nat :
          /\ DOMAIN rev.up = 1..n /\ After(s, rev.up, n) = t
          /\ DOMAIN rev.down = 1..m /\ After(t, rev.down, m) = s
    /\ Smooth(s, rev.up)

LEMMA OpKinds ==
    \A t, c : /\ Create(t, c).do = "create" /\ Drop(t, c).do = "drop" /\ Do(c).do = c
              /\ Create(t, c).do \notin Refusing /\ Drop(t, c).do \notin Refusing
  BY DEF Create, Drop, Do, Refusing

LEMMA AdditionsNeverRefuse ==
    ASSUME NEW ops, NEW n \in Nat, Len(ops) = n, DOMAIN ops = 1..n,
           \A i \in 1..n : Addition(ops[i])
    PROVE  RefusesFirst(Reversible(ops))
  <1>1. /\ Reversible(ops).up = ops /\ DOMAIN Reversible(ops).down = 1..n
        /\ \A j \in 1..n : Reversible(ops).down[j] = Undone(ops[n + 1 - j])
    <2>1. n \in Nat /\ Len(ops) = n /\ DOMAIN ops = 1..n
      OBVIOUS
    <2> QED BY ONLY <2>1, Reversed
  <1>2. \A j \in 1..n : n + 1 - j \in 1..n
    OBVIOUS
  <1>3. \A i \in 1..n : ops[i].do = "create" /\ Undone(ops[i]).do = "drop"
    BY DEF Addition
  <1>4. \A i \in 1..n : Reversible(ops).up[i].do \notin Refusing
    BY <1>1, <1>3 DEF Refusing
  <1>5. \A j \in 1..n : Reversible(ops).down[j].do = "drop"
    BY <1>1, <1>2, <1>3
  <1>6. DOMAIN Reversible(ops).up = 1..n
    BY <1>1
  <1> QED BY ONLY <1>1, <1>4, <1>5, <1>6 DEF RefusesFirst

Named(t, names) == {<<t, c>> : c \in names}

LEMMA FreshThings ==
    \A t, c, s : /\ c # "*" /\ <<t, c>> \notin s => Fresh(Create(t, c), s)
                 /\ (\A e \in s : e[1] # t) => Fresh(Create(t, c), s)
  <1>1. \A t, c, e : Removes(Undone(Create(t, c)), e) => <<t, c>> = e \/ (c = "*" /\ e[1] = t)
    BY DEF Removes, Undone, Create
  <1>2. \A t, c, e : e = <<t, c>> => e[1] = t
    OBVIOUS
  <1> QED BY <1>1, <1>2 DEF Fresh

(* Different names, of a table that is there or comes first.               *)
Lays(s, t, names, n) ==
    /\ \A i, j \in 1..n : names[i] = names[j] => i = j
    /\ <<t, "*">> \in s \/ names[1] = "*"

LEMMA AddsNames ==
    ASSUME NEW s, NEW t, NEW names, NEW n \in Nat, Len(names) = n, DOMAIN names = 1..n,
           Lays(s, t, names, n),
           \A i \in 1..n : Fresh(Create(t, names[i]), s),
           NEW new, \A c : c \in new <=> \E i \in 1..n : names[i] = c
    PROVE  Reverses(Reversible(Adding(t, names)), s, s \cup Named(t, new))
  <1> DEFINE ops == Adding(t, names)
  <1>1. Len(ops) = n /\ DOMAIN ops = 1..n /\ \A i \in 1..n : ops[i] = Create(t, names[i])
    BY DEF Adding
  <1> HIDE DEF ops
  <1>2. \A i \in 1..n : Addition(ops[i]) /\ ops[i].on = <<t, names[i]>>
    BY <1>1 DEF Create, Addition, Undone
  <1>3. \A i \in 1..n : Addition(ops[i]) /\ Fresh(ops[i], s)
    BY <1>1, <1>2
  <1> DEFINE after == s \cup Named(t, new)
  <1>4. \A e : e \in after <=> e \in s \/ \E c \in new : e = <<t, c>>
    BY DEF Named
  <1> HIDE DEF after
  <1>5. Gains(s, ops, n, after)
    <2>1. \A e : (\E c \in new : e = <<t, c>>) <=> (\E i \in 1..n : e = <<t, names[i]>>)
      OBVIOUS
    <2>2. \A e : e \in after <=> e \in s \/ \E i \in 1..n : e = ops[i].on
      <3>1. \A i \in 1..n : ops[i].on = <<t, names[i]>>
        BY <1>2
      <3>2. \A e : (\E i \in 1..n : e = <<t, names[i]>>) <=> (\E i \in 1..n : e = ops[i].on)
        BY ONLY <3>1
      <3> QED BY ONLY <1>4, <2>1, <3>2
    <2> QED BY <1>1, <1>3, <2>2 DEF Gains
  <1>6. After(s, ops, n) = after /\ After(after, Reversible(ops).down, n) = s
    BY <1>5, AdditionsUndone
  <1>7. DOMAIN Reversible(ops).down = 1..n /\ Reversible(ops).up = ops
    <2>1. n \in Nat /\ Len(ops) = n /\ DOMAIN ops = 1..n
      BY <1>1
    <2> QED BY ONLY <2>1, Reversed
  <1>8. RefusesFirst(Reversible(ops))
    <2>1. n \in Nat /\ Len(ops) = n /\ DOMAIN ops = 1..n
      BY <1>1
    <2> QED BY ONLY <2>1, <1>3, AdditionsNeverRefuse
  <1>9. Smooth(s, ops)
    <2>1. \A i \in 1..n : ops[i].on = <<t, names[i]>>
      BY <1>2
    <2>2. \A i, j \in 1..n : ops[i].on = ops[j].on => i = j
      BY <2>1 DEF Lays
    <2>3. \A i \in 1..n : ops[i].on[1] = t /\ ops[i].on[2] = names[i]
      BY <2>1
    <2>4. ASSUME NEW i \in 1..n
          PROVE  \/ ops[i].on[2] = "*" \/ <<ops[i].on[1], "*">> \in s
                 \/ \E j \in 1..i - 1 : ops[j].on = <<ops[i].on[1], "*">>
      <3>1. CASE i = 1
        BY <2>3, <3>1 DEF Lays
      <3>2. CASE i # 1
        <4>1. 1 \in 1..i - 1 /\ 1 \in 1..n
          BY <3>2
        <4>2. names[1] = "*" => ops[1].on = <<t, "*">>
          BY <2>1, <4>1
        <4> QED BY <2>3, <4>1, <4>2 DEF Lays
      <3> QED BY <3>1, <3>2
    <2>5. InOrder(s, ops, n)
      BY ONLY <2>2, <2>4 DEF InOrder
    <2> QED BY <1>5, <2>5, AdditionsSmooth
  <1> QED BY <1>1, <1>6, <1>7, <1>8, <1>9 DEF Reverses, ops, after

LEMMA AddsOne ==
    ASSUME NEW s, NEW t, NEW a, <<t, "*">> \in s, Fresh(Create(t, a), s)
    PROVE  Reverses(Reversible(Adding(t, <<a>>)), s, s \cup Named(t, {a}))
  <1> DEFINE names == <<a>>
  <1>1. Len(names) = 1 /\ DOMAIN names = 1..1 /\ names[1] = a /\ 1 \in Nat /\ \A i \in 1..1 : i = 1
    OBVIOUS
  <1> HIDE DEF names
  <1>2. \A i \in 1..1 : Fresh(Create(t, names[i]), s)
    BY <1>1
  <1>3. Lays(s, t, names, 1)
    BY <1>1 DEF Lays
  <1> DEFINE new == {a}
  <1>4. \A c : c \in new <=> \E i \in 1..1 : names[i] = c
    BY <1>1
  <1> HIDE DEF new
  <1>5. Reverses(Reversible(Adding(t, names)), s, s \cup Named(t, new))
    BY <1>1, <1>2, <1>3, <1>4, AddsNames
  <1> QED BY <1>5 DEF names, new

LEMMA AddsTwo ==
    ASSUME NEW s, NEW t, NEW a, NEW b, a # b, <<t, "*">> \in s \/ a = "*",
           Fresh(Create(t, a), s), Fresh(Create(t, b), s)
    PROVE  Reverses(Reversible(Adding(t, <<a, b>>)), s, s \cup Named(t, {a, b}))
  <1> DEFINE names == <<a, b>>
  <1>1. /\ Len(names) = 2 /\ DOMAIN names = 1..2 /\ names[1] = a /\ names[2] = b /\ 2 \in Nat
        /\ \A i : i \in 1..2 <=> i = 1 \/ i = 2
    OBVIOUS
  <1> HIDE DEF names
  <1>2. \A i \in 1..2 : Fresh(Create(t, names[i]), s)
    BY <1>1
  <1>3. Lays(s, t, names, 2)
    BY <1>1 DEF Lays
  <1> DEFINE new == {a, b}
  <1>4. \A c : c \in new <=> \E i \in 1..2 : names[i] = c
    BY <1>1
  <1> HIDE DEF new
  <1>5. Reverses(Reversible(Adding(t, names)), s, s \cup Named(t, new))
    BY <1>1, <1>2, <1>3, <1>4, AddsNames
  <1> QED BY <1>5 DEF names, new

LEMMA AddsThree ==
    ASSUME NEW s, NEW t, NEW a, NEW b, NEW c, a # b, a # c, b # c, <<t, "*">> \in s,
           Fresh(Create(t, a), s), Fresh(Create(t, b), s), Fresh(Create(t, c), s)
    PROVE  Reverses(Reversible(Adding(t, <<a, b, c>>)), s, s \cup Named(t, {a, b, c}))
  <1> DEFINE names == <<a, b, c>>
  <1>1. /\ Len(names) = 3 /\ DOMAIN names = 1..3 /\ 3 \in Nat
        /\ names[1] = a /\ names[2] = b /\ names[3] = c
        /\ \A i : i \in 1..3 <=> i = 1 \/ i = 2 \/ i = 3
    OBVIOUS
  <1> HIDE DEF names
  <1>2. \A i \in 1..3 : Fresh(Create(t, names[i]), s)
    BY <1>1
  <1>3. Lays(s, t, names, 3)
    BY <1>1 DEF Lays
  <1> DEFINE new == {a, b, c}
  <1>4. \A x : x \in new <=> \E i \in 1..3 : names[i] = x
    BY <1>1
  <1> HIDE DEF new
  <1>5. Reverses(Reversible(Adding(t, names)), s, s \cup Named(t, new))
    BY <1>1, <1>2, <1>3, <1>4, AddsNames
  <1> QED BY <1>5 DEF names, new

-----------------------------------------------------------------------------
(* The revisions, one by one.                                              *)

(* What each revision of the database has, table by table.                 *)
From(v, r, names) == IF v >= r THEN names ELSE {}
Until(v, r, names) == IF v < r THEN names ELSE {}

FirmwareAt(v) ==
    From(v, 1, {"*", "ix_firmware_model"})
    \cup From(v, 3, Until(v, 12, {"uq_firmware_model_version"}))
    \cup From(v, 4, {"original_filename"})
    \cup From(v, 6, {"size_bytes", "notes"})
    \cup From(v, 7, {"active"})
    \cup From(v, 10, Until(v, 12, {"uq_firmware_model_sha256"}))
    \cup From(v, 12, {"owner_id", "download_id", "uq_firmware_download_id",
                      "uq_firmware_owner_model_version", "uq_firmware_owner_model_sha256",
                      "ix_firmware_owner_id"})

DevicesAt(v) ==
    From(v, 1, {"*", "ix_devices_device_id"})
    \cup From(v, 5, {"poll_interval_seconds", "rssi", "ip"})
    \cup From(v, 8, {"last_error", "failed_attempts"})
    \cup From(v, 12, {"owner_id", "ix_devices_owner_id"})
    \cup From(v, 13, {"secret_hash", "enabled", "registered_at"})

UsersAt(v) ==
    From(v, 2, {"*"})
    \cup From(v, 2, Until(v, 11, {"ix_users_username"}))
    \cup From(v, 11, {"ix_users_email"})
    \cup From(v, 14, {"public_key"})

EventsAt(v) == From(v, 9, {"*", "ix_device_events_device_id_id"})

TokensAt(v) == From(v, 11, {"*", "ix_refresh_tokens_user_id"})

Tables(f, d, u, e, r) ==
    Named("firmware", f) \cup Named("devices", d) \cup Named("users", u)
    \cup Named("device_events", e) \cup Named("refresh_tokens", r)

Stands(v) == Tables(FirmwareAt(v), DevicesAt(v), UsersAt(v), EventsAt(v), TokensAt(v))

LEMMA InNamed == \A t, a, c, names : <<t, c>> \in Named(a, names) <=> t = a /\ c \in names
  BY DEF Named

LEMMA InTables ==
    \A f, d, u, e, r :
        /\ \A c : /\ <<"firmware", c>> \in Tables(f, d, u, e, r) <=> c \in f
                  /\ <<"devices", c>> \in Tables(f, d, u, e, r) <=> c \in d
                  /\ <<"users", c>> \in Tables(f, d, u, e, r) <=> c \in u
                  /\ <<"device_events", c>> \in Tables(f, d, u, e, r) <=> c \in e
                  /\ <<"refresh_tokens", c>> \in Tables(f, d, u, e, r) <=> c \in r
  BY InNamed DEF Tables

(* A table that is not there has nothing.                                  *)
LEMMA NoTable ==
    ASSUME NEW f, NEW d, NEW u, NEW e, NEW r
    PROVE  /\ \A p \in Tables(f, d, {}, e, r) : p[1] # "users"
           /\ \A p \in Tables(f, d, u, {}, r) : p[1] # "device_events"
           /\ \A p \in Tables(f, d, u, e, {}) : p[1] # "refresh_tokens"
  BY DEF Tables, Named

LEMMA InStands ==
    \A v, c : /\ <<"firmware", c>> \in Stands(v) <=> c \in FirmwareAt(v)
              /\ <<"devices", c>> \in Stands(v) <=> c \in DevicesAt(v)
              /\ <<"users", c>> \in Stands(v) <=> c \in UsersAt(v)
              /\ <<"device_events", c>> \in Stands(v) <=> c \in EventsAt(v)
              /\ <<"refresh_tokens", c>> \in Stands(v) <=> c \in TokensAt(v)
  BY InTables DEF Stands

(* One table gains names and the others stay as they are.                  *)
Grows(a, new, b) == b = a \cup new /\ a \cap new = {}

LEMMA NamedGrows == \A t, a, new, b : Grows(a, new, b) => Named(t, b) = Named(t, a) \cup Named(t, new)
  BY DEF Grows, Named

LEMMA StandsGrow ==
    ASSUME NEW v, NEW w, NEW new, TokensAt(v) = TokensAt(w)
    PROVE  /\ Grows(FirmwareAt(w), new, FirmwareAt(v)) /\ DevicesAt(v) = DevicesAt(w)
              /\ UsersAt(v) = UsersAt(w) /\ EventsAt(v) = EventsAt(w)
              => Stands(v) = Stands(w) \cup Named("firmware", new)
           /\ Grows(DevicesAt(w), new, DevicesAt(v)) /\ FirmwareAt(v) = FirmwareAt(w)
              /\ UsersAt(v) = UsersAt(w) /\ EventsAt(v) = EventsAt(w)
              => Stands(v) = Stands(w) \cup Named("devices", new)
           /\ Grows(UsersAt(w), new, UsersAt(v)) /\ FirmwareAt(v) = FirmwareAt(w)
              /\ DevicesAt(v) = DevicesAt(w) /\ EventsAt(v) = EventsAt(w)
              => Stands(v) = Stands(w) \cup Named("users", new)
           /\ Grows(EventsAt(w), new, EventsAt(v)) /\ FirmwareAt(v) = FirmwareAt(w)
              /\ DevicesAt(v) = DevicesAt(w) /\ UsersAt(v) = UsersAt(w)
              => Stands(v) = Stands(w) \cup Named("device_events", new)
  BY NamedGrows DEF Stands, Tables

LEMMA SecondInverse == Reverses(Users, Stands(1), Stands(2))
  <1> DEFINE new == {"*", "ix_users_username"}
  <1>1. Grows(UsersAt(1), new, UsersAt(2))
    BY DEF UsersAt, From, Until, Grows
  <1>2. /\ FirmwareAt(2) = FirmwareAt(1) /\ DevicesAt(2) = DevicesAt(1)
        /\ EventsAt(2) = EventsAt(1) /\ TokensAt(2) = TokensAt(1)
    BY DEF FirmwareAt, DevicesAt, EventsAt, TokensAt, From, Until
  <1>3. UsersAt(1) = {}
    BY DEF UsersAt, From, Until
  <1>4. \A p \in Stands(1) : p[1] # "users"
    BY <1>3, NoTable DEF Stands
  <1>5. Fresh(Create("users", "*"), Stands(1)) /\ Fresh(Create("users", "ix_users_username"), Stands(1))
    BY <1>4, FreshThings
  <1>6. Reverses(Users, Stands(1), Stands(1) \cup Named("users", new))
    BY <1>5, AddsTwo DEF Users
  <1> HIDE DEF new
  <1>7. Stands(2) = Stands(1) \cup Named("users", new)
    BY <1>1, <1>2, StandsGrow
  <1> QED BY <1>6, <1>7

LEMMA FourthInverse == Reverses(OriginalFilename, Stands(3), Stands(4))
  <1> DEFINE new == {"original_filename"}
  <1>1. Grows(FirmwareAt(3), new, FirmwareAt(4))
    BY DEF FirmwareAt, From, Until, Grows
  <1>2. /\ DevicesAt(4) = DevicesAt(3) /\ UsersAt(4) = UsersAt(3)
        /\ EventsAt(4) = EventsAt(3) /\ TokensAt(4) = TokensAt(3)
    BY DEF DevicesAt, UsersAt, EventsAt, TokensAt, From, Until
  <1>3. \A c \in new : c # "*"
    OBVIOUS
  <1>4. \A c \in new : <<"firmware", c>> \notin Stands(3)
    BY <1>1, InStands DEF Grows
  <1>5. \A c \in new : Fresh(Create("firmware", c), Stands(3))
    BY <1>3, <1>4, FreshThings
  <1>6. <<"firmware", "*">> \in Stands(3)
    <2>1. "*" \in FirmwareAt(3)
      BY DEF FirmwareAt, From, Until
    <2> QED BY <2>1, InStands
  <1>7. Reverses(OriginalFilename, Stands(3), Stands(3) \cup Named("firmware", new))
    BY <1>5, <1>6, AddsOne DEF OriginalFilename
  <1> HIDE DEF new
  <1>8. Stands(4) = Stands(3) \cup Named("firmware", new)
    BY <1>1, <1>2, StandsGrow
  <1> QED BY <1>7, <1>8

LEMMA FifthInverse == Reverses(DeviceCheckin, Stands(4), Stands(5))
  <1> DEFINE new == {"poll_interval_seconds", "rssi", "ip"}
  <1>1. Grows(DevicesAt(4), new, DevicesAt(5))
    BY DEF DevicesAt, From, Until, Grows
  <1>2. /\ FirmwareAt(5) = FirmwareAt(4) /\ UsersAt(5) = UsersAt(4)
        /\ EventsAt(5) = EventsAt(4) /\ TokensAt(5) = TokensAt(4)
    BY DEF FirmwareAt, UsersAt, EventsAt, TokensAt, From, Until
  <1>3. \A c \in new : c # "*"
    OBVIOUS
  <1>4. \A c \in new : <<"devices", c>> \notin Stands(4)
    BY <1>1, InStands DEF Grows
  <1>5. \A c \in new : Fresh(Create("devices", c), Stands(4))
    BY <1>3, <1>4, FreshThings
  <1>6. <<"devices", "*">> \in Stands(4)
    <2>1. "*" \in DevicesAt(4)
      BY DEF DevicesAt, From, Until
    <2> QED BY <2>1, InStands
  <1>7. Reverses(DeviceCheckin, Stands(4), Stands(4) \cup Named("devices", new))
    BY <1>5, <1>6, AddsThree DEF DeviceCheckin
  <1> HIDE DEF new
  <1>8. Stands(5) = Stands(4) \cup Named("devices", new)
    BY <1>1, <1>2, StandsGrow
  <1> QED BY <1>7, <1>8

LEMMA SeventhInverse == Reverses(FirmwareActive, Stands(6), Stands(7))
  <1> DEFINE new == {"active"}
  <1>1. Grows(FirmwareAt(6), new, FirmwareAt(7))
    BY DEF FirmwareAt, From, Until, Grows
  <1>2. /\ DevicesAt(7) = DevicesAt(6) /\ UsersAt(7) = UsersAt(6)
        /\ EventsAt(7) = EventsAt(6) /\ TokensAt(7) = TokensAt(6)
    BY DEF DevicesAt, UsersAt, EventsAt, TokensAt, From, Until
  <1>3. \A c \in new : c # "*"
    OBVIOUS
  <1>4. \A c \in new : <<"firmware", c>> \notin Stands(6)
    BY <1>1, InStands DEF Grows
  <1>5. \A c \in new : Fresh(Create("firmware", c), Stands(6))
    BY <1>3, <1>4, FreshThings
  <1>6. <<"firmware", "*">> \in Stands(6)
    <2>1. "*" \in FirmwareAt(6)
      BY DEF FirmwareAt, From, Until
    <2> QED BY <2>1, InStands
  <1>7. Reverses(FirmwareActive, Stands(6), Stands(6) \cup Named("firmware", new))
    BY <1>5, <1>6, AddsOne DEF FirmwareActive
  <1> HIDE DEF new
  <1>8. Stands(7) = Stands(6) \cup Named("firmware", new)
    BY <1>1, <1>2, StandsGrow
  <1> QED BY <1>7, <1>8

LEMMA EighthInverse == Reverses(DeviceLastError, Stands(7), Stands(8))
  <1> DEFINE new == {"last_error", "failed_attempts"}
  <1>1. Grows(DevicesAt(7), new, DevicesAt(8))
    BY DEF DevicesAt, From, Until, Grows
  <1>2. /\ FirmwareAt(8) = FirmwareAt(7) /\ UsersAt(8) = UsersAt(7)
        /\ EventsAt(8) = EventsAt(7) /\ TokensAt(8) = TokensAt(7)
    BY DEF FirmwareAt, UsersAt, EventsAt, TokensAt, From, Until
  <1>3. \A c \in new : c # "*"
    OBVIOUS
  <1>4. \A c \in new : <<"devices", c>> \notin Stands(7)
    BY <1>1, InStands DEF Grows
  <1>5. \A c \in new : Fresh(Create("devices", c), Stands(7))
    BY <1>3, <1>4, FreshThings
  <1>6. <<"devices", "*">> \in Stands(7)
    <2>1. "*" \in DevicesAt(7)
      BY DEF DevicesAt, From, Until
    <2> QED BY <2>1, InStands
  <1>7. Reverses(DeviceLastError, Stands(7), Stands(7) \cup Named("devices", new))
    BY <1>5, <1>6, AddsTwo DEF DeviceLastError
  <1> HIDE DEF new
  <1>8. Stands(8) = Stands(7) \cup Named("devices", new)
    BY <1>1, <1>2, StandsGrow
  <1> QED BY <1>7, <1>8

LEMMA NinthInverse == Reverses(DeviceEvents, Stands(8), Stands(9))
  <1> DEFINE new == {"*", "ix_device_events_device_id_id"}
  <1>1. Grows(EventsAt(8), new, EventsAt(9))
    BY DEF EventsAt, From, Until, Grows
  <1>2. /\ FirmwareAt(9) = FirmwareAt(8) /\ DevicesAt(9) = DevicesAt(8)
        /\ UsersAt(9) = UsersAt(8) /\ TokensAt(9) = TokensAt(8)
    BY DEF FirmwareAt, DevicesAt, UsersAt, TokensAt, From, Until
  <1>3. EventsAt(8) = {}
    BY DEF EventsAt, From, Until
  <1>4. \A p \in Stands(8) : p[1] # "device_events"
    BY <1>3, NoTable DEF Stands
  <1>5. /\ Fresh(Create("device_events", "*"), Stands(8))
        /\ Fresh(Create("device_events", "ix_device_events_device_id_id"), Stands(8))
    BY <1>4, FreshThings
  <1>6. Reverses(DeviceEvents, Stands(8), Stands(8) \cup Named("device_events", new))
    BY <1>5, AddsTwo DEF DeviceEvents
  <1> HIDE DEF new
  <1>7. Stands(9) = Stands(8) \cup Named("device_events", new)
    BY <1>1, <1>2, StandsGrow
  <1> QED BY <1>6, <1>7

LEMMA ThirteenthInverse == Reverses(DeviceRegistration, Stands(12), Stands(13))
  <1> DEFINE new == {"secret_hash", "enabled", "registered_at"}
  <1>1. Grows(DevicesAt(12), new, DevicesAt(13))
    BY DEF DevicesAt, From, Until, Grows
  <1>2. /\ FirmwareAt(13) = FirmwareAt(12) /\ UsersAt(13) = UsersAt(12)
        /\ EventsAt(13) = EventsAt(12) /\ TokensAt(13) = TokensAt(12)
    BY DEF FirmwareAt, UsersAt, EventsAt, TokensAt, From, Until
  <1>3. \A c \in new : c # "*"
    OBVIOUS
  <1>4. \A c \in new : <<"devices", c>> \notin Stands(12)
    BY <1>1, InStands DEF Grows
  <1>5. \A c \in new : Fresh(Create("devices", c), Stands(12))
    BY <1>3, <1>4, FreshThings
  <1>6. <<"devices", "*">> \in Stands(12)
    <2>1. "*" \in DevicesAt(12)
      BY DEF DevicesAt, From, Until
    <2> QED BY <2>1, InStands
  <1>7. Reverses(DeviceRegistration, Stands(12), Stands(12) \cup Named("devices", new))
    BY <1>5, <1>6, AddsThree DEF DeviceRegistration
  <1> HIDE DEF new
  <1>8. Stands(13) = Stands(12) \cup Named("devices", new)
    BY <1>1, <1>2, StandsGrow
  <1> QED BY <1>7, <1>8

LEMMA FourteenthInverse == Reverses(AccountPublicKey, Stands(13), Stands(14))
  <1> DEFINE new == {"public_key"}
  <1>1. Grows(UsersAt(13), new, UsersAt(14))
    BY DEF UsersAt, From, Until, Grows
  <1>2. /\ FirmwareAt(14) = FirmwareAt(13) /\ DevicesAt(14) = DevicesAt(13)
        /\ EventsAt(14) = EventsAt(13) /\ TokensAt(14) = TokensAt(13)
    BY DEF FirmwareAt, DevicesAt, EventsAt, TokensAt, From, Until
  <1>3. \A c \in new : c # "*"
    OBVIOUS
  <1>4. \A c \in new : <<"users", c>> \notin Stands(13)
    BY <1>1, InStands DEF Grows
  <1>5. \A c \in new : Fresh(Create("users", c), Stands(13))
    BY <1>3, <1>4, FreshThings
  <1>6. <<"users", "*">> \in Stands(13)
    <2>1. "*" \in UsersAt(13)
      BY DEF UsersAt, From, Until
    <2> QED BY <2>1, InStands
  <1>7. Reverses(AccountPublicKey, Stands(13), Stands(13) \cup Named("users", new))
    BY <1>5, <1>6, AddsOne DEF AccountPublicKey
  <1> HIDE DEF new
  <1>8. Stands(14) = Stands(13) \cup Named("users", new)
    BY <1>1, <1>2, StandsGrow
  <1> QED BY <1>7, <1>8

LEMMA AfterOp ==
    \A s, ops : \A j, k \in Nat : k = j + 1 => After(s, ops, k) = Alter(After(s, ops, j), ops[k])
  BY AfterOne

LEMMA AlterThings ==
    \A s, t, c : /\ Alter(s, Create(t, c)) = s \cup {<<t, c>>}
                 /\ c # "*" => Alter(s, Drop(t, c)) = s \ {<<t, c>>}
                 /\ Alter(s, Drop(t, "*")) = {e \in s : e[1] # t}
  <1> SUFFICES ASSUME NEW s, NEW t, NEW c
               PROVE  /\ Alter(s, Create(t, c)) = s \cup {<<t, c>>}
                      /\ c # "*" => Alter(s, Drop(t, c)) = s \ {<<t, c>>}
                      /\ Alter(s, Drop(t, "*")) = {e \in s : e[1] # t}
    OBVIOUS
  <1>1. Alter(s, Create(t, c)) = s \cup {<<t, c>>}
    BY DEF Alter, Create
  <1>2. \A o : o.do = "drop" => Alter(s, o) = {e \in s : ~Removes(o, e)}
    BY DEF Alter
  <1>3. \A a : Drop(t, a).do = "drop" /\ Drop(t, a).on = <<t, a>>
    BY DEF Drop
  <1>4. \A a, e : Removes(Drop(t, a), e) <=> e = <<t, a>> \/ (a = "*" /\ e[1] = t)
    BY <1>3 DEF Removes
  <1>5. ASSUME c # "*" PROVE Alter(s, Drop(t, c)) = s \ {<<t, c>>}
    <2>1. \A e : Removes(Drop(t, c), e) <=> e = <<t, c>>
      BY <1>4, <1>5
    <2> QED BY <1>2, <1>3, <2>1
  <1>6. Alter(s, Drop(t, "*")) = {e \in s : e[1] # t}
    <2>1. \A e : Removes(Drop(t, "*"), e) <=> e[1] = t
      BY <1>4
    <2> QED BY <1>2, <1>3, <2>1
  <1> QED BY <1>1, <1>5, <1>6

LEMMA AlterDo == \A s, what : what \notin {"create", "drop"} => Alter(s, Do(what)) = s
  BY DEF Alter, Do

LEMMA ApplyThings ==
    \A s, t, c : /\ <<t, c>> \notin s /\ (c = "*" \/ <<t, "*">> \in s) => Applies(Create(t, c), s)
                 /\ <<t, c>> \in s /\ c \notin IndexedColumns => Applies(Drop(t, c), s)
                 /\ c \notin {"create", "drop"} => Applies(Do(c), s)
  BY DEF Applies, Create, Drop, Do

LEMMA FirstInverse == Reverses(Initial, Stands(0), Stands(1))
  <1> DEFINE ops == Adding("firmware", <<"*", "ix_firmware_model">>)
                    \o Adding("devices", <<"*", "ix_devices_device_id">>)
  <1>1. /\ Len(ops) = 4 /\ DOMAIN ops = 1..4
        /\ ops[1] = Create("firmware", "*") /\ ops[2] = Create("firmware", "ix_firmware_model")
        /\ ops[3] = Create("devices", "*") /\ ops[4] = Create("devices", "ix_devices_device_id")
    BY DEF Adding
  <1>2. Initial = Reversible(ops)
    BY DEF Initial
  <1> HIDE DEF ops
  <1>3. \A i : i \in 1..4 <=> i \in {1, 2, 3, 4}
    OBVIOUS
  <1>4. \A t, c : Addition(Create(t, c)) /\ Create(t, c).on = <<t, c>>
    BY DEF Addition, Create, Undone
  <1>5. Stands(0) = {}
    BY DEF Stands, Tables, Named, FirmwareAt, DevicesAt, UsersAt, EventsAt, TokensAt, From, Until
  <1>6. Stands(1) = Named("firmware", {"*", "ix_firmware_model"})
                    \cup Named("devices", {"*", "ix_devices_device_id"})
    <2>1. /\ FirmwareAt(1) = {"*", "ix_firmware_model"} /\ DevicesAt(1) = {"*", "ix_devices_device_id"}
          /\ UsersAt(1) = {} /\ EventsAt(1) = {} /\ TokensAt(1) = {}
      BY DEF FirmwareAt, DevicesAt, UsersAt, EventsAt, TokensAt, From, Until
    <2>2. \A t : Named(t, {}) = {}
      BY DEF Named
    <2> QED BY <2>1, <2>2 DEF Stands, Tables
  <1>7. \A e : e \in Stands(1) <=> \E i \in 1..4 : e = ops[i].on
    <2>1. \A e : e \in Stands(1) <=> e \in {<<"firmware", "*">>, <<"firmware", "ix_firmware_model">>,
                                            <<"devices", "*">>, <<"devices", "ix_devices_device_id">>}
      BY <1>6 DEF Named
    <2>2. /\ ops[1].on = <<"firmware", "*">> /\ ops[2].on = <<"firmware", "ix_firmware_model">>
          /\ ops[3].on = <<"devices", "*">> /\ ops[4].on = <<"devices", "ix_devices_device_id">>
      BY <1>1, <1>4
    <2>3. \A e : (\E i \in 1..4 : e = ops[i].on)
                 <=> e = ops[1].on \/ e = ops[2].on \/ e = ops[3].on \/ e = ops[4].on
      BY <1>3
    <2> QED BY <2>1, <2>2, <2>3
  <1>8. Gains(Stands(0), ops, 4, Stands(1))
    <2>1. \A i \in 1..4 : Addition(ops[i])
      BY <1>1, <1>3, <1>4
    <2>2. \A i \in 1..4 : Fresh(ops[i], {})
      BY DEF Fresh
    <2> QED BY <1>1, <1>5, <1>7, <2>1, <2>2 DEF Gains
  <1>9. After(Stands(0), ops, 4) = Stands(1) /\ After(Stands(1), Reversible(ops).down, 4) = Stands(0)
    BY <1>8, AdditionsUndone
  <1>10. DOMAIN Reversible(ops).down = 1..4 /\ Reversible(ops).up = ops
    <2>1. 4 \in Nat /\ Len(ops) = 4 /\ DOMAIN ops = 1..4
      BY <1>1
    <2> QED BY ONLY <2>1, Reversed
  <1>11. RefusesFirst(Initial)
    <2>1. 4 \in Nat /\ Len(ops) = 4 /\ DOMAIN ops = 1..4 /\ \A i \in 1..4 : Addition(ops[i])
      BY <1>1, <1>8 DEF Gains
    <2> QED BY <1>2, <2>1, AdditionsNeverRefuse
  <1>12. Smooth(Stands(0), ops)
    <2>1. /\ ops[1].on = <<"firmware", "*">> /\ ops[2].on = <<"firmware", "ix_firmware_model">>
          /\ ops[3].on = <<"devices", "*">> /\ ops[4].on = <<"devices", "ix_devices_device_id">>
      BY <1>1, <1>4
    <2>2. /\ ops[1].on[2] = "*" /\ ops[2].on[1] = "firmware"
          /\ ops[3].on[2] = "*" /\ ops[4].on[1] = "devices"
      BY <2>1
    <2>3. \A i, j \in 1..4 : ops[i].on = ops[j].on => i = j
      BY ONLY <1>3, <2>1
    <2>4. 1 \in 1..2 - 1 /\ 3 \in 1..4 - 1
      OBVIOUS
    <2>5. \A i \in 1..4 : \/ ops[i].on[2] = "*"
                          \/ \E j \in 1..i - 1 : ops[j].on = <<ops[i].on[1], "*">>
      BY ONLY <1>3, <2>1, <2>2, <2>4
    <2>6. InOrder(Stands(0), ops, 4)
      BY ONLY <2>3, <2>5 DEF InOrder
    <2>7. 4 \in Nat
      OBVIOUS
    <2> QED BY ONLY <1>8, <2>6, <2>7, AdditionsSmooth
  <1> QED BY <1>1, <1>2, <1>9, <1>10, <1>11, <1>12 DEF Reverses

(* An index that is created once the rows allow it.                        *)
LEMMA AddsIndex ==
    ASSUME NEW s, NEW what, NEW index, what \notin {"create", "drop"}, index # "*",
           <<"firmware", index>> \notin s, <<"firmware", "*">> \in s
    PROVE  Reverses([up |-> <<Do(what), Create("firmware", index)>>, down |-> <<Drop("firmware", index)>>],
                   s, s \cup Named("firmware", {index}))
  <1> DEFINE u == <<Do(what), Create("firmware", index)>>
             d == <<Drop("firmware", index)>>
             t == s \cup {<<"firmware", index>>}
  <1>1. /\ DOMAIN u = 1..2 /\ u[1] = Do(what) /\ u[2] = Create("firmware", index)
        /\ DOMAIN d = 1..1 /\ d[1] = Drop("firmware", index)
    OBVIOUS
  <1>2. s \cup Named("firmware", {index}) = t
    BY DEF Named
  <1> HIDE DEF u, d
  <1>3. After(s, u, 1) = s
    BY <1>1, AfterNone, AfterOp, AlterDo
  <1>4. After(s, u, 2) = t
    BY <1>1, <1>3, AfterOp, AlterThings
  <1>5. After(t, d, 1) = s
    <2>1. After(t, d, 1) = Alter(t, Drop("firmware", index))
      BY <1>1, AfterNone, AfterOp
    <2>2. Alter(t, Drop("firmware", index)) = t \ {<<"firmware", index>>}
      BY AlterThings
    <2> QED BY <2>1, <2>2
  <1>6. RefusesFirst([up |-> u, down |-> d])
    <2>1. \A i \in 1..2 : i = 1 \/ i = 2
      OBVIOUS
    <2>2. \A i \in 1..1 : i = 1
      OBVIOUS
    <2> QED BY <1>1, <2>1, <2>2, OpKinds DEF RefusesFirst
  <1>7. Smooth(s, u)
    <2>1. \A k \in 1..2 : k = 1 \/ k = 2
      OBVIOUS
    <2>2. Applies(u[1], After(s, u, 0))
      BY <1>1, ApplyThings
    <2>3. Applies(u[2], After(s, u, 1))
      BY <1>1, <1>3, ApplyThings
    <2> QED BY <1>1, <2>1, <2>2, <2>3 DEF Smooth
  <1>8. Reverses([up |-> u, down |-> d], s, t)
    BY <1>1, <1>4, <1>5, <1>6, <1>7 DEF Reverses
  <1> QED BY <1>2, <1>8 DEF u, d

LEMMA ThirdInverse == Reverses(UniqueFirmware, Stands(2), Stands(3))
  <1> DEFINE new == {"uq_firmware_model_version"}
  <1>1. Grows(FirmwareAt(2), new, FirmwareAt(3))
    BY DEF FirmwareAt, From, Until, Grows
  <1>2. /\ DevicesAt(3) = DevicesAt(2) /\ UsersAt(3) = UsersAt(2)
        /\ EventsAt(3) = EventsAt(2) /\ TokensAt(3) = TokensAt(2)
    BY DEF DevicesAt, UsersAt, EventsAt, TokensAt, From, Until
  <1>3. <<"firmware", "uq_firmware_model_version">> \notin Stands(2)
    BY <1>1, InStands DEF Grows
  <1>4. <<"firmware", "*">> \in Stands(2)
    <2>1. "*" \in FirmwareAt(2)
      BY DEF FirmwareAt, From, Until
    <2> QED BY <2>1, InStands
  <1>5. Reverses(UniqueFirmware, Stands(2), Stands(2) \cup Named("firmware", new))
    BY <1>3, <1>4, AddsIndex DEF UniqueFirmware
  <1> HIDE DEF new
  <1>6. Stands(3) = Stands(2) \cup Named("firmware", new)
    BY <1>1, <1>2, StandsGrow
  <1> QED BY <1>5, <1>6

LEMMA TenthInverse == Reverses(UniqueBinary, Stands(9), Stands(10))
  <1> DEFINE new == {"uq_firmware_model_sha256"}
  <1>1. Grows(FirmwareAt(9), new, FirmwareAt(10))
    BY DEF FirmwareAt, From, Until, Grows
  <1>2. /\ DevicesAt(10) = DevicesAt(9) /\ UsersAt(10) = UsersAt(9)
        /\ EventsAt(10) = EventsAt(9) /\ TokensAt(10) = TokensAt(9)
    BY DEF DevicesAt, UsersAt, EventsAt, TokensAt, From, Until
  <1>3. <<"firmware", "uq_firmware_model_sha256">> \notin Stands(9)
    BY <1>1, InStands DEF Grows
  <1>4. <<"firmware", "*">> \in Stands(9)
    <2>1. "*" \in FirmwareAt(9)
      BY DEF FirmwareAt, From, Until
    <2> QED BY <2>1, InStands
  <1>5. Reverses(UniqueBinary, Stands(9), Stands(9) \cup Named("firmware", new))
    BY <1>3, <1>4, AddsIndex DEF UniqueBinary
  <1> HIDE DEF new
  <1>6. Stands(10) = Stands(9) \cup Named("firmware", new)
    BY <1>1, <1>2, StandsGrow
  <1> QED BY <1>5, <1>6

LEMMA AfterSteps ==
    ASSUME NEW s, NEW ops
    PROVE  /\ After(s, ops, 1) = Alter(s, ops[1])
           /\ After(s, ops, 2) = Alter(After(s, ops, 1), ops[2])
           /\ After(s, ops, 3) = Alter(After(s, ops, 2), ops[3])
           /\ After(s, ops, 4) = Alter(After(s, ops, 3), ops[4])
           /\ After(s, ops, 5) = Alter(After(s, ops, 4), ops[5])
           /\ After(s, ops, 6) = Alter(After(s, ops, 5), ops[6])
           /\ After(s, ops, 7) = Alter(After(s, ops, 6), ops[7])
  <1>1. ASSUME NEW j \in Nat, NEW k \in Nat, k = j + 1
        PROVE  After(s, ops, k) = Alter(After(s, ops, j), ops[k])
    BY <1>1, AfterOne
  <1>2. After(s, ops, 0) = s
    BY AfterNone
  <1> HIDE DEF After, Alter
  <1> QED BY <1>1, <1>2

LEMMA SixthOps ==
    LET u == FirmwareSizeNotes.up
        d == FirmwareSizeNotes.down
    IN  /\ Len(u) = 7 /\ DOMAIN u = 1..7 /\ u[1] = Do("require blobs")
        /\ u[2] = Create("firmware", "size_bytes") /\ u[3] = Create("firmware", "notes")
        /\ u[4] = Do("fill sizes") /\ u[5] = Create("_alembic_tmp_firmware", "*")
        /\ u[6] = Do("copy rows") /\ u[7] = Drop("_alembic_tmp_firmware", "*")
        /\ DOMAIN d = 1..2 /\ d[1] = Drop("firmware", "notes") /\ d[2] = Drop("firmware", "size_bytes")
  <1> DEFINE u == FirmwareSizeNotes.up
             d == FirmwareSizeNotes.down
  <1>1. /\ Len(u) = 7 /\ DOMAIN u = 1..7 /\ u[1] = Do("require blobs")
        /\ u[2] = Create("firmware", "size_bytes") /\ u[3] = Create("firmware", "notes")
        /\ u[4] = Do("fill sizes")
    BY DEF FirmwareSizeNotes, BatchAlter
  <1>2. /\ u[5] = Create("_alembic_tmp_firmware", "*")
        /\ u[6] = Do("copy rows") /\ u[7] = Drop("_alembic_tmp_firmware", "*")
    <2> DEFINE s == <<Do("require blobs"), Create("firmware", "size_bytes"),
                      Create("firmware", "notes"), Do("fill sizes")>>
    <2>1. u = s \o BatchAlter
      BY DEF FirmwareSizeNotes
    <2>2. Len(s) = 4 /\ Len(BatchAlter) = 3
      BY DEF BatchAlter
    <2> DEFINE Ops == {s[1], s[2], s[3], s[4], BatchAlter[1], BatchAlter[2], BatchAlter[3]}
    <2>3. s \in Seq(Ops) /\ BatchAlter \in Seq(Ops)
      BY DEF BatchAlter
    <2> HIDE DEF u, s, Ops
    <2>4. ASSUME NEW k \in 1..3 PROVE u[4 + k] = BatchAlter[k]
      <3>1. k \in 1..Len(BatchAlter)
        BY <2>2
      <3>2. (s \o BatchAlter)[Len(s) + k] = BatchAlter[k]
        BY <2>3, <3>1, JoinAt
      <3> QED BY <2>1, <2>2, <3>2
    <2>5. u[5] = BatchAlter[1] /\ u[6] = BatchAlter[2] /\ u[7] = BatchAlter[3]
      BY <2>4
    <2> QED BY <2>5 DEF BatchAlter
  <1>3. /\ DOMAIN d = 1..2 /\ d[1] = Drop("firmware", "notes")
        /\ d[2] = Drop("firmware", "size_bytes")
    BY DEF FirmwareSizeNotes, Dropping
  <1> HIDE DEF u, d
  <1> QED BY <1>1, <1>2, <1>3 DEF u, d

LEMMA SixthInverse == Reverses(FirmwareSizeNotes, Stands(5), Stands(6))
  <1> DEFINE u == FirmwareSizeNotes.up
             d == FirmwareSizeNotes.down
             new == {"size_bytes", "notes"}
             s == Stands(5)
             t == Stands(6)
             tmp == "_alembic_tmp_firmware"
             size == <<"firmware", "size_bytes">>
             notes == <<"firmware", "notes">>
  <1>1. Grows(FirmwareAt(5), new, FirmwareAt(6))
    BY DEF FirmwareAt, From, Until, Grows
  <1>2. /\ DevicesAt(6) = DevicesAt(5) /\ UsersAt(6) = UsersAt(5)
        /\ EventsAt(6) = EventsAt(5) /\ TokensAt(6) = TokensAt(5)
    BY DEF DevicesAt, UsersAt, EventsAt, TokensAt, From, Until
  <1>3. size \notin s /\ notes \notin s /\ <<"firmware", "*">> \in s
    <2>1. "*" \in FirmwareAt(5)
      BY DEF FirmwareAt, From, Until
    <2> QED BY <1>1, <2>1, InStands DEF Grows
  <1>4. t = s \cup {size, notes}
    <2>1. Named("firmware", new) = {size, notes}
      BY DEF Named
    <2> HIDE DEF new
    <2>2. t = s \cup Named("firmware", new)
      BY <1>1, <1>2, StandsGrow
    <2> QED BY <2>1, <2>2
  <1>5. \A e \in t : e[1] # tmp
    BY DEF Stands, Tables, Named
  <1>6. /\ DOMAIN u = 1..7 /\ u[1] = Do("require blobs")
        /\ u[2] = Create("firmware", "size_bytes") /\ u[3] = Create("firmware", "notes")
        /\ u[4] = Do("fill sizes") /\ u[5] = Create(tmp, "*")
        /\ u[6] = Do("copy rows") /\ u[7] = Drop(tmp, "*")
        /\ DOMAIN d = 1..2 /\ d[1] = Drop("firmware", "notes") /\ d[2] = Drop("firmware", "size_bytes")
    BY SixthOps
  <1> HIDE DEF u, d, s, t
  <1>7. \A x : Alter(x, u[1]) = x /\ Alter(x, u[4]) = x /\ Alter(x, u[6]) = x
    <2>1. \A x : /\ Alter(x, Do("require blobs")) = x
                 /\ Alter(x, Do("fill sizes")) = x
                 /\ Alter(x, Do("copy rows")) = x
      BY AlterDo
    <2> QED BY ONLY <1>6, <2>1
  <1>8. \A x : /\ Alter(x, u[2]) = x \cup {size}
               /\ Alter(x, u[3]) = x \cup {notes}
               /\ Alter(x, u[5]) = x \cup {<<tmp, "*">>}
    <2>1. \A x : Alter(x, Create("firmware", "size_bytes")) = x \cup {size}
      BY AlterThings
    <2>2. \A x : Alter(x, Create("firmware", "notes")) = x \cup {notes}
      BY AlterThings
    <2>3. \A x : Alter(x, Create(tmp, "*")) = x \cup {<<tmp, "*">>}
      BY AlterThings
    <2> QED BY ONLY <1>6, <2>1, <2>2, <2>3
  <1>9. \A x : /\ Alter(x, u[7]) = {e \in x : e[1] # tmp}
               /\ Alter(x, d[1]) = x \ {notes}
               /\ Alter(x, d[2]) = x \ {size}
    <2>1. \A x : Alter(x, Drop(tmp, "*")) = {e \in x : e[1] # tmp}
      BY AlterThings
    <2>2. \A x : Alter(x, Drop("firmware", "notes")) = x \ {notes}
      BY AlterThings
    <2>3. \A x : Alter(x, Drop("firmware", "size_bytes")) = x \ {size}
      BY AlterThings
    <2> QED BY ONLY <1>6, <2>1, <2>2, <2>3
  <1>10. /\ After(s, u, 1) = Alter(s, u[1]) /\ After(s, u, 2) = Alter(After(s, u, 1), u[2])
         /\ After(s, u, 3) = Alter(After(s, u, 2), u[3]) /\ After(s, u, 4) = Alter(After(s, u, 3), u[4])
         /\ After(s, u, 5) = Alter(After(s, u, 4), u[5]) /\ After(s, u, 6) = Alter(After(s, u, 5), u[6])
         /\ After(s, u, 7) = Alter(After(s, u, 6), u[7])
         /\ After(t, d, 1) = Alter(t, d[1]) /\ After(t, d, 2) = Alter(After(t, d, 1), d[2])
    BY ONLY AfterSteps
  <1>11. After(s, u, 4) = t
    <2>1. After(s, u, 4) = (s \cup {size}) \cup {notes}
      BY <1>7, <1>8, <1>10
    <2> QED BY <1>4, <2>1
  <1>12. After(s, u, 6) = t \cup {<<tmp, "*">>}
    BY <1>7, <1>8, <1>10, <1>11
  <1>13. After(s, u, 7) = t
    <2>1. After(s, u, 7) = {e \in t \cup {<<tmp, "*">>} : e[1] # tmp}
      BY <1>9, <1>10, <1>12
    <2> QED BY <1>5, <2>1
  <1>14. Smooth(s, u)
    <2>1. \A k : k \in 1..7 <=> k \in {1, 2, 3, 4, 5, 6, 7}
      OBVIOUS
    <2>2. After(s, u, 1) = s /\ After(s, u, 2) = s \cup {size} /\ After(s, u, 6) = t \cup {<<tmp, "*">>}
      BY <1>7, <1>8, <1>10, <1>12
    <2>3. \A x : Applies(u[1], x) /\ Applies(u[4], x) /\ Applies(u[6], x)
      <3>1. \A x : /\ Applies(Do("require blobs"), x) /\ Applies(Do("fill sizes"), x)
                   /\ Applies(Do("copy rows"), x)
        BY ApplyThings
      <3> QED BY ONLY <1>6, <3>1
    <2>4. Applies(u[2], After(s, u, 1))
      <3>1. Applies(Create("firmware", "size_bytes"), s)
        BY <1>3, ApplyThings
      <3> QED BY ONLY <1>6, <2>2, <3>1
    <2>5. Applies(u[3], After(s, u, 2))
      <3>1. notes \notin s \cup {size} /\ <<"firmware", "*">> \in s \cup {size}
        BY <1>3
      <3>2. Applies(Create("firmware", "notes"), s \cup {size})
        BY <3>1, ApplyThings
      <3> QED BY ONLY <1>6, <2>2, <3>2
    <2>6. Applies(u[5], After(s, u, 4))
      <3>1. <<tmp, "*">> \notin t
        BY <1>5
      <3>2. Applies(Create(tmp, "*"), t)
        BY <3>1, ApplyThings
      <3> QED BY ONLY <1>6, <1>11, <3>2
    <2>7. Applies(u[7], After(s, u, 6))
      <3>1. "*" \notin IndexedColumns
        BY DEF IndexedColumns
      <3>2. Applies(Drop(tmp, "*"), t \cup {<<tmp, "*">>})
        BY <3>1, ApplyThings
      <3> QED BY ONLY <1>6, <2>2, <3>2
    <2>8. DOMAIN u = 1..7
      BY <1>6
    <2>9. /\ 1 - 1 = 0 /\ 2 - 1 = 1 /\ 3 - 1 = 2 /\ 4 - 1 = 3 /\ 5 - 1 = 4 /\ 6 - 1 = 5 /\ 7 - 1 = 6
      OBVIOUS
    <2> QED BY ONLY <2>1, <2>3, <2>4, <2>5, <2>6, <2>7, <2>8, <2>9 DEF Smooth
  <1>15. After(t, d, 2) = s
    <2>1. After(t, d, 2) = (t \ {notes}) \ {size}
      BY <1>9, <1>10
    <2> QED BY <1>3, <1>4, <2>1
  <1>16. RefusesFirst(FirmwareSizeNotes)
    <2>1. \A i : (i \in 1..7 <=> i \in {1, 2, 3, 4, 5, 6, 7}) /\ (i \in 1..2 <=> i \in {1, 2})
      OBVIOUS
    <2>2. u[2].do = "create" /\ u[3].do = "create" /\ u[5].do = "create"
      <3>1. /\ u[2] = Create("firmware", "size_bytes") /\ u[3] = Create("firmware", "notes")
            /\ u[5] = Create(tmp, "*")
        BY <1>6
      <3> QED BY ONLY <3>1, OpKinds
    <2>3. u[4].do = "fill sizes" /\ u[6].do = "copy rows"
      <3>1. u[4] = Do("fill sizes") /\ u[6] = Do("copy rows")
        BY <1>6
      <3> QED BY ONLY <3>1, OpKinds
    <2>4. u[7].do = "drop" /\ d[1].do = "drop" /\ d[2].do = "drop"
      <3>1. /\ u[7] = Drop(tmp, "*") /\ d[1] = Drop("firmware", "notes")
            /\ d[2] = Drop("firmware", "size_bytes")
        BY <1>6
      <3> QED BY ONLY <3>1, OpKinds
    <2>5. DOMAIN u = 1..7 /\ DOMAIN d = 1..2
      BY <1>6
    <2>6. \A i \in 1..7 : u[i].do \in Refusing => i = 1
      BY ONLY <2>1, <2>2, <2>3, <2>4 DEF Refusing
    <2>7. \A i \in 1..2 : d[i].do \in {"create", "drop"}
      BY ONLY <2>1, <2>4
    <2> QED BY ONLY <2>5, <2>6, <2>7 DEF RefusesFirst, u, d
  <1> QED BY <1>6, <1>13, <1>14, <1>15, <1>16 DEF Reverses, u, d, s, t

LEMMA EleventhOps ==
    LET u == EmailIdentity.up
        d == EmailIdentity.down
    IN  /\ DOMAIN u = 1..5 /\ u[1] = Drop("users", "*")
        /\ u[2] = Create("users", "*") /\ u[3] = Create("users", "ix_users_email")
        /\ u[4] = Create("refresh_tokens", "*")
        /\ u[5] = Create("refresh_tokens", "ix_refresh_tokens_user_id")
        /\ DOMAIN d = 1..4 /\ d[1] = Drop("refresh_tokens", "*") /\ d[2] = Drop("users", "*")
        /\ d[3] = Create("users", "*") /\ d[4] = Create("users", "ix_users_username")
  <1> DEFINE u == EmailIdentity.up
             d == EmailIdentity.down
  <1>1. /\ DOMAIN u = 1..5 /\ u[1] = Drop("users", "*")
        /\ u[2] = Create("users", "*") /\ u[3] = Create("users", "ix_users_email")
        /\ u[4] = Create("refresh_tokens", "*")
        /\ u[5] = Create("refresh_tokens", "ix_refresh_tokens_user_id")
    BY DEF EmailIdentity, Adding
  <1>2. /\ DOMAIN d = 1..4 /\ d[1] = Drop("refresh_tokens", "*") /\ d[2] = Drop("users", "*")
        /\ d[3] = Create("users", "*") /\ d[4] = Create("users", "ix_users_username")
    BY DEF EmailIdentity, Adding
  <1> HIDE DEF u, d
  <1> QED BY <1>1, <1>2 DEF u, d

(* Dropping the accounts or the tokens leaves the other tables.            *)
LEMMA DropTable ==
    ASSUME NEW f, NEW d, NEW u, NEW e, NEW r
    PROVE  /\ Alter(Tables(f, d, u, e, r), Drop("users", "*")) = Tables(f, d, {}, e, r)
           /\ Alter(Tables(f, d, u, e, r), Drop("refresh_tokens", "*")) = Tables(f, d, u, e, {})
  <1>1. \A t, x : Alter(x, Drop(t, "*")) = {p \in x : p[1] # t}
    BY AlterThings
  <1>2. /\ {p \in Tables(f, d, u, e, r) : p[1] # "users"} = Tables(f, d, {}, e, r)
        /\ {p \in Tables(f, d, u, e, r) : p[1] # "refresh_tokens"} = Tables(f, d, u, e, {})
    BY DEF Tables, Named
  <1> QED BY <1>1, <1>2

LEMMA CreateName ==
    ASSUME NEW f, NEW d, NEW u, NEW e, NEW r, NEW c
    PROVE  /\ Alter(Tables(f, d, u, e, r), Create("users", c)) = Tables(f, d, u \cup {c}, e, r)
           /\ Alter(Tables(f, d, u, e, r), Create("refresh_tokens", c)) = Tables(f, d, u, e, r \cup {c})
  <1>1. \A t, x : Alter(x, Create(t, c)) = x \cup {<<t, c>>}
    BY AlterThings
  <1>2. \A t, a : Named(t, a \cup {c}) = Named(t, a) \cup {<<t, c>>}
    BY DEF Named
  <1>3. /\ Tables(f, d, u, e, r) \cup {<<"users", c>>} = Tables(f, d, u \cup {c}, e, r)
        /\ Tables(f, d, u, e, r) \cup {<<"refresh_tokens", c>>} = Tables(f, d, u, e, r \cup {c})
    BY <1>2 DEF Tables
  <1> QED BY <1>1, <1>3

LEMMA EleventhInverse == Reverses(EmailIdentity, Stands(10), Stands(11))
  <1> DEFINE u == EmailIdentity.up
             d == EmailIdentity.down
             s == Stands(10)
             t == Stands(11)
             B(a, b) == Tables(FirmwareAt(10), DevicesAt(10), a, EventsAt(10), b)
  <1>1. /\ FirmwareAt(11) = FirmwareAt(10) /\ DevicesAt(11) = DevicesAt(10) /\ EventsAt(11) = EventsAt(10)
    BY DEF FirmwareAt, DevicesAt, EventsAt, From, Until
  <1>2. /\ UsersAt(10) = {"*", "ix_users_username"} /\ TokensAt(10) = {}
        /\ UsersAt(11) = {"*", "ix_users_email"} /\ TokensAt(11) = {"*", "ix_refresh_tokens_user_id"}
    BY DEF UsersAt, TokensAt, From, Until
  <1>3. /\ s = B({"*", "ix_users_username"}, {})
        /\ t = B({"*", "ix_users_email"}, {"*", "ix_refresh_tokens_user_id"})
    BY <1>1, <1>2 DEF Stands
  <1>4. /\ DOMAIN u = 1..5 /\ u[1] = Drop("users", "*")
        /\ u[2] = Create("users", "*") /\ u[3] = Create("users", "ix_users_email")
        /\ u[4] = Create("refresh_tokens", "*")
        /\ u[5] = Create("refresh_tokens", "ix_refresh_tokens_user_id")
        /\ DOMAIN d = 1..4 /\ d[1] = Drop("refresh_tokens", "*") /\ d[2] = Drop("users", "*")
        /\ d[3] = Create("users", "*") /\ d[4] = Create("users", "ix_users_username")
    BY EleventhOps
  <1>5. \A a, b, c : /\ Alter(B(a, b), Drop("users", "*")) = B({}, b)
                     /\ Alter(B(a, b), Drop("refresh_tokens", "*")) = B(a, {})
                     /\ Alter(B(a, b), Create("users", c)) = B(a \cup {c}, b)
                     /\ Alter(B(a, b), Create("refresh_tokens", c)) = B(a, b \cup {c})
    <2> SUFFICES ASSUME NEW a, NEW b, NEW c
                 PROVE  /\ Alter(B(a, b), Drop("users", "*")) = B({}, b)
                        /\ Alter(B(a, b), Drop("refresh_tokens", "*")) = B(a, {})
                        /\ Alter(B(a, b), Create("users", c)) = B(a \cup {c}, b)
                        /\ Alter(B(a, b), Create("refresh_tokens", c)) = B(a, b \cup {c})
      OBVIOUS
    <2>1. /\ Alter(B(a, b), Drop("users", "*")) = B({}, b)
          /\ Alter(B(a, b), Drop("refresh_tokens", "*")) = B(a, {})
      BY ONLY DropTable
    <2>2. /\ Alter(B(a, b), Create("users", c)) = B(a \cup {c}, b)
          /\ Alter(B(a, b), Create("refresh_tokens", c)) = B(a, b \cup {c})
      BY ONLY CreateName
    <2> QED BY <2>1, <2>2
  <1>6. \A a : {} \cup a = a
    OBVIOUS
  <1>7. \A x, y : {x} \cup {y} = {x, y}
    OBVIOUS
  <1>8. /\ <<"users", "*">> \in B({"*", "ix_users_username"}, {}) /\ <<"users", "*">> \notin B({}, {})
         /\ <<"users", "*">> \in B({"*"}, {}) /\ <<"users", "ix_users_email">> \notin B({"*"}, {})
         /\ <<"refresh_tokens", "*">> \notin B({"*", "ix_users_email"}, {})
         /\ <<"refresh_tokens", "*">> \in B({"*", "ix_users_email"}, {"*"})
         /\ <<"refresh_tokens", "ix_refresh_tokens_user_id">> \notin B({"*", "ix_users_email"}, {"*"})
    <2> DEFINE f == FirmwareAt(10)
               v == DevicesAt(10)
               e == EventsAt(10)
    <2> HIDE DEF f, v, e
    <2>1. \A a, b : B(a, b) = Tables(f, v, a, e, b)
      BY DEF f, v, e
    <2> HIDE DEF B
    <2>2. \A a, b, x : x \in B(a, b) <=> \/ x \in Named("users", a) \/ x \in Named("refresh_tokens", b)
                                         \/ x \in Named("firmware", f) \/ x \in Named("devices", v)
                                         \/ x \in Named("device_events", e)
      BY ONLY <2>1 DEF Tables
    <2>3. \A x : x[1] \in {"users", "refresh_tokens"} =>
              x \notin Named("firmware", f) /\ x \notin Named("devices", v)
              /\ x \notin Named("device_events", e)
      BY ONLY DEF Named
    <2>4. /\ <<"users", "*">> \in B({"*", "ix_users_username"}, {}) /\ <<"users", "*">> \notin B({}, {})
          /\ <<"users", "*">> \in B({"*"}, {}) /\ <<"users", "ix_users_email">> \notin B({"*"}, {})
      BY ONLY <2>2, <2>3 DEF Named
    <2>5. /\ <<"refresh_tokens", "*">> \notin B({"*", "ix_users_email"}, {})
          /\ <<"refresh_tokens", "*">> \in B({"*", "ix_users_email"}, {"*"})
          /\ <<"refresh_tokens", "ix_refresh_tokens_user_id">> \notin B({"*", "ix_users_email"}, {"*"})
      BY ONLY <2>2, <2>3 DEF Named
    <2> QED BY <2>4, <2>5
  <1> HIDE DEF u, d, s, t, B
  <1>9. /\ After(s, u, 1) = Alter(s, u[1]) /\ After(s, u, 2) = Alter(After(s, u, 1), u[2])
        /\ After(s, u, 3) = Alter(After(s, u, 2), u[3]) /\ After(s, u, 4) = Alter(After(s, u, 3), u[4])
        /\ After(s, u, 5) = Alter(After(s, u, 4), u[5])
        /\ After(t, d, 1) = Alter(t, d[1]) /\ After(t, d, 2) = Alter(After(t, d, 1), d[2])
        /\ After(t, d, 3) = Alter(After(t, d, 2), d[3]) /\ After(t, d, 4) = Alter(After(t, d, 3), d[4])
    BY ONLY AfterSteps
  <1>10. /\ After(s, u, 1) = B({}, {}) /\ After(s, u, 2) = B({"*"}, {})
        /\ After(s, u, 3) = B({"*", "ix_users_email"}, {})
        /\ After(s, u, 4) = B({"*", "ix_users_email"}, {"*"})
    <2>1. After(s, u, 1) = B({}, {})
      BY <1>3, <1>4, <1>5, <1>9
    <2>2. After(s, u, 2) = B({"*"}, {})
      BY <1>4, <1>5, <1>6, <1>9, <2>1
    <2>3. After(s, u, 3) = B({"*", "ix_users_email"}, {})
      BY <1>4, <1>5, <1>7, <1>9, <2>2
    <2>4. After(s, u, 4) = B({"*", "ix_users_email"}, {"*"})
      BY <1>4, <1>5, <1>6, <1>9, <2>3
    <2> QED BY <2>1, <2>2, <2>3, <2>4
  <1>11. After(s, u, 5) = t
    BY <1>3, <1>4, <1>5, <1>7, <1>9, <1>10
  <1>12. After(t, d, 4) = s
    <2>1. After(t, d, 1) = B({"*", "ix_users_email"}, {})
      BY <1>3, <1>4, <1>5, <1>9
    <2>2. After(t, d, 2) = B({}, {})
      BY <1>4, <1>5, <1>9, <2>1
    <2>3. After(t, d, 3) = B({"*"}, {})
      BY <1>4, <1>5, <1>6, <1>9, <2>2
    <2> QED BY <1>3, <1>4, <1>5, <1>7, <1>9, <2>3
  <1>13. RefusesFirst(EmailIdentity)
    <2>1. \A i : (i \in 1..5 <=> i \in {1, 2, 3, 4, 5}) /\ (i \in 1..4 <=> i \in {1, 2, 3, 4})
      OBVIOUS
    <2>2. u[1].do = "drop" /\ u[2].do = "create" /\ u[3].do = "create"
      BY ONLY <1>4, OpKinds
    <2>3. u[4].do = "create" /\ u[5].do = "create"
      BY ONLY <1>4, OpKinds
    <2>4. d[1].do = "drop" /\ d[2].do = "drop" /\ d[3].do = "create" /\ d[4].do = "create"
      BY ONLY <1>4, OpKinds
    <2>5. DOMAIN u = 1..5 /\ DOMAIN d = 1..4
      BY <1>4
    <2>6. \A i \in 1..5 : u[i].do \notin Refusing
      BY ONLY <2>1, <2>2, <2>3 DEF Refusing
    <2>7. \A i \in 1..4 : d[i].do \in {"create", "drop"}
      BY ONLY <2>1, <2>4
    <2> QED BY ONLY <2>5, <2>6, <2>7 DEF RefusesFirst, u, d
  <1>14. Smooth(s, u)
    <2>1. \A k : k \in 1..5 <=> k \in {1, 2, 3, 4, 5}
      OBVIOUS
    <2>2. Applies(u[1], s)
      <3>1. <<"users", "*">> \in s /\ "*" \notin IndexedColumns
        BY <1>3, <1>8 DEF IndexedColumns
      <3>2. Applies(Drop("users", "*"), s)
        BY <3>1, ApplyThings
      <3> QED BY ONLY <1>4, <3>2
    <2>3. Applies(u[2], After(s, u, 1))
      <3>1. Applies(Create("users", "*"), B({}, {}))
        BY <1>8, ApplyThings
      <3> QED BY ONLY <1>4, <1>10, <3>1
    <2>4. Applies(u[3], After(s, u, 2))
      <3>1. <<"users", "ix_users_email">> \notin B({"*"}, {}) /\ <<"users", "*">> \in B({"*"}, {})
        BY <1>8
      <3>2. Applies(Create("users", "ix_users_email"), B({"*"}, {}))
        BY <3>1, ApplyThings
      <3> QED BY ONLY <1>4, <1>10, <3>2
    <2>5. Applies(u[4], After(s, u, 3))
      <3>1. <<"refresh_tokens", "*">> \notin B({"*", "ix_users_email"}, {})
        BY <1>8
      <3>2. Applies(Create("refresh_tokens", "*"), B({"*", "ix_users_email"}, {}))
        BY <3>1, ApplyThings
      <3> QED BY ONLY <1>4, <1>10, <3>2
    <2>6. Applies(u[5], After(s, u, 4))
      <3>1. Applies(Create("refresh_tokens", "ix_refresh_tokens_user_id"), B({"*", "ix_users_email"}, {"*"}))
        BY <1>8, ApplyThings
      <3> QED BY ONLY <1>4, <1>10, <3>1
    <2>7. DOMAIN u = 1..5
      BY <1>4
    <2>8. 1 - 1 = 0 /\ 2 - 1 = 1 /\ 3 - 1 = 2 /\ 4 - 1 = 3 /\ 5 - 1 = 4
      OBVIOUS
    <2> QED BY ONLY <2>1, <2>2, <2>3, <2>4, <2>5, <2>6, <2>7, <2>8, AfterNone DEF Smooth
  <1> QED BY <1>4, <1>11, <1>12, <1>13, <1>14 DEF Reverses, u, d, s, t

Gives(o, e) == o.do = "create" /\ o.on = e

(* A list that drops the one and creates the other, in whatever order.     *)
Exchanges(ops, n, old, new) ==
    /\ DOMAIN ops = 1..n
    /\ \A e : (\E j \in 1..n : Removes(ops[j], e)) <=> e \in old
    /\ \A e : (\E i \in 1..n : Gives(ops[i], e)) <=> e \in new
    /\ old \cap new = {}

LEMMA AfterExchange ==
    ASSUME NEW ops, NEW n \in Nat, NEW old, NEW new, NEW s, Exchanges(ops, n, old, new)
    PROVE  After(s, ops, n) = (s \ old) \cup new
  <1>1. \A i \in 1..n : ops[i].do = "create" => ops[i].on \in new
    BY DEF Exchanges, Gives
  <1>2. \A e \in new : \A j \in 1..n : ~Removes(ops[j], e)
    BY DEF Exchanges
  <1>3. \A i \in 1..n : \A j \in i + 1..n : j \in 1..n
    OBVIOUS
  <1>4. \A e : (\A j \in 1..n : ~Removes(ops[j], e)) <=> e \notin old
    BY DEF Exchanges
  <1>5. \A e : e \in new <=> \E i \in 1..n : ops[i].do = "create" /\ ops[i].on = e
    BY DEF Exchanges, Gives
  <1>6. \A e : e \in After(s, ops, n) <=>
                   \/ e \in s /\ \A j \in 1..n : ~Removes(ops[j], e)
                   \/ \E i \in 1..n : /\ ops[i].do = "create" /\ ops[i].on = e
                                      /\ \A j \in i + 1..n : ~Removes(ops[j], ops[i].on)
    BY DEF After
  <1>7. \A i \in 1..n : ops[i].do = "create" => \A j \in i + 1..n : ~Removes(ops[j], ops[i].on)
    BY <1>1, <1>2, <1>3
  <1>8. \A e : e \in After(s, ops, n) <=> (e \in s /\ e \notin old) \/ e \in new
    BY ONLY <1>4, <1>5, <1>6, <1>7
  <1> QED BY ONLY <1>8

LEMMA OpThings ==
    \A t, c, e : /\ Gives(Create(t, c), e) <=> e = <<t, c>>
                 /\ ~Removes(Create(t, c), e)
                 /\ c # "*" => (Removes(Drop(t, c), e) <=> e = <<t, c>>)
                 /\ ~Gives(Drop(t, c), e)
                 /\ c \notin {"create", "drop"} => ~Gives(Do(c), e) /\ ~Removes(Do(c), e)
  BY DEF Gives, Removes, Create, Drop, Do

LEMMA TwelfthOps ==
    LET u == OwnerScoping.up
        d == OwnerScoping.down
    IN  /\ Len(u) = 13 /\ DOMAIN u = 1..13
        /\ u[1] = Do("find first owner") /\ u[2] = Create("firmware", "owner_id")
        /\ u[3] = Create("firmware", "download_id") /\ u[4] = Create("devices", "owner_id")
        /\ u[5] = Do("assign owner") /\ u[6] = Do("fill links")
        /\ u[7] = Create("firmware", "uq_firmware_download_id")
        /\ u[8] = Drop("firmware", "uq_firmware_model_version")
        /\ u[9] = Drop("firmware", "uq_firmware_model_sha256")
        /\ u[10] = Create("firmware", "uq_firmware_owner_model_version")
        /\ u[11] = Create("firmware", "uq_firmware_owner_model_sha256")
        /\ u[12] = Create("firmware", "ix_firmware_owner_id")
        /\ u[13] = Create("devices", "ix_devices_owner_id")
        /\ DOMAIN d = 1..10
        /\ d[1] = Drop("devices", "ix_devices_owner_id")
        /\ d[2] = Drop("firmware", "ix_firmware_owner_id")
        /\ d[3] = Drop("firmware", "uq_firmware_owner_model_sha256")
        /\ d[4] = Drop("firmware", "uq_firmware_owner_model_version")
        /\ d[5] = Create("firmware", "uq_firmware_model_version")
        /\ d[6] = Create("firmware", "uq_firmware_model_sha256")
        /\ d[7] = Drop("firmware", "uq_firmware_download_id")
        /\ d[8] = Drop("devices", "owner_id")
        /\ d[9] = Drop("firmware", "download_id")
        /\ d[10] = Drop("firmware", "owner_id")
  <1> DEFINE u == OwnerScoping.up
             d == OwnerScoping.down
  <1>1. /\ Len(u) = 13 /\ DOMAIN u = 1..13
        /\ u[1] = Do("find first owner") /\ u[2] = Create("firmware", "owner_id")
        /\ u[3] = Create("firmware", "download_id") /\ u[4] = Create("devices", "owner_id")
        /\ u[5] = Do("assign owner") /\ u[6] = Do("fill links")
        /\ u[7] = Create("firmware", "uq_firmware_download_id")
    BY DEF OwnerScoping, Dropping, Adding
  <1>2. /\ u[8] = Drop("firmware", "uq_firmware_model_version")
        /\ u[9] = Drop("firmware", "uq_firmware_model_sha256")
        /\ u[10] = Create("firmware", "uq_firmware_owner_model_version")
        /\ u[11] = Create("firmware", "uq_firmware_owner_model_sha256")
        /\ u[12] = Create("firmware", "ix_firmware_owner_id")
        /\ u[13] = Create("devices", "ix_devices_owner_id")
    BY DEF OwnerScoping, Dropping, Adding
  <1>3. /\ DOMAIN d = 1..10
        /\ d[1] = Drop("devices", "ix_devices_owner_id")
        /\ d[2] = Drop("firmware", "ix_firmware_owner_id")
        /\ d[3] = Drop("firmware", "uq_firmware_owner_model_sha256")
        /\ d[4] = Drop("firmware", "uq_firmware_owner_model_version")
        /\ d[5] = Create("firmware", "uq_firmware_model_version")
    BY DEF OwnerScoping, Dropping, Adding
  <1>4. /\ d[6] = Create("firmware", "uq_firmware_model_sha256")
        /\ d[7] = Drop("firmware", "uq_firmware_download_id")
        /\ d[8] = Drop("devices", "owner_id")
        /\ d[9] = Drop("firmware", "download_id")
        /\ d[10] = Drop("firmware", "owner_id")
    BY DEF OwnerScoping, Dropping, Adding
  <1> HIDE DEF u, d
  <1> QED BY <1>1, <1>2, <1>3, <1>4 DEF u, d

(* What the upgrade to 0012 has done after each of its operations.         *)
LEMMA TwelfthSmooth ==
    ASSUME NEW s, <<"firmware", "*">> \in s, <<"devices", "*">> \in s,
           <<"firmware", "uq_firmware_model_version">> \in s,
           <<"firmware", "uq_firmware_model_sha256">> \in s,
           <<"firmware", "owner_id">> \notin s, <<"firmware", "download_id">> \notin s,
           <<"devices", "owner_id">> \notin s, <<"firmware", "uq_firmware_download_id">> \notin s,
           <<"firmware", "uq_firmware_owner_model_version">> \notin s,
           <<"firmware", "uq_firmware_owner_model_sha256">> \notin s,
           <<"firmware", "ix_firmware_owner_id">> \notin s,
           <<"devices", "ix_devices_owner_id">> \notin s
    PROVE  Smooth(s, OwnerScoping.up)
  <1> DEFINE u == OwnerScoping.up
             a2 == s \cup {<<"firmware", "owner_id">>}
             a3 == a2 \cup {<<"firmware", "download_id">>}
             a4 == a3 \cup {<<"devices", "owner_id">>}
             a7 == a4 \cup {<<"firmware", "uq_firmware_download_id">>}
             a8 == a7 \ {<<"firmware", "uq_firmware_model_version">>}
             a9 == a8 \ {<<"firmware", "uq_firmware_model_sha256">>}
             a10 == a9 \cup {<<"firmware", "uq_firmware_owner_model_version">>}
             a11 == a10 \cup {<<"firmware", "uq_firmware_owner_model_sha256">>}
             a12 == a11 \cup {<<"firmware", "ix_firmware_owner_id">>}
  <1>1. /\ u[1] = Do("find first owner") /\ u[5] = Do("assign owner") /\ u[6] = Do("fill links")
        /\ DOMAIN u = 1..13
    BY TwelfthOps
  <1>2. /\ u[2] = Create("firmware", "owner_id") /\ u[3] = Create("firmware", "download_id")
        /\ u[4] = Create("devices", "owner_id") /\ u[7] = Create("firmware", "uq_firmware_download_id")
    BY TwelfthOps
  <1>3. /\ u[8] = Drop("firmware", "uq_firmware_model_version")
        /\ u[9] = Drop("firmware", "uq_firmware_model_sha256")
    BY TwelfthOps
  <1>4. /\ u[10] = Create("firmware", "uq_firmware_owner_model_version")
        /\ u[11] = Create("firmware", "uq_firmware_owner_model_sha256")
        /\ u[12] = Create("firmware", "ix_firmware_owner_id")
        /\ u[13] = Create("devices", "ix_devices_owner_id")
    BY TwelfthOps
  <1> HIDE DEF u
  <1>5. \A x : Alter(x, u[1]) = x /\ Alter(x, u[5]) = x /\ Alter(x, u[6]) = x
    <2>1. \A x : /\ Alter(x, Do("find first owner")) = x
                 /\ Alter(x, Do("assign owner")) = x
                 /\ Alter(x, Do("fill links")) = x
      BY AlterDo
    <2> QED BY ONLY <1>1, <2>1
  <1>6. /\ Alter(s, u[2]) = a2 /\ Alter(a2, u[3]) = a3 /\ Alter(a3, u[4]) = a4
        /\ Alter(a4, u[7]) = a7
    <2>1. \A x, t, c : Alter(x, Create(t, c)) = x \cup {<<t, c>>}
      BY AlterThings
    <2> QED BY ONLY <1>2, <2>1
  <1>7. Alter(a7, u[8]) = a8 /\ Alter(a8, u[9]) = a9
    <2>1. \A x, t, c : c # "*" => Alter(x, Drop(t, c)) = x \ {<<t, c>>}
      BY AlterThings
    <2>2. "uq_firmware_model_version" # "*" /\ "uq_firmware_model_sha256" # "*"
      OBVIOUS
    <2> QED BY ONLY <1>3, <2>1, <2>2
  <1>8. Alter(a9, u[10]) = a10 /\ Alter(a10, u[11]) = a11 /\ Alter(a11, u[12]) = a12
    <2>1. \A x, t, c : Alter(x, Create(t, c)) = x \cup {<<t, c>>}
      BY AlterThings
    <2> QED BY ONLY <1>4, <2>1
  <1>9. \A x : Applies(u[1], x) /\ Applies(u[5], x) /\ Applies(u[6], x)
    <2>1. \A x : /\ Applies(Do("find first owner"), x) /\ Applies(Do("assign owner"), x)
                 /\ Applies(Do("fill links"), x)
      BY ApplyThings
    <2> QED BY ONLY <1>1, <2>1
  <1>10. Applies(u[2], s)
    <2>1. <<"firmware", "owner_id">> \notin s /\ <<"firmware", "*">> \in s
      OBVIOUS
    <2>2. Applies(Create("firmware", "owner_id"), s)
      BY <2>1, ApplyThings
    <2> QED BY ONLY <1>2, <2>2
  <1>11. Applies(u[3], a2)
    <2>1. <<"firmware", "download_id">> \notin a2 /\ <<"firmware", "*">> \in a2
      OBVIOUS
    <2>2. Applies(Create("firmware", "download_id"), a2)
      BY <2>1, ApplyThings
    <2> QED BY ONLY <1>2, <2>2
  <1>12. Applies(u[4], a3)
    <2>1. <<"devices", "owner_id">> \notin a3 /\ <<"devices", "*">> \in a3
      OBVIOUS
    <2>2. Applies(Create("devices", "owner_id"), a3)
      BY <2>1, ApplyThings
    <2> QED BY ONLY <1>2, <2>2
  <1>13. Applies(u[7], a4)
    <2>1. <<"firmware", "uq_firmware_download_id">> \notin a4 /\ <<"firmware", "*">> \in a4
      OBVIOUS
    <2>2. Applies(Create("firmware", "uq_firmware_download_id"), a4)
      BY <2>1, ApplyThings
    <2> QED BY ONLY <1>2, <2>2
  <1>14. Applies(u[8], a7)
    <2>1. <<"firmware", "uq_firmware_model_version">> \in a7 /\ "uq_firmware_model_version" \notin IndexedColumns
      BY DEF IndexedColumns
    <2>2. Applies(Drop("firmware", "uq_firmware_model_version"), a7)
      BY <2>1, ApplyThings
    <2> QED BY ONLY <1>3, <2>2
  <1>15. Applies(u[9], a8)
    <2>1. <<"firmware", "uq_firmware_model_sha256">> \in a8 /\ "uq_firmware_model_sha256" \notin IndexedColumns
      BY DEF IndexedColumns
    <2>2. Applies(Drop("firmware", "uq_firmware_model_sha256"), a8)
      BY <2>1, ApplyThings
    <2> QED BY ONLY <1>3, <2>2
  <1>16. Applies(u[10], a9)
    <2>1. <<"firmware", "uq_firmware_owner_model_version">> \notin a9 /\ <<"firmware", "*">> \in a9
      OBVIOUS
    <2>2. Applies(Create("firmware", "uq_firmware_owner_model_version"), a9)
      BY <2>1, ApplyThings
    <2> QED BY ONLY <1>4, <2>2
  <1>17. Applies(u[11], a10)
    <2>1. <<"firmware", "uq_firmware_owner_model_sha256">> \notin a10 /\ <<"firmware", "*">> \in a10
      OBVIOUS
    <2>2. Applies(Create("firmware", "uq_firmware_owner_model_sha256"), a10)
      BY <2>1, ApplyThings
    <2> QED BY ONLY <1>4, <2>2
  <1>18. Applies(u[12], a11)
    <2>1. <<"firmware", "ix_firmware_owner_id">> \notin a11 /\ <<"firmware", "*">> \in a11
      OBVIOUS
    <2>2. Applies(Create("firmware", "ix_firmware_owner_id"), a11)
      BY <2>1, ApplyThings
    <2> QED BY ONLY <1>4, <2>2
  <1>19. Applies(u[13], a12)
    <2>1. <<"devices", "ix_devices_owner_id">> \notin a12 /\ <<"devices", "*">> \in a12
      OBVIOUS
    <2>2. Applies(Create("devices", "ix_devices_owner_id"), a12)
      BY <2>1, ApplyThings
    <2> QED BY ONLY <1>4, <2>2
  <1> HIDE DEF a2, a3, a4, a7, a8, a9, a10, a11, a12
  <1>20. /\ After(s, u, 0) = s /\ After(s, u, 1) = s /\ After(s, u, 2) = a2 /\ After(s, u, 3) = a3
         /\ After(s, u, 4) = a4 /\ After(s, u, 5) = a4 /\ After(s, u, 6) = a4 /\ After(s, u, 7) = a7
    BY ONLY <1>5, <1>6, AfterNone, AfterSteps
  <1>21. /\ After(s, u, 8) = a8 /\ After(s, u, 9) = a9 /\ After(s, u, 10) = a10
         /\ After(s, u, 11) = a11 /\ After(s, u, 12) = a12
    <2>1. ASSUME NEW j \in Nat, NEW k \in Nat, k = j + 1
          PROVE  After(s, u, k) = Alter(After(s, u, j), u[k])
      BY <2>1, AfterOne
    <2>2. /\ After(s, u, 8) = Alter(After(s, u, 7), u[8]) /\ After(s, u, 9) = Alter(After(s, u, 8), u[9])
          /\ After(s, u, 10) = Alter(After(s, u, 9), u[10])
          /\ After(s, u, 11) = Alter(After(s, u, 10), u[11])
          /\ After(s, u, 12) = Alter(After(s, u, 11), u[12])
      BY ONLY <2>1
    <2> QED BY ONLY <1>7, <1>8, <1>20, <2>2
  <1>22. \A k \in 1..7 : Applies(u[k], After(s, u, k - 1))
    <2>1. \A k \in 1..7 : k \in {1, 2, 3, 4, 5, 6, 7}
      OBVIOUS
    <2>2. 1 - 1 = 0 /\ 2 - 1 = 1 /\ 3 - 1 = 2 /\ 4 - 1 = 3 /\ 5 - 1 = 4 /\ 6 - 1 = 5 /\ 7 - 1 = 6
      OBVIOUS
    <2> QED BY ONLY <1>9, <1>10, <1>11, <1>12, <1>13, <1>20, <2>1, <2>2
  <1>23. \A k \in 8..13 : Applies(u[k], After(s, u, k - 1))
    <2>1. \A k \in 8..13 : k \in {8, 9, 10, 11, 12, 13}
      OBVIOUS
    <2>2. 8 - 1 = 7 /\ 9 - 1 = 8 /\ 10 - 1 = 9 /\ 11 - 1 = 10 /\ 12 - 1 = 11 /\ 13 - 1 = 12
      OBVIOUS
    <2> QED BY ONLY <1>14, <1>15, <1>16, <1>17, <1>18, <1>19,
               <1>20, <1>21, <2>1, <2>2
  <1>24. \A k \in 1..13 : k \in 1..7 \/ k \in 8..13
    OBVIOUS
  <1> QED BY ONLY <1>1, <1>22, <1>23, <1>24 DEF Smooth, u

LEMMA TwelfthInverse == Reverses(OwnerScoping, Stands(11), Stands(12))
  <1> DEFINE u == OwnerScoping.up
             d == OwnerScoping.down
             s == Stands(11)
             t == Stands(12)
             fw == "firmware"
             label == <<"firmware", "uq_firmware_model_version">>
             binary == <<"firmware", "uq_firmware_model_sha256">>
             common == {label, binary}
             owned == {<<"firmware", "owner_id">>, <<"firmware", "download_id">>,
                       <<"devices", "owner_id">>, <<"firmware", "uq_firmware_download_id">>,
                       <<"firmware", "uq_firmware_owner_model_version">>,
                       <<"firmware", "uq_firmware_owner_model_sha256">>,
                       <<"firmware", "ix_firmware_owner_id">>, <<"devices", "ix_devices_owner_id">>}
  <1>1. common \cap owned = {}
    OBVIOUS
  <1>2. Exchanges(u, 13, common, owned)
    <2>1. /\ DOMAIN u = 1..13
          /\ u[1] = Do("find first owner") /\ u[5] = Do("assign owner") /\ u[6] = Do("fill links")
      BY TwelfthOps
    <2>2. /\ u[2] = Create("firmware", "owner_id") /\ u[3] = Create("firmware", "download_id")
          /\ u[4] = Create("devices", "owner_id") /\ u[7] = Create("firmware", "uq_firmware_download_id")
      BY TwelfthOps
    <2>3. /\ u[8] = Drop("firmware", "uq_firmware_model_version")
          /\ u[9] = Drop("firmware", "uq_firmware_model_sha256")
      BY TwelfthOps
    <2>4. /\ u[10] = Create("firmware", "uq_firmware_owner_model_version")
          /\ u[11] = Create("firmware", "uq_firmware_owner_model_sha256")
          /\ u[12] = Create("firmware", "ix_firmware_owner_id")
          /\ u[13] = Create("devices", "ix_devices_owner_id")
      BY TwelfthOps
    <2> HIDE DEF u
    <2>5. \A e : /\ ~Removes(u[1], e) /\ ~Removes(u[5], e) /\ ~Removes(u[6], e)
                 /\ ~Gives(u[1], e) /\ ~Gives(u[5], e) /\ ~Gives(u[6], e)
      BY ONLY <2>1, OpThings
    <2>6. \A e : /\ ~Removes(u[2], e) /\ ~Removes(u[3], e) /\ ~Removes(u[4], e) /\ ~Removes(u[7], e)
                 /\ Gives(u[2], e) <=> e = <<"firmware", "owner_id">>
                 /\ Gives(u[3], e) <=> e = <<"firmware", "download_id">>
                 /\ Gives(u[4], e) <=> e = <<"devices", "owner_id">>
                 /\ Gives(u[7], e) <=> e = <<"firmware", "uq_firmware_download_id">>
      BY ONLY <2>2, OpThings
    <2>7. \A e : /\ Removes(u[8], e) <=> e = label
                 /\ Removes(u[9], e) <=> e = binary
                 /\ ~Gives(u[8], e) /\ ~Gives(u[9], e)
      BY ONLY <2>3, OpThings
    <2>8. \A e : /\ ~Removes(u[10], e) /\ ~Removes(u[11], e) /\ ~Removes(u[12], e) /\ ~Removes(u[13], e)
                 /\ Gives(u[10], e) <=> e = <<"firmware", "uq_firmware_owner_model_version">>
                 /\ Gives(u[11], e) <=> e = <<"firmware", "uq_firmware_owner_model_sha256">>
                 /\ Gives(u[12], e) <=> e = <<"firmware", "ix_firmware_owner_id">>
                 /\ Gives(u[13], e) <=> e = <<"devices", "ix_devices_owner_id">>
      BY ONLY <2>4, OpThings
    <2>9. \A i : i \in 1..13 <=> i \in {1, 2, 3, 4, 5, 6, 7, 8, 9, 10, 11, 12, 13}
      OBVIOUS
    <2>10. \A e : (\E j \in 1..13 : Removes(u[j], e)) <=> e \in common
      BY ONLY <2>5, <2>6, <2>7, <2>8, <2>9
    <2>11. \A e : (\E i \in 1..13 : Gives(u[i], e)) <=> e \in owned
      BY ONLY <2>5, <2>6, <2>7, <2>8, <2>9
    <2> HIDE DEF common, owned
    <2> QED BY ONLY <1>1, <2>1, <2>10, <2>11 DEF Exchanges
  <1>3. Exchanges(d, 10, owned, common)
    <2>1. /\ DOMAIN d = 1..10
          /\ d[1] = Drop("devices", "ix_devices_owner_id")
          /\ d[2] = Drop("firmware", "ix_firmware_owner_id")
          /\ d[3] = Drop("firmware", "uq_firmware_owner_model_sha256")
          /\ d[4] = Drop("firmware", "uq_firmware_owner_model_version")
          /\ d[5] = Create("firmware", "uq_firmware_model_version")
          /\ d[6] = Create("firmware", "uq_firmware_model_sha256")
          /\ d[7] = Drop("firmware", "uq_firmware_download_id")
          /\ d[8] = Drop("devices", "owner_id")
          /\ d[9] = Drop("firmware", "download_id")
          /\ d[10] = Drop("firmware", "owner_id")
      BY TwelfthOps
    <2> HIDE DEF d
    <2>2. \A i : i \in 1..10 <=> i \in {1, 2, 3, 4, 5, 6, 7, 8, 9, 10}
      OBVIOUS
    <2>3. \A e : /\ Removes(d[1], e) <=> e = <<"devices", "ix_devices_owner_id">>
                 /\ Removes(d[2], e) <=> e = <<"firmware", "ix_firmware_owner_id">>
                 /\ Removes(d[3], e) <=> e = <<"firmware", "uq_firmware_owner_model_sha256">>
                 /\ Removes(d[4], e) <=> e = <<"firmware", "uq_firmware_owner_model_version">>
      BY ONLY <2>1, OpThings
    <2>4. \A e : /\ Removes(d[7], e) <=> e = <<"firmware", "uq_firmware_download_id">>
                 /\ Removes(d[8], e) <=> e = <<"devices", "owner_id">>
                 /\ Removes(d[9], e) <=> e = <<"firmware", "download_id">>
                 /\ Removes(d[10], e) <=> e = <<"firmware", "owner_id">>
      BY ONLY <2>1, OpThings
    <2>5. \A e : ~Removes(d[5], e) /\ ~Removes(d[6], e)
      BY ONLY <2>1, OpThings
    <2>6. \A e : (Gives(d[5], e) <=> e = label) /\ (Gives(d[6], e) <=> e = binary)
      BY ONLY <2>1, OpThings
    <2>7. \A e : /\ ~Gives(d[1], e) /\ ~Gives(d[2], e) /\ ~Gives(d[3], e) /\ ~Gives(d[4], e)
                 /\ ~Gives(d[7], e) /\ ~Gives(d[8], e) /\ ~Gives(d[9], e) /\ ~Gives(d[10], e)
      BY ONLY <2>1, OpThings
    <2>8. \A e : (\E j \in 1..10 : Removes(d[j], e)) <=> e \in owned
      BY ONLY <2>2, <2>3, <2>4, <2>5
    <2>9. \A e : (\E i \in 1..10 : Gives(d[i], e)) <=> e \in common
      BY ONLY <2>2, <2>6, <2>7
    <2>10. owned \cap common = {}
      BY <1>1
    <2> HIDE DEF common, owned
    <2> QED BY ONLY <2>1, <2>8, <2>9, <2>10 DEF Exchanges
  <1>4. common \subseteq s /\ owned \cap s = {}
    <2>1. /\ "uq_firmware_model_version" \in FirmwareAt(11)
          /\ "uq_firmware_model_sha256" \in FirmwareAt(11)
          /\ \A c \in {"owner_id", "download_id", "uq_firmware_download_id",
                       "uq_firmware_owner_model_version", "uq_firmware_owner_model_sha256",
                       "ix_firmware_owner_id"} : c \notin FirmwareAt(11)
      BY DEF FirmwareAt, From, Until
    <2>2. "owner_id" \notin DevicesAt(11) /\ "ix_devices_owner_id" \notin DevicesAt(11)
      BY DEF DevicesAt, From, Until
    <2>3. \A c : /\ <<"firmware", c>> \in s <=> c \in FirmwareAt(11)
                 /\ <<"devices", c>> \in s <=> c \in DevicesAt(11)
      BY InStands
    <2> HIDE DEF s
    <2>4. common \subseteq s
      BY <2>1, <2>3
    <2>5. owned \cap s = {}
      BY <2>1, <2>2, <2>3
    <2> QED BY <2>4, <2>5
  <1>5. t = (s \ common) \cup owned
    <2> DEFINE old == {"uq_firmware_model_version", "uq_firmware_model_sha256"}
               new == {"owner_id", "download_id", "uq_firmware_download_id",
                       "uq_firmware_owner_model_version", "uq_firmware_owner_model_sha256",
                       "ix_firmware_owner_id"}
               more == {"owner_id", "ix_devices_owner_id"}
    <2>1. FirmwareAt(12) = (FirmwareAt(11) \ old) \cup new
      BY DEF FirmwareAt, From, Until
    <2>2. DevicesAt(12) = DevicesAt(11) \cup more
      BY DEF DevicesAt, From, Until
    <2>3. UsersAt(12) = UsersAt(11) /\ EventsAt(12) = EventsAt(11) /\ TokensAt(12) = TokensAt(11)
      BY DEF UsersAt, EventsAt, TokensAt, From, Until
    <2>4. common = Named("firmware", old)
      BY DEF Named
    <2>5. owned = Named("firmware", new) \cup Named("devices", more)
      BY DEF Named
    <2> HIDE DEF old, new, more, common, owned
    <2>6. \A f : Named("firmware", (f \ old) \cup new)
                    = (Named("firmware", f) \ Named("firmware", old)) \cup Named("firmware", new)
      BY DEF Named
    <2>7. \A d1 : Named("devices", d1 \cup more) = Named("devices", d1) \cup Named("devices", more)
      BY DEF Named
    <2>8. \A a, b : a # b => \A x, y : Named(a, x) \cap Named(b, y) = {}
      BY DEF Named
    <2>9. Named("firmware", FirmwareAt(12))
             = (Named("firmware", FirmwareAt(11)) \ common) \cup Named("firmware", new)
      BY <2>1, <2>4, <2>6
    <2>10. Named("devices", DevicesAt(12)) = Named("devices", DevicesAt(11)) \cup Named("devices", more)
      BY <2>2, <2>7
    <2>11. /\ common \cap Named("devices", DevicesAt(11)) = {}
           /\ common \cap Named("users", UsersAt(11)) = {}
           /\ common \cap Named("device_events", EventsAt(11)) = {}
           /\ common \cap Named("refresh_tokens", TokensAt(11)) = {}
      BY <2>4, <2>8
    <2> QED BY <2>3, <2>5, <2>9, <2>10, <2>11 DEF Stands, Tables
  <1>6. DOMAIN u = 1..13 /\ DOMAIN d = 1..10
    BY <1>2, <1>3 DEF Exchanges
  <1> HIDE DEF common, owned, s, t, u, d
  <1>7. After(s, u, 13) = t
    BY <1>2, <1>5, AfterExchange
  <1>8. After(t, d, 10) = s
    <2>1. After(t, d, 10) = (t \ owned) \cup common
      BY <1>3, AfterExchange
    <2> QED BY <1>1, <1>4, <1>5, <2>1
  <1>9. RefusesFirst(OwnerScoping)
    <2>1. u[1] = Do("find first owner") /\ u[5] = Do("assign owner") /\ u[6] = Do("fill links")
      BY TwelfthOps DEF u
    <2>2. \A i \in (1..13) \ {1, 5, 6} : u[i].do \in {"create", "drop"}
      <3>1. /\ u[2] = Create("firmware", "owner_id") /\ u[3] = Create("firmware", "download_id")
            /\ u[4] = Create("devices", "owner_id") /\ u[7] = Create("firmware", "uq_firmware_download_id")
        BY TwelfthOps DEF u
      <3>2. /\ u[8] = Drop("firmware", "uq_firmware_model_version")
            /\ u[9] = Drop("firmware", "uq_firmware_model_sha256")
        BY TwelfthOps DEF u
      <3>3. /\ u[10] = Create("firmware", "uq_firmware_owner_model_version")
            /\ u[11] = Create("firmware", "uq_firmware_owner_model_sha256")
            /\ u[12] = Create("firmware", "ix_firmware_owner_id")
            /\ u[13] = Create("devices", "ix_devices_owner_id")
        BY TwelfthOps DEF u
      <3>4. u[2].do = "create" /\ u[3].do = "create" /\ u[4].do = "create" /\ u[7].do = "create"
        BY ONLY <3>1, OpKinds
      <3>5. u[8].do = "drop" /\ u[9].do = "drop"
        BY ONLY <3>2, OpKinds
      <3>6. u[10].do = "create" /\ u[11].do = "create" /\ u[12].do = "create" /\ u[13].do = "create"
        BY ONLY <3>3, OpKinds
      <3>7. \A i \in (1..13) \ {1, 5, 6} : i \in {2, 3, 4, 7, 8, 9, 10, 11, 12, 13}
        OBVIOUS
      <3> QED BY ONLY <3>4, <3>5, <3>6, <3>7
    <2>3. \A i \in 1..10 : d[i].do \in {"create", "drop"}
      <3>1. /\ d[1] = Drop("devices", "ix_devices_owner_id")
            /\ d[2] = Drop("firmware", "ix_firmware_owner_id")
            /\ d[3] = Drop("firmware", "uq_firmware_owner_model_sha256")
            /\ d[4] = Drop("firmware", "uq_firmware_owner_model_version")
        BY TwelfthOps DEF d
      <3>2. /\ d[5] = Create("firmware", "uq_firmware_model_version")
            /\ d[6] = Create("firmware", "uq_firmware_model_sha256")
        BY TwelfthOps DEF d
      <3>3. /\ d[7] = Drop("firmware", "uq_firmware_download_id")
            /\ d[8] = Drop("devices", "owner_id")
            /\ d[9] = Drop("firmware", "download_id")
            /\ d[10] = Drop("firmware", "owner_id")
        BY TwelfthOps DEF d
      <3>4. d[1].do = "drop" /\ d[2].do = "drop" /\ d[3].do = "drop" /\ d[4].do = "drop"
        BY ONLY <3>1, OpKinds
      <3>5. d[5].do = "create" /\ d[6].do = "create"
        BY ONLY <3>2, OpKinds
      <3>6. d[7].do = "drop" /\ d[8].do = "drop" /\ d[9].do = "drop" /\ d[10].do = "drop"
        BY ONLY <3>3, OpKinds
      <3>7. \A i \in 1..10 : i \in {1, 2, 3, 4, 5, 6, 7, 8, 9, 10}
        OBVIOUS
      <3> QED BY ONLY <3>4, <3>5, <3>6, <3>7
    <2>4. u[1].do \notin Refusing /\ u[5].do \notin Refusing /\ u[6].do \notin Refusing
      BY <2>1, OpKinds DEF Refusing
    <2>5. /\ \A i \in 1..13 : u[i].do \notin Refusing
          /\ \A i \in 1..10 : d[i].do \in {"create", "drop"}
      BY ONLY <2>2, <2>3, <2>4 DEF Refusing
    <2> QED BY ONLY <1>6, <2>5 DEF RefusesFirst, u, d
  <1>10. Smooth(s, u)
    <2>1. <<"firmware", "*">> \in s /\ <<"devices", "*">> \in s
      <3>1. "*" \in FirmwareAt(11) /\ "*" \in DevicesAt(11)
        BY DEF FirmwareAt, DevicesAt, From, Until
      <3> QED BY <3>1, InStands DEF s
    <2> QED BY <1>4, <2>1, TwelfthSmooth DEF common, owned, u
  <1> QED BY <1>6, <1>7, <1>8, <1>9, <1>10 DEF Reverses, s, t, u, d

-----------------------------------------------------------------------------
(* A command under way.                                                    *)

LEMMA AllInverse == \A v \in 1..Newest : Reverses(Revisions[v], Stands(v - 1), Stands(v))
  <1>1. \A v \in 1..14 : v \in {1, 2, 3, 4, 5, 6, 7} \cup {8, 9, 10, 11, 12, 13, 14}
    OBVIOUS
  <1>2. ASSUME NEW v \in {1, 2, 3, 4, 5, 6, 7} PROVE Reverses(Revisions[v], Stands(v - 1), Stands(v))
    BY TheRevisions, FirstInverse, SecondInverse, ThirdInverse, FourthInverse, FifthInverse,
       SixthInverse, SeventhInverse
  <1>3. ASSUME NEW v \in {8, 9, 10, 11, 12, 13, 14} PROVE Reverses(Revisions[v], Stands(v - 1), Stands(v))
    BY TheRevisions, EighthInverse, NinthInverse, TenthInverse, EleventhInverse, TwelfthInverse,
       ThirteenthInverse, FourteenthInverse
  <1> QED BY <1>1, <1>2, <1>3, TheRevisions

LEMMA StandsNext ==
    ASSUME NEW v \in 1..Newest, SchemaAt[v - 1] = Stands(v - 1)
    PROVE  SchemaAt[v] = Stands(v)
  <1>1. PICK n \in Nat : DOMAIN Revisions[v].up = 1..n
                         /\ After(Stands(v - 1), Revisions[v].up, n) = Stands(v)
    BY AllInverse DEF Reverses
  <1>2. SchemaAt[v] = After(SchemaAt[v - 1], Revisions[v].up, n)
    BY <1>1, NextSchema
  <1> QED BY <1>1, <1>2

(* The schema of a revision, and what each of them adds.                   *)
LEMMA SchemaStands == \A v \in 0..Newest : SchemaAt[v] = Stands(v)
  <1> DEFINE Wrong == {v \in 0..Newest : SchemaAt[v] # Stands(v)}
  <1>1. Newest = 14
    BY TheRevisions
  <1>2. 0 \notin Wrong
    <2>1. SchemaAt[0] = {}
      <3>1. 0 \in 0..Newest /\ 1..0 = {}
        BY <1>1
      <3> QED BY <3>1 DEF SchemaAt
    <2>2. Stands(0) = {}
      BY DEF Stands, Tables, Named, FirmwareAt, DevicesAt, UsersAt, EventsAt, TokensAt, From, Until
    <2> QED BY <2>1, <2>2
  <1>3. \A v \in Wrong : v \in Nat /\ v \in 0..Newest
    BY <1>1
  <1>4. \A v \in 1..Newest : v \in Wrong => v - 1 \in Wrong
    <2>1. \A v \in 1..Newest : v - 1 \in 0..Newest
      BY <1>1
    <2> QED BY <2>1, StandsNext
  <1>5. Wrong = {} => \A v \in 0..Newest : SchemaAt[v] = Stands(v)
    OBVIOUS
  <1> HIDE DEF Wrong
  <1>6. Wrong = {}
    <2>1. SUFFICES ASSUME Wrong # {} PROVE FALSE
      OBVIOUS
    <2>2. PICK v \in Wrong : \A w \in Wrong : v <= w
      BY <1>3, <2>1, LeastNat
    <2>3. v \in 1..Newest
      BY <1>1, <1>2, <1>3
    <2>4. v - 1 \in Wrong
      BY <1>4, <2>3
    <2> QED BY <1>1, <2>2, <2>3, <2>4
  <1> QED BY <1>5, <1>6

-----------------------------------------------------------------------------
(* A migration under way has applied its operations to the schema of its   *)
(* revision, and where it can refuse it has done nothing yet.              *)
Goes == IF Ups THEN db.revision + 1 ELSE db.revision - 1

SchemaOk ==
    cut = "no" =>
        IF Running
        THEN /\ db.schema = After(SchemaAt[db.revision], Steps, job.step - 1)
             /\ job.step = 1 \/ job.step - 1 \in DOMAIN Steps
             /\ job.step = 1 => ~job.open
        ELSE disk.schema = SchemaAt[disk.revision]

(* The migration under way ends at the schema of where it goes.            *)
LEMMA TheMigration ==
    ASSUME WellFormed(db), JobOk
    PROVE  /\ \E n \in Nat : DOMAIN Steps = 1..n /\ After(SchemaAt[db.revision], Steps, n) = SchemaAt[Goes]
           /\ \A i \in DOMAIN Steps : Steps[i].do \in Refusing => i = 1
           /\ IF Ups THEN Steps = Revisions[db.revision + 1].up /\ Smooth(SchemaAt[db.revision], Steps)
              ELSE \A i \in DOMAIN Steps : Steps[i].do \in {"create", "drop"}
  <1>1. /\ job.goal \in 0..14 /\ db.revision \in 0..14 /\ job.goal # db.revision /\ Newest = 14
    BY TheRevisions DEF WellFormed, JobOk
  <1>2. CASE Ups
    <2> DEFINE v == db.revision + 1
    <2>1. v \in 1..Newest /\ v - 1 = db.revision /\ v \in 0..Newest /\ v - 1 \in 0..Newest
      BY <1>1, <1>2 DEF Ups
    <2>2. Steps = Revisions[v].up /\ Goes = v
      BY <1>2 DEF Steps, Goes
    <2>3. Reverses(Revisions[v], Stands(v - 1), Stands(v))
      BY <2>1, AllInverse
    <2>4. SchemaAt[db.revision] = Stands(v - 1) /\ SchemaAt[v] = Stands(v)
      BY <2>1, SchemaStands
    <2>5. Steps = Revisions[db.revision + 1].up
      BY <2>2
    <2> HIDE DEF v
    <2> QED BY <1>2, <2>2, <2>3, <2>4, <2>5 DEF Reverses, RefusesFirst
  <1>3. CASE ~Ups
    <2> DEFINE v == db.revision
    <2>1. v \in 1..Newest /\ v \in 0..Newest /\ v - 1 \in 0..Newest
      BY <1>1, <1>3 DEF Ups
    <2>2. Steps = Revisions[v].down /\ Goes = v - 1
      BY <1>3 DEF Steps, Goes
    <2>3. Reverses(Revisions[v], Stands(v - 1), Stands(v))
      BY <2>1, AllInverse
    <2>4. SchemaAt[v - 1] = Stands(v - 1) /\ SchemaAt[v] = Stands(v)
      BY <2>1, SchemaStands
    <2>5. \A i \in DOMAIN Steps : Steps[i].do \in {"create", "drop"}
      BY <2>2, <2>3 DEF Reverses, RefusesFirst
    <2> QED BY <1>3, <2>2, <2>3, <2>4, <2>5 DEF Reverses, Refusing
  <1> QED BY <1>2, <1>3

(* One more operation applied.                                             *)
LEMMA Advances ==
    ASSUME IInv, SchemaOk, Running, job.step \in DOMAIN Steps, UNCHANGED cut, Running',
           db'.revision = db.revision, db'.schema = Alter(db.schema, Steps[job.step]),
           job'.goal = job.goal, job'.step = job.step + 1
    PROVE  SchemaOk'
  <1>1. WellFormed(db) /\ JobOk /\ job.step \in Nat \ {0}
    BY DEF IInv, JobOk, Jobs
  <1>2. Steps' = Steps
    BY DEF Steps, Ups
  <1>3. SUFFICES ASSUME cut = "no"
                 PROVE  /\ db'.schema = After(SchemaAt[db.revision], Steps, job'.step - 1)
                        /\ job'.step - 1 \in DOMAIN Steps /\ job'.step # 1
    BY <1>2 DEF SchemaOk
  <1>4. db.schema = After(SchemaAt[db.revision], Steps, job.step - 1)
    BY <1>3 DEF SchemaOk
  <1>5. job'.step - 1 = job.step /\ job'.step # 1 /\ job.step - 1 \in Nat /\ job.step = (job.step - 1) + 1
    BY <1>1
  <1>6. After(SchemaAt[db.revision], Steps, job.step)
           = Alter(After(SchemaAt[db.revision], Steps, job.step - 1), Steps[job.step])
    BY <1>1, <1>5, AfterOp
  <1> QED BY <1>4, <1>5, <1>6

LEMMA DoneAdvances ==
    ASSUME IInv, SchemaOk, Running, job.step \in DOMAIN Steps,
           NEW after, NEW writes \in BOOLEAN, Done(after, writes),
           after.revision = db.revision, after.schema = Alter(db.schema, Steps[job.step])
    PROVE  SchemaOk'
  <1>1. job \in Jobs
    BY DEF IInv, JobOk
  <1> DEFINE still == job.open \/ writes
             n == job.step + 1
  <1>2. still \in BOOLEAN /\ n \in Nat \ {0}
    BY <1>1 DEF Jobs
  <1>3. job' = [job EXCEPT !.step = n, !.open = still] /\ db' = after /\ UNCHANGED cut
    BY DEF Done
  <1> HIDE DEF still, n
  <1>4. job' \in Jobs /\ job'.goal = job.goal /\ job'.step = n
    BY <1>1, <1>2, <1>3 DEF Jobs
  <1>5. Running'
    BY <1>4, MigrationsAssumption DEF Running
  <1> QED BY <1>3, <1>4, <1>5, Advances DEF n

(* An operation that has nothing to do with the schema.                    *)
LEMMA LeavesSchema ==
    ASSUME IInv, SchemaOk, Running, job.step \in DOMAIN Steps,
           Steps[job.step].do \notin {"create", "drop"},
           NEW after, NEW writes \in BOOLEAN, Done(after, writes),
           after.revision = db.revision, after.schema = db.schema
    PROVE  SchemaOk'
  <1>1. Alter(db.schema, Steps[job.step]) = db.schema
    BY DEF Alter
  <1> QED BY <1>1, DoneAdvances

LEMMA StopKeepsSchema ==
    ASSUME IInv, Stop, cut' = "no" => disk.schema = SchemaAt[disk.revision]
    PROVE  SchemaOk'
  BY DEF Stop, SchemaOk, Running

(* A migration that refuses has done nothing.                              *)
LEMMA RefuseKeepsSchema ==
    ASSUME IInv, SchemaOk, Running, job.step \in DOMAIN Steps, Steps[job.step].do \in Refusing, Refuse
    PROVE  SchemaOk'
  <1>1. WellFormed(db) /\ JobOk
    BY DEF IInv
  <1>2. Stop /\ cut' = cut
    BY DEF Refuse
  <1>3. ASSUME cut = "no" PROVE disk.schema = SchemaAt[disk.revision]
    <2>1. job.step = 1
      BY <1>1, TheMigration
    <2>2. ~job.open /\ db.schema = After(SchemaAt[db.revision], Steps, job.step - 1)
      BY <1>3, <2>1 DEF SchemaOk
    <2>3. job.step - 1 = 0
      BY <2>1
    <2>4. db.schema = SchemaAt[db.revision]
      BY <2>2, <2>3, AfterNone
    <2> QED BY <1>1, <2>2, <2>4 DEF JobOk
  <1> QED BY <1>2, <1>3, StopKeepsSchema

LEMMA RecordKeepsSchema ==
    ASSUME IInv, SchemaOk, Record
    PROVE  SchemaOk'
  <1>1. /\ Running /\ job.step \notin DOMAIN Steps /\ disk' = db' /\ UNCHANGED cut
        /\ db' = [db EXCEPT !.revision = Goes]
        /\ job' = IF Goes = job.goal THEN NULL ELSE [job EXCEPT !.step = 1, !.open = FALSE]
    BY DEF Record, Goes
  <1>2. WellFormed(db) /\ JobOk /\ job \in Jobs /\ job.step \in Nat \ {0}
    BY <1>1 DEF IInv, JobOk, Jobs
  <1>3. db'.revision = Goes /\ db'.schema = db.schema
    BY <1>1, <1>2 DEF WellFormed, Fields
  <1>4. cut = "no" => db.schema = SchemaAt[Goes]
    <2> SUFFICES ASSUME cut = "no" PROVE db.schema = SchemaAt[Goes]
      OBVIOUS
    <2>1. PICK n \in Nat : /\ DOMAIN Steps = 1..n
                           /\ After(SchemaAt[db.revision], Steps, n) = SchemaAt[Goes]
      BY <1>2, TheMigration
    <2>2. /\ db.schema = After(SchemaAt[db.revision], Steps, job.step - 1)
          /\ job.step = 1 \/ job.step - 1 \in DOMAIN Steps
      BY <1>1 DEF SchemaOk
    <2>3. job.step - 1 = n
      BY <1>1, <1>2, <2>1, <2>2
    <2> QED BY <2>1, <2>2, <2>3
  <1>5. CASE Goes = job.goal
    <2>1. ~Running' /\ disk'.schema = db.schema /\ disk'.revision = Goes
      BY <1>1, <1>3, <1>5 DEF Running
    <2> QED BY <1>1, <1>4, <2>1 DEF SchemaOk
  <1>6. CASE Goes # job.goal
    <2> DEFINE one == 1
               no == FALSE
    <2>1. job' = [job EXCEPT !.step = one, !.open = no] /\ one \in Nat \ {0} /\ no \in BOOLEAN
      BY <1>1, <1>6
    <2> HIDE DEF one, no
    <2>2. job' \in Jobs /\ job'.step = one /\ job'.open = no
      BY <1>2, <2>1 DEF Jobs
    <2>3. job' \in Jobs /\ job'.step = 1 /\ ~job'.open
      BY <2>2 DEF one, no
    <2>4. Running' /\ job'.step - 1 = 0
      BY <2>3, MigrationsAssumption DEF Running
    <2>5. After(SchemaAt[Goes], Steps', 0) = SchemaAt[Goes]
      BY AfterNone
    <2> QED BY <1>1, <1>3, <1>4, <2>3, <2>4, <2>5 DEF SchemaOk
  <1> QED BY <1>5, <1>6

LEMMA StartKeepsSchema ==
    ASSUME IInv, SchemaOk, NEW goal \in Goals, Start(goal)
    PROVE  SchemaOk'
  <1>1. /\ ~Running /\ db = disk /\ db' = db /\ UNCHANGED cut
        /\ job' = [goal |-> goal, step |-> 1, open |-> FALSE, owner |-> NULL]
    BY DEF Start, IInv
  <1>2. job' # NULL /\ job'.step = 1 /\ ~job'.open
    <2> DEFINE no == FALSE
               one == 1
    <2>1. job' = [goal |-> goal, step |-> one, open |-> no, owner |-> NULL]
      BY <1>1
    <2>2. one \in Nat \ {0} /\ no \in BOOLEAN /\ goal \in Nat
      BY GoalsAssumption, TheRevisions
    <2> HIDE DEF one, no
    <2>3. job' \in Jobs /\ job'.step = one /\ job'.open = no
      BY <2>1, <2>2 DEF Jobs
    <2> QED BY <2>3, MigrationsAssumption DEF one, no
  <1>3. job'.step - 1 = 0 /\ Running'
    BY <1>2 DEF Running
  <1>4. After(SchemaAt[db.revision], Steps', 0) = SchemaAt[db.revision]
    BY AfterNone
  <1> QED BY <1>1, <1>2, <1>3, <1>4 DEF SchemaOk

LEMMA OperateKeepsSchema ==
    ASSUME IInv, SchemaOk, Operate
    PROVE  SchemaOk'
  <1>1. ASSUME NEW after, Use(after), ~Running, after.schema = disk.schema, after.revision = disk.revision
        PROVE  SchemaOk'
    BY <1>1 DEF Use, SchemaOk, Running
  <1>2. DOMAIN disk = Fields
    BY DEF IInv, WellFormed
  <1>3. \A rows : /\ [disk EXCEPT !.firmware = rows].schema = disk.schema
                  /\ [disk EXCEPT !.firmware = rows].revision = disk.revision
                  /\ [disk EXCEPT !.users = rows].schema = disk.schema
                  /\ [disk EXCEPT !.users = rows].revision = disk.revision
                  /\ [disk EXCEPT !.devices = rows].schema = disk.schema
                  /\ [disk EXCEPT !.devices = rows].revision = disk.revision
    BY <1>2 DEF Fields
  <1>4. ASSUME NEW label \in Labels, NEW image \in Images, Upload(label, image) PROVE SchemaOk'
    <2>1. PICK rows : Use([disk EXCEPT !.firmware = rows])
      BY <1>4 DEF Upload
    <2>2. ~Running
      BY <1>4 DEF Upload, Serving
    <2> QED BY <1>1, <1>3, <2>1, <2>2
  <1>5. CASE AddUser
    <2>1. PICK u : Use([disk EXCEPT !.users = disk.users \cup {u}])
      BY <1>5 DEF AddUser
    <2>2. ~Running
      BY <1>5 DEF AddUser, Serving
    <2> QED BY <1>1, <1>3, <2>1, <2>2
  <1>6. CASE AddDevice
    <2>1. PICK rows : Use([disk EXCEPT !.devices = rows])
      BY <1>6 DEF AddDevice
    <2>2. ~Running
      BY <1>6 DEF AddDevice, Serving
    <2> QED BY <1>1, <1>3, <2>1, <2>2
  <1>7. CASE DeleteRow
    <2>1. PICK rows : Use([disk EXCEPT !.firmware = rows])
      BY <1>7 DEF DeleteRow
    <2>2. ~Running
      BY <1>7 DEF DeleteRow, Serving
    <2> QED BY <1>1, <1>3, <2>1, <2>2
  <1>8. CASE LoseBlob
    BY <1>8 DEF LoseBlob, SchemaOk, Serving, Running
  <1> QED BY <1>4, <1>5, <1>6, <1>7, <1>8, StartKeepsSchema DEF Operate

LEMMA MigrateKeepsSchema ==
    ASSUME IInv, SchemaOk, Migrate
    PROVE  SchemaOk'
  <1> DEFINE o == Steps[job.step]
  <1>1. CASE CreateStep
    <2> DEFINE after == [db EXCEPT !.schema = Alter(@, o)]
    <2>1. Running /\ job.step \in DOMAIN Steps /\ Done(after, FALSE)
      BY <1>1 DEF CreateStep, At
    <2>2. after.revision = db.revision /\ after.schema = Alter(db.schema, o)
      BY <2>1 DEF IInv, WellFormed, Fields
    <2> HIDE DEF after
    <2> QED BY <2>1, <2>2, DoneAdvances
  <1>2. CASE DropStep
    <2> DEFINE left(t, rows) ==
                  IF Target = <<t, "*">> THEN {}
                  ELSE {[c \in DOMAIN r |-> IF Target = <<t, c>> THEN NULL ELSE r[c]] : r \in rows}
               after == [db EXCEPT !.schema = Alter(@, o),
                                   !.firmware = left("firmware", @),
                                   !.devices = left("devices", @),
                                   !.users = IF Target = <<"users", "*">> THEN {} ELSE @]
    <2>1. Running /\ job.step \in DOMAIN Steps /\ Done(after, FALSE)
      BY <1>2 DEF DropStep, At
    <2>2. after.revision = db.revision /\ after.schema = Alter(db.schema, o)
      BY <2>1 DEF IInv, WellFormed, Fields
    <2> HIDE DEF after
    <2> QED BY <2>1, <2>2, DoneAdvances
  <1>3. CASE Rejected
    <2>1. Stop /\ cut' # "no"
      BY <1>3 DEF Rejected, Die, Stopped
    <2> QED BY <2>1, StopKeepsSchema
  <1>4. CASE DeleteOlder
    <2>1. PICK rows : Done([db EXCEPT !.firmware = rows], TRUE)
      BY <1>4 DEF DeleteOlder
    <2>2. Running /\ job.step \in DOMAIN Steps /\ o.do = "delete older"
      BY <1>4 DEF DeleteOlder, At
    <2> QED BY <2>1, <2>2, LeavesSchema DEF IInv, WellFormed, Fields
  <1>5. CASE RequireBlobs
    <2>1. Running /\ job.step \in DOMAIN Steps /\ o.do = "require blobs" /\ (Done(db, FALSE) \/ Refuse)
      BY <1>5 DEF RequireBlobs, At
    <2> QED BY <2>1, LeavesSchema, RefuseKeepsSchema DEF Refusing
  <1>6. CASE FillSizes
    <2> DEFINE rows == {[r EXCEPT !.size_bytes = r.sha256] : r \in db.firmware}
               after == [db EXCEPT !.firmware = rows]
               writes == db.firmware # {}
    <2>1. Running /\ job.step \in DOMAIN Steps /\ o.do = "fill sizes"
      BY <1>6 DEF FillSizes, At
    <2>2. Done(after, writes) /\ writes \in BOOLEAN
      BY <1>6 DEF FillSizes
    <2>3. after.revision = db.revision /\ after.schema = db.schema
      BY <2>1 DEF IInv, WellFormed, Fields
    <2> HIDE DEF after, writes
    <2> QED BY <2>1, <2>2, <2>3, LeavesSchema
  <1>7. CASE CopyRows
    <2>1. Running /\ job.step \in DOMAIN Steps /\ o.do = "copy rows" /\ Done(db, TRUE)
      BY <1>7 DEF CopyRows, At
    <2> QED BY <2>1, LeavesSchema
  <1>8. CASE RefuseShared
    <2>1. Running /\ job.step \in DOMAIN Steps /\ o.do = "refuse shared" /\ (Done(db, FALSE) \/ Refuse)
      BY <1>8 DEF RefuseShared, At
    <2> QED BY <2>1, LeavesSchema, RefuseKeepsSchema DEF Refusing
  <1>9. CASE FindFirstOwner
    <2>1. /\ Running /\ job.step \in DOMAIN Steps /\ o.do = "find first owner" /\ db' = db
          /\ job' = [job EXCEPT !.step = job.step + 1, !.owner = FirstOwner] /\ UNCHANGED cut
      BY <1>9 DEF FindFirstOwner, At
    <2>2. job \in Jobs
      BY <2>1 DEF IInv, JobOk
    <2>3. job'.goal = job.goal /\ job'.step = job.step + 1
      BY <2>1, <2>2 DEF Jobs
    <2>4. Running' /\ db' = db
      BY <1>9, FindsOwner, <2>1 DEF FindFirstOwner
    <2>5. Alter(db.schema, o) = db.schema
      BY <2>1 DEF Alter
    <2> QED BY <2>1, <2>3, <2>4, <2>5, Advances
  <1>10. CASE AssignOwner
    <2>1. Running /\ job.step \in DOMAIN Steps /\ o.do = "assign owner"
      BY <1>10 DEF AssignOwner, At
    <2>2. CASE job.owner = NULL
      BY <1>10, <2>1, <2>2, LeavesSchema DEF AssignOwner
    <2>3. CASE job.owner # NULL
      <3>1. PICK rows, units : Done([db EXCEPT !.firmware = rows, !.devices = units], TRUE)
        BY <1>10, <2>3 DEF AssignOwner
      <3> DEFINE after == [db EXCEPT !.firmware = rows, !.devices = units]
      <3>2. after.revision = db.revision /\ after.schema = db.schema
        BY <2>1 DEF IInv, WellFormed, Fields
      <3> HIDE DEF after
      <3> QED BY <2>1, <3>1, <3>2, LeavesSchema DEF after
    <2> QED BY <2>2, <2>3
  <1>11. CASE FillLinks
    <2> DEFINE rows == {[r EXCEPT !.download_id = r.id] : r \in db.firmware}
               after == [db EXCEPT !.firmware = rows]
               writes == db.firmware # {}
    <2>1. Running /\ job.step \in DOMAIN Steps /\ o.do = "fill links"
      BY <1>11 DEF FillLinks, At
    <2>2. Done(after, writes) /\ writes \in BOOLEAN
      BY <1>11 DEF FillLinks
    <2>3. after.revision = db.revision /\ after.schema = db.schema
      BY <2>1 DEF IInv, WellFormed, Fields
    <2> HIDE DEF after, writes
    <2> QED BY <2>1, <2>2, <2>3, LeavesSchema
  <1> QED BY <1>1, <1>2, <1>3, <1>4, <1>5, <1>6, <1>7, <1>8, <1>9, <1>10, <1>11, RecordKeepsSchema
          DEF Migrate

LEMMA SchemaStep == IInv /\ SchemaOk /\ [Next]_vars => SchemaOk'
  <1> SUFFICES ASSUME IInv, SchemaOk, [Next]_vars PROVE SchemaOk'
    OBVIOUS
  <1>1. CASE Crash
    <2>1. Stop /\ (cut' = "no" => disk.schema = SchemaAt[disk.revision])
      BY <1>1 DEF Crash
    <2> QED BY <2>1, StopKeepsSchema
  <1>2. CASE UNCHANGED vars
    <2>1. disk' = disk /\ db' = db /\ job' = job /\ cut' = cut
      BY <1>2 DEF vars
    <2>2. Steps' = Steps /\ Running' = Running
      BY <2>1 DEF Steps, Ups, Running
    <2> QED BY <2>1, <2>2 DEF SchemaOk
  <1> QED BY <1>1, <1>2, MigrateKeepsSchema, OperateKeepsSchema DEF Next

LEMMA SchemaInit == Init => SchemaOk
  <1> SUFFICES ASSUME Init PROVE SchemaOk
    OBVIOUS
  <1>1. ~Running /\ disk.schema = {} /\ disk.revision = 0
    BY DEF Init, Running
  <1>2. 0 \in 0..Newest /\ 1..0 = {}
    BY TheRevisions
  <1>3. SchemaAt[0] = {}
    BY <1>2 DEF SchemaAt
  <1> QED BY <1>1, <1>3 DEF SchemaOk

-----------------------------------------------------------------------------
(* Whatever upgrades and downgrades were run, and whether or not 0006 or   *)
(* 0010 refused, the schema is that of the recorded revision until a       *)
(* command is torn: a later command starts from what its first operation   *)
(* expects.                                                                *)
THEOREM SchemaAndRevision == Spec => []SchemaMatchesRevision
  <1>1. IInv /\ SchemaOk /\ [Next]_vars => SchemaOk'
    BY SchemaStep
  <1>2. SchemaOk => SchemaMatchesRevision
    BY DEF SchemaOk, SchemaMatchesRevision
  <1> QED BY <1>1, <1>2, SchemaInit, Invariant, PTL DEF Spec

-----------------------------------------------------------------------------
(* The rows and the unique indexes.                                        *)

(* Every unique index that is there holds.                                 *)
Indexed(d) == \A x \in Unique : <<"firmware", x>> \in d.schema => Holds(x, d.firmware)

LEMMA TheIndexes ==
    /\ Unique = {"uq_firmware_model_version", "uq_firmware_model_sha256",
                 "uq_firmware_owner_model_version", "uq_firmware_owner_model_sha256",
                 "uq_firmware_download_id"}
    /\ IndexColumns["uq_firmware_model_version"] = {"label"}
    /\ IndexColumns["uq_firmware_model_sha256"] = {"model", "sha256"}
    /\ IndexColumns["uq_firmware_owner_model_version"] = {"owner_id", "label"}
    /\ IndexColumns["uq_firmware_owner_model_sha256"] = {"owner_id", "model", "sha256"}
    /\ IndexColumns["uq_firmware_download_id"] = {"download_id"}
    /\ \A x \in Unique : x # "*" /\ IndexColumns[x] \subseteq Columns
    /\ \A x \in DOMAIN IndexColumns : IndexColumns[x] \subseteq IndexedColumns
  <1>1. DOMAIN IndexColumns =
            {"uq_firmware_model_version", "uq_firmware_model_sha256",
             "uq_firmware_owner_model_version", "uq_firmware_owner_model_sha256",
             "uq_firmware_download_id", "ix_firmware_owner_id", "ix_devices_owner_id"}
    BY DEF IndexColumns
  <1>2. Unique = {"uq_firmware_model_version", "uq_firmware_model_sha256",
                  "uq_firmware_owner_model_version", "uq_firmware_owner_model_sha256",
                  "uq_firmware_download_id"}
    BY <1>1 DEF Unique
  <1>3. /\ IndexColumns["uq_firmware_model_version"] = {"label"}
        /\ IndexColumns["uq_firmware_model_sha256"] = {"model", "sha256"}
        /\ IndexColumns["uq_firmware_owner_model_version"] = {"owner_id", "label"}
        /\ IndexColumns["uq_firmware_owner_model_sha256"] = {"owner_id", "model", "sha256"}
        /\ IndexColumns["uq_firmware_download_id"] = {"download_id"}
        /\ IndexColumns["ix_firmware_owner_id"] = {"owner_id"}
        /\ IndexColumns["ix_devices_owner_id"] = {"owner_id"}
    BY DEF IndexColumns
  <1>4. \A x \in Unique : x # "*" /\ IndexColumns[x] \subseteq Columns
    BY <1>2, <1>3 DEF Columns
  <1>5. \A x \in DOMAIN IndexColumns : IndexColumns[x] \subseteq IndexedColumns
    BY <1>1, <1>3 DEF IndexedColumns
  <1> QED BY <1>2, <1>3, <1>4, <1>5

(* An index over more columns holds of the same rows.                      *)
LEMMA HoldsOfMore ==
    ASSUME NEW x, NEW y, IndexColumns[y] \subseteq IndexColumns[x], NEW rows, Holds(y, rows)
    PROVE  Holds(x, rows)
  BY DEF Holds, Clash

LEMMA HoldsOfFewer ==
    ASSUME NEW x, NEW rows, NEW fewer \in SUBSET rows, Holds(x, rows)
    PROVE  Holds(x, fewer)
  BY DEF Holds

(* The rows have what they had in the columns of an index, or nothing in   *)
(* one of them.                                                            *)
Copies(x, after, rows) ==
    \A s \in after : \E r \in rows :
        /\ s.id = r.id
        /\ \A c \in IndexColumns[x] : s[c] \in {r[c], NULL}

LEMMA HoldsOfCopies ==
    ASSUME NEW x, NEW rows, NEW after, Copies(x, after, rows), Holds(x, rows)
    PROVE  Holds(x, after)
  <1> SUFFICES ASSUME NEW s \in after, NEW t \in after, Clash(x, s, t) PROVE FALSE
    BY DEF Holds
  <1>1. s.id # t.id /\ \A c \in IndexColumns[x] : s[c] # NULL /\ s[c] = t[c]
    BY DEF Clash
  <1>2. PICK p \in rows : s.id = p.id /\ \A c \in IndexColumns[x] : s[c] \in {p[c], NULL}
    BY DEF Copies
  <1>3. PICK q \in rows : t.id = q.id /\ \A c \in IndexColumns[x] : t[c] \in {q[c], NULL}
    BY DEF Copies
  <1>4. \A c \in IndexColumns[x] : s[c] = p[c] /\ t[c] = q[c]
    BY <1>1, <1>2, <1>3
  <1>5. Clash(x, p, q)
    BY <1>1, <1>2, <1>3, <1>4 DEF Clash
  <1> QED BY <1>5 DEF Holds

(* Which operations of the upgrades create a unique index, and which gives *)
(* the rows an owner.                                                      *)
Plain(o) == o.do \in {"create", "drop"} /\ (o.do = "create" => o.on[2] \notin Unique)

AllPlain(ops) == \A i \in DOMAIN ops : Plain(ops[i])

LEMMA PlainThings ==
    \A t, c : c \notin Unique => Plain(Create(t, c)) /\ Plain(Drop(t, c))
  BY DEF Plain, Create, Drop

LEMMA PlainNames ==
    ASSUME NEW t, NEW names, \A i \in DOMAIN names : names[i] \notin Unique
    PROVE  AllPlain(Reversible(Adding(t, names)).up)
  <1>1. Reversible(Adding(t, names)).up = Adding(t, names)
    BY DEF Reversible
  <1>2. DOMAIN Adding(t, names) = DOMAIN names
        /\ \A i \in DOMAIN names : Adding(t, names)[i] = Create(t, names[i])
    BY DEF Adding
  <1>3. \A i \in DOMAIN names : Plain(Create(t, names[i]))
    BY PlainThings
  <1> QED BY <1>1, <1>2, <1>3 DEF AllPlain

LEMMA PlainAdditions ==
    \A rev \in {Users, OriginalFilename, DeviceCheckin, FirmwareActive, DeviceLastError,
                DeviceEvents, DeviceRegistration, AccountPublicKey} : AllPlain(rev.up)
  <1>1. AllPlain(Users.up)
    <2> DEFINE names == <<"*", "ix_users_username">>
    <2>1. \A i \in DOMAIN names : names[i] \in {"*", "ix_users_username"}
      OBVIOUS
    <2> HIDE DEF names
    <2>2. \A i \in DOMAIN names : names[i] \notin Unique
      BY <2>1, TheIndexes
    <2>3. AllPlain(Reversible(Adding("users", names)).up)
      BY <2>2, PlainNames
    <2> QED BY <2>3 DEF Users, names
  <1>2. AllPlain(OriginalFilename.up)
    <2> DEFINE names == <<"original_filename">>
    <2>1. \A i \in DOMAIN names : names[i] \in {"original_filename"}
      OBVIOUS
    <2> HIDE DEF names
    <2>2. \A i \in DOMAIN names : names[i] \notin Unique
      BY <2>1, TheIndexes
    <2>3. AllPlain(Reversible(Adding("firmware", names)).up)
      BY <2>2, PlainNames
    <2> QED BY <2>3 DEF OriginalFilename, names
  <1>3. AllPlain(DeviceCheckin.up)
    <2> DEFINE names == <<"poll_interval_seconds", "rssi", "ip">>
    <2>1. \A i \in DOMAIN names : names[i] \in {"poll_interval_seconds", "rssi", "ip"}
      OBVIOUS
    <2> HIDE DEF names
    <2>2. \A i \in DOMAIN names : names[i] \notin Unique
      BY <2>1, TheIndexes
    <2>3. AllPlain(Reversible(Adding("devices", names)).up)
      BY <2>2, PlainNames
    <2> QED BY <2>3 DEF DeviceCheckin, names
  <1>4. AllPlain(FirmwareActive.up)
    <2> DEFINE names == <<"active">>
    <2>1. \A i \in DOMAIN names : names[i] \in {"active"}
      OBVIOUS
    <2> HIDE DEF names
    <2>2. \A i \in DOMAIN names : names[i] \notin Unique
      BY <2>1, TheIndexes
    <2>3. AllPlain(Reversible(Adding("firmware", names)).up)
      BY <2>2, PlainNames
    <2> QED BY <2>3 DEF FirmwareActive, names
  <1>5. AllPlain(DeviceLastError.up)
    <2> DEFINE names == <<"last_error", "failed_attempts">>
    <2>1. \A i \in DOMAIN names : names[i] \in {"last_error", "failed_attempts"}
      OBVIOUS
    <2> HIDE DEF names
    <2>2. \A i \in DOMAIN names : names[i] \notin Unique
      BY <2>1, TheIndexes
    <2>3. AllPlain(Reversible(Adding("devices", names)).up)
      BY <2>2, PlainNames
    <2> QED BY <2>3 DEF DeviceLastError, names
  <1>6. AllPlain(DeviceEvents.up)
    <2> DEFINE names == <<"*", "ix_device_events_device_id_id">>
    <2>1. \A i \in DOMAIN names : names[i] \in {"*", "ix_device_events_device_id_id"}
      OBVIOUS
    <2> HIDE DEF names
    <2>2. \A i \in DOMAIN names : names[i] \notin Unique
      BY <2>1, TheIndexes
    <2>3. AllPlain(Reversible(Adding("device_events", names)).up)
      BY <2>2, PlainNames
    <2> QED BY <2>3 DEF DeviceEvents, names
  <1>7. AllPlain(DeviceRegistration.up)
    <2> DEFINE names == <<"secret_hash", "enabled", "registered_at">>
    <2>1. \A i \in DOMAIN names : names[i] \in {"secret_hash", "enabled", "registered_at"}
      OBVIOUS
    <2> HIDE DEF names
    <2>2. \A i \in DOMAIN names : names[i] \notin Unique
      BY <2>1, TheIndexes
    <2>3. AllPlain(Reversible(Adding("devices", names)).up)
      BY <2>2, PlainNames
    <2> QED BY <2>3 DEF DeviceRegistration, names
  <1>8. AllPlain(AccountPublicKey.up)
    <2> DEFINE names == <<"public_key">>
    <2>1. \A i \in DOMAIN names : names[i] \in {"public_key"}
      OBVIOUS
    <2> HIDE DEF names
    <2>2. \A i \in DOMAIN names : names[i] \notin Unique
      BY <2>1, TheIndexes
    <2>3. AllPlain(Reversible(Adding("users", names)).up)
      BY <2>2, PlainNames
    <2> QED BY <2>3 DEF AccountPublicKey, names
  <1> QED BY <1>1, <1>2, <1>3, <1>4, <1>5, <1>6, <1>7, <1>8

LEMMA PlainOps ==
    /\ AllPlain(Initial.up) /\ AllPlain(EmailIdentity.up)
    /\ \A i \in DOMAIN FirmwareSizeNotes.up :
          LET o == FirmwareSizeNotes.up[i] IN Plain(o) \/ o.do \notin {"create", "drop", "assign owner"}
  <1>1. AllPlain(Initial.up)
    <2> DEFINE ops == Adding("firmware", <<"*", "ix_firmware_model">>)
                      \o Adding("devices", <<"*", "ix_devices_device_id">>)
    <2>1. /\ DOMAIN ops = 1..4
          /\ ops[1] = Create("firmware", "*") /\ ops[2] = Create("firmware", "ix_firmware_model")
          /\ ops[3] = Create("devices", "*") /\ ops[4] = Create("devices", "ix_devices_device_id")
      BY DEF Adding
    <2>2. Initial.up = ops
      BY DEF Initial, Reversible
    <2> HIDE DEF ops
    <2>3. \A i \in 1..4 : i \in {1, 2, 3, 4}
      OBVIOUS
    <2>4. \A c \in {"*", "ix_firmware_model", "ix_devices_device_id"} : c \notin Unique
      BY TheIndexes
    <2>5. Plain(ops[1]) /\ Plain(ops[2]) /\ Plain(ops[3]) /\ Plain(ops[4])
      BY <2>1, <2>4, PlainThings
    <2> QED BY <2>1, <2>2, <2>3, <2>5 DEF AllPlain
  <1>2. AllPlain(EmailIdentity.up)
    <2> DEFINE u == EmailIdentity.up
    <2>1. /\ DOMAIN u = 1..5 /\ u[1] = Drop("users", "*")
          /\ u[2] = Create("users", "*") /\ u[3] = Create("users", "ix_users_email")
          /\ u[4] = Create("refresh_tokens", "*")
          /\ u[5] = Create("refresh_tokens", "ix_refresh_tokens_user_id")
      BY EleventhOps
    <2> HIDE DEF u
    <2>2. \A i \in 1..5 : i \in {1, 2, 3, 4, 5}
      OBVIOUS
    <2>3. \A c \in {"*", "ix_users_email", "ix_refresh_tokens_user_id"} : c \notin Unique
      BY TheIndexes
    <2>4. Plain(u[1]) /\ Plain(u[2]) /\ Plain(u[3])
      BY <2>1, <2>3, PlainThings
    <2>5. Plain(u[4]) /\ Plain(u[5])
      BY <2>1, <2>3, PlainThings
    <2>6. AllPlain(u)
      BY <2>1, <2>2, <2>4, <2>5 DEF AllPlain
    <2> QED BY <2>6 DEF u
  <1>3. \A i \in DOMAIN FirmwareSizeNotes.up :
            LET o == FirmwareSizeNotes.up[i] IN Plain(o) \/ o.do \notin {"create", "drop", "assign owner"}
    <2> DEFINE u == FirmwareSizeNotes.up
    <2>1. /\ DOMAIN u = 1..7 /\ u[1] = Do("require blobs")
          /\ u[4] = Do("fill sizes") /\ u[6] = Do("copy rows")
      BY SixthOps
    <2>2. /\ u[2] = Create("firmware", "size_bytes") /\ u[3] = Create("firmware", "notes")
          /\ u[5] = Create("_alembic_tmp_firmware", "*") /\ u[7] = Drop("_alembic_tmp_firmware", "*")
      BY SixthOps
    <2> HIDE DEF u
    <2>3. \A i \in 1..7 : i \in {1, 2, 3, 4, 5, 6, 7}
      OBVIOUS
    <2>4. \A c \in {"*", "size_bytes", "notes"} : c \notin Unique
      BY TheIndexes
    <2>5. Plain(u[2]) /\ Plain(u[3]) /\ Plain(u[5]) /\ Plain(u[7])
      BY <2>2, <2>4, PlainThings
    <2>6. u[1].do = "require blobs" /\ u[4].do = "fill sizes" /\ u[6].do = "copy rows"
      BY ONLY <2>1, OpKinds
    <2>7. \A i \in 1..7 : Plain(u[i]) \/ u[i].do \notin {"create", "drop", "assign owner"}
      BY ONLY <2>3, <2>5, <2>6
    <2> QED BY <2>1, <2>7 DEF u
  <1> QED BY <1>1, <1>2, <1>3

(* Where the upgrades create a unique index, and what precedes it.         *)
OwnerIndexes == {"uq_firmware_owner_model_version", "uq_firmware_owner_model_sha256"}

UniquePlace(v, i, x) ==
    \/ v = 3 /\ i = 2 /\ x = "uq_firmware_model_version"
    \/ v = 10 /\ i = 2 /\ x = "uq_firmware_model_sha256"
    \/ v = 12 /\ i = 7 /\ x = "uq_firmware_download_id"
    \/ v = 12 /\ i > 7 /\ x \in OwnerIndexes

Placed(v, i, o) ==
    /\ o.do = "create" /\ o.on[2] \in Unique => UniquePlace(v, i, o.on[2])
    /\ o.do = "assign owner" => v = 12 /\ i = 5

LEMMA PlainPlaced ==
    \A v, i, o : Plain(o) \/ o.do \notin {"create", "drop", "assign owner"} => Placed(v, i, o)
  BY DEF Plain, Placed

LEMMA Clears ==
    /\ Revisions[3].up[1].do = "delete older"
    /\ Revisions[10].up[1].do = "refuse shared"
    /\ Revisions[12].up[6].do = "fill links"
  <1>1. UniqueFirmware.up[1] = Do("delete older") /\ UniqueBinary.up[1] = Do("refuse shared")
    BY DEF UniqueFirmware, UniqueBinary
  <1>2. OwnerScoping.up[6] = Do("fill links")
    BY TwelfthOps
  <1> QED BY <1>1, <1>2, TheRevisions, OpKinds

LEMMA TwelfthPlaced == \A i \in 1..13 : Placed(12, i, OwnerScoping.up[i])
  <1> DEFINE u == OwnerScoping.up
  <1>1. u[1] = Do("find first owner") /\ u[5] = Do("assign owner") /\ u[6] = Do("fill links")
    BY TwelfthOps
  <1>2. /\ u[2] = Create("firmware", "owner_id") /\ u[3] = Create("firmware", "download_id")
        /\ u[4] = Create("devices", "owner_id") /\ u[7] = Create("firmware", "uq_firmware_download_id")
    BY TwelfthOps
  <1>3. /\ u[8] = Drop("firmware", "uq_firmware_model_version")
        /\ u[9] = Drop("firmware", "uq_firmware_model_sha256")
    BY TwelfthOps
  <1>4. /\ u[10] = Create("firmware", "uq_firmware_owner_model_version")
        /\ u[11] = Create("firmware", "uq_firmware_owner_model_sha256")
        /\ u[12] = Create("firmware", "ix_firmware_owner_id")
        /\ u[13] = Create("devices", "ix_devices_owner_id")
    BY TwelfthOps
  <1> HIDE DEF u
  <1>5. Placed(12, 1, u[1]) /\ Placed(12, 5, u[5]) /\ Placed(12, 6, u[6])
    <2>1. u[1].do = "find first owner" /\ u[5].do = "assign owner" /\ u[6].do = "fill links"
      BY ONLY <1>1, OpKinds
    <2> QED BY ONLY <2>1 DEF Placed
  <1>6. Placed(12, 2, u[2]) /\ Placed(12, 3, u[3]) /\ Placed(12, 4, u[4]) /\ Placed(12, 7, u[7])
    <2>1. \A c \in {"owner_id", "download_id"} : c \notin Unique
      BY TheIndexes
    <2>2. Plain(u[2]) /\ Plain(u[3]) /\ Plain(u[4])
      BY <1>2, <2>1, PlainThings
    <2>3. u[7].do = "create" /\ u[7].on[2] = "uq_firmware_download_id"
      BY <1>2 DEF Create
    <2> QED BY ONLY <2>2, <2>3, PlainPlaced DEF Placed, UniquePlace
  <1>7. Placed(12, 8, u[8]) /\ Placed(12, 9, u[9])
    <2>1. u[8].do = "drop" /\ u[9].do = "drop"
      BY ONLY <1>3, OpKinds
    <2> QED BY ONLY <2>1 DEF Placed
  <1>8. Placed(12, 10, u[10]) /\ Placed(12, 11, u[11])
    <2>1. /\ u[10].do = "create" /\ u[10].on[2] = "uq_firmware_owner_model_version"
          /\ u[11].do = "create" /\ u[11].on[2] = "uq_firmware_owner_model_sha256"
      BY <1>4 DEF Create
    <2> QED BY ONLY <2>1 DEF Placed, UniquePlace, OwnerIndexes
  <1>9. Placed(12, 12, u[12]) /\ Placed(12, 13, u[13])
    <2>1. \A c \in {"ix_firmware_owner_id", "ix_devices_owner_id"} : c \notin Unique
      BY TheIndexes
    <2>2. Plain(u[12]) /\ Plain(u[13])
      BY <1>4, <2>1, PlainThings
    <2> QED BY ONLY <2>2, PlainPlaced
  <1>10. \A i \in 1..13 : i \in {1, 2, 3, 4, 5, 6, 7} \cup {8, 9, 10, 11, 12, 13}
    OBVIOUS
  <1> QED BY ONLY <1>5, <1>6, <1>7, <1>8, <1>9, <1>10 DEF u

LEMMA AllPlaced ==
    \A v \in 1..Newest : \A i \in DOMAIN Revisions[v].up : Placed(v, i, Revisions[v].up[i])
  <1>1. \A v \in 1..14 : v \in {1, 11} \cup {2, 4, 5, 7, 8, 9, 13, 14} \cup {3, 10} \cup {6, 12}
    OBVIOUS
  <1>2. ASSUME NEW v \in {1, 11} \cup {2, 4, 5, 7, 8, 9, 13, 14}, NEW i \in DOMAIN Revisions[v].up
        PROVE  Placed(v, i, Revisions[v].up[i])
    <2>1. AllPlain(Revisions[v].up)
      BY TheRevisions, PlainAdditions, PlainOps
    <2> QED BY <2>1, PlainPlaced DEF AllPlain
  <1>3. ASSUME NEW v \in {3, 10}, NEW i \in DOMAIN Revisions[v].up
        PROVE  Placed(v, i, Revisions[v].up[i])
    <2> DEFINE a == UniqueFirmware.up
               b == UniqueBinary.up
    <2>1. /\ a[1] = Do("delete older") /\ a[2] = Create("firmware", "uq_firmware_model_version")
          /\ b[1] = Do("refuse shared") /\ b[2] = Create("firmware", "uq_firmware_model_sha256")
      BY DEF UniqueFirmware, UniqueBinary
    <2>2. DOMAIN a = {1, 2} /\ DOMAIN b = {1, 2}
      BY DEF UniqueFirmware, UniqueBinary
    <2> HIDE DEF a, b
    <2>3. a[1].do = "delete older" /\ b[1].do = "refuse shared"
      BY ONLY <2>1, OpKinds
    <2>4. /\ a[2].do = "create" /\ a[2].on[2] = "uq_firmware_model_version"
          /\ b[2].do = "create" /\ b[2].on[2] = "uq_firmware_model_sha256"
      <3>1. /\ Create("firmware", "uq_firmware_model_version").do = "create"
            /\ Create("firmware", "uq_firmware_model_version").on[2] = "uq_firmware_model_version"
            /\ Create("firmware", "uq_firmware_model_sha256").do = "create"
            /\ Create("firmware", "uq_firmware_model_sha256").on[2] = "uq_firmware_model_sha256"
        BY DEF Create
      <3> HIDE DEF Create
      <3> QED BY ONLY <2>1, <3>1
    <2>5. Placed(3, 1, a[1]) /\ Placed(3, 2, a[2]) /\ Placed(10, 1, b[1]) /\ Placed(10, 2, b[2])
      BY ONLY <2>3, <2>4 DEF Placed, UniquePlace
    <2>6. Revisions[3].up = a /\ Revisions[10].up = b
      BY TheRevisions DEF a, b
    <2> QED BY <2>2, <2>5, <2>6
  <1>4. ASSUME NEW v \in {6, 12}, NEW i \in DOMAIN Revisions[v].up
        PROVE  Placed(v, i, Revisions[v].up[i])
    <2>1. CASE v = 6
      BY <2>1, TheRevisions, PlainOps, PlainPlaced
    <2>2. CASE v = 12
      BY <2>2, TheRevisions, TwelfthOps, TwelfthPlaced
    <2> QED BY <2>1, <2>2
  <1> QED BY <1>1, <1>2, <1>3, <1>4, TheRevisions

-----------------------------------------------------------------------------
(* Nothing that a unique index refuses is left when it is created.         *)

(* What an upgrade has made sure of before it creates a unique index.      *)
Cleared(d, goal, step) ==
    /\ d.revision = 2 /\ goal > 2 /\ step > 1 => Holds("uq_firmware_model_version", d.firmware)
    /\ d.revision = 9 /\ goal > 9 /\ step > 1 => Holds("uq_firmware_model_sha256", d.firmware)
    /\ d.revision = 11 /\ goal > 11 =>
          /\ Holds("uq_firmware_model_version", d.firmware)
          /\ Holds("uq_firmware_model_sha256", d.firmware)
          /\ step = 7 => Holds("uq_firmware_download_id", d.firmware)

(* The unique indexes hold in the file and in what a command sees of it,   *)
(* and the rows are ready for those that the command is still to create.   *)
DataOk ==
    cut = "no" =>
        /\ Indexed(disk) /\ Indexed(db)
        /\ Running => Cleared(db, job.goal, job.step)

(* Until a command is torn; and what tore it was not an upgrade.           *)
UpOk == DataOk /\ cut # "upgrade"

LEMMA CommonIndexes ==
    /\ <<"firmware", "uq_firmware_model_version">> \in SchemaAt[11]
    /\ <<"firmware", "uq_firmware_model_sha256">> \in SchemaAt[11]
    /\ \A x \in OwnerIndexes : <<"firmware", x>> \notin SchemaAt[11]
  <1>1. SchemaAt[11] = Stands(11)
    BY SchemaStands, TheRevisions
  <1>2. /\ "uq_firmware_model_version" \in FirmwareAt(11)
        /\ "uq_firmware_model_sha256" \in FirmwareAt(11)
        /\ \A x \in OwnerIndexes : x \notin FirmwareAt(11)
    BY DEF FirmwareAt, From, Until, OwnerIndexes
  <1> QED BY <1>1, <1>2, InStands

(* A migration that has not begun finds what the revision stands for.      *)
LEMMA ClearedAtFirst ==
    ASSUME NEW d, NEW goal, d.schema = SchemaAt[d.revision], Indexed(d)
    PROVE  Cleared(d, goal, 1)
  <1>1. d.revision = 11 => /\ Holds("uq_firmware_model_version", d.firmware)
                           /\ Holds("uq_firmware_model_sha256", d.firmware)
    BY CommonIndexes, TheIndexes DEF Indexed
  <1>2. ~(1 > 1) /\ 1 # 7
    OBVIOUS
  <1> QED BY <1>1, <1>2 DEF Cleared

(* Until it is torn, no upgrade is rejected by the database.               *)
LEMMA NotRejected ==
    ASSUME IInv, SchemaOk, DataOk, cut = "no", Running, Ups
    PROVE  ~Rejected
  <1> SUFFICES ASSUME Rejected PROVE FALSE
    OBVIOUS
  <1> DEFINE o == Steps[job.step]
             v == db.revision + 1
  <1>1. WellFormed(db) /\ JobOk /\ job.step \in DOMAIN Steps
    BY DEF IInv, Rejected, At
  <1>2. /\ db.revision \in 0..14 /\ job.goal \in 0..14 /\ job.goal > db.revision /\ Newest = 14
        /\ job.step \in Nat
    BY <1>1, TheRevisions DEF WellFormed, JobOk, Ups, Jobs
  <1>3. Steps = Revisions[v].up /\ Smooth(SchemaAt[db.revision], Steps)
    BY <1>1, TheMigration
  <1>4. Applies(o, db.schema)
    BY <1>1, <1>3 DEF SchemaOk, Smooth
  <1>5. v \in 1..Newest /\ (v = 3 <=> db.revision = 2) /\ (v = 10 <=> db.revision = 9)
        /\ (v = 12 <=> db.revision = 11)
    BY <1>2
  <1>6. Placed(v, job.step, o)
    BY <1>1, <1>3, <1>5, AllPlaced
  <1>7. Cleared(db, job.goal, job.step)
    BY DEF DataOk
  <1>8. Target = o.on
    BY DEF Target
  <1> HIDE DEF v, o
  <1>9. ASSUME NEW x, x = o.on[2], o.do = "create", x \in Unique PROVE Holds(x, db.firmware)
    <2>1. UniquePlace(v, job.step, x)
      BY <1>6, <1>9 DEF Placed
    <2>2. CASE v = 3 /\ job.step = 2 /\ x = "uq_firmware_model_version"
      <3>1. db.revision = 2 /\ job.goal > 2 /\ job.step > 1
        BY ONLY <1>2, <1>5, <2>2
      <3>2. Holds("uq_firmware_model_version", db.firmware)
        BY ONLY <1>7, <3>1 DEF Cleared
      <3> QED BY ONLY <2>2, <3>2
    <2>3. CASE v = 10 /\ job.step = 2 /\ x = "uq_firmware_model_sha256"
      <3>1. db.revision = 9 /\ job.goal > 9 /\ job.step > 1
        BY ONLY <1>2, <1>5, <2>3
      <3>2. Holds("uq_firmware_model_sha256", db.firmware)
        BY ONLY <1>7, <3>1 DEF Cleared
      <3> QED BY ONLY <2>3, <3>2
    <2>4. CASE v = 12 /\ job.step = 7 /\ x = "uq_firmware_download_id"
      <3>1. db.revision = 11 /\ job.goal > 11
        BY ONLY <1>2, <1>5, <2>4
      <3>2. Holds("uq_firmware_download_id", db.firmware)
        BY ONLY <1>7, <2>4, <3>1 DEF Cleared
      <3> QED BY ONLY <2>4, <3>2
    <2>5. CASE v = 12 /\ x \in OwnerIndexes
      <3>1. /\ Holds("uq_firmware_model_version", db.firmware)
            /\ Holds("uq_firmware_model_sha256", db.firmware)
        <4>1. db.revision = 11 /\ job.goal > 11
          BY ONLY <1>2, <1>5, <2>5
        <4> QED BY ONLY <1>7, <4>1 DEF Cleared
      <3>2. /\ IndexColumns["uq_firmware_model_version"]
                  \subseteq IndexColumns["uq_firmware_owner_model_version"]
            /\ IndexColumns["uq_firmware_model_sha256"]
                  \subseteq IndexColumns["uq_firmware_owner_model_sha256"]
        BY TheIndexes
      <3>3. /\ Holds("uq_firmware_owner_model_version", db.firmware)
            /\ Holds("uq_firmware_owner_model_sha256", db.firmware)
        BY ONLY <3>1, <3>2, HoldsOfMore
      <3> QED BY ONLY <2>5, <3>3 DEF OwnerIndexes
    <2> QED BY ONLY <2>1, <2>2, <2>3, <2>4, <2>5 DEF UniquePlace
  <1>10. CASE o.do = "create" /\ ~Creatable
    BY <1>4, <1>8, <1>9, <1>10 DEF Applies, Creatable
  <1>11. CASE o.do = "drop" /\ ~Droppable
    <2>1. o.on \in db.schema /\ o.on[2] \notin IndexedColumns
      BY <1>4, <1>11 DEF Applies
    <2>2. \A x \in DOMAIN IndexColumns : o.on[2] \notin IndexColumns[x]
      BY <2>1, TheIndexes
    <2> QED BY <1>8, <1>11, <2>1, <2>2 DEF Droppable
  <1>12. \/ o.do = "create" /\ ~Creatable
         \/ o.do = "drop" /\ ~Droppable
    BY DEF Rejected, At, o
  <1> QED BY <1>10, <1>11, <1>12

(* What an operation leaves of the indexes: one that holds still does,     *)
(* unless it is one of those of each owner before they are created.        *)
StillHold(o, after) ==
    \A x \in Unique :
        Holds(x, db.firmware) =>
            \/ Holds(x, after.firmware)
            \/ x \in OwnerIndexes /\ <<"firmware", x>> \notin db.schema /\ o.do # "create"

MayCreate(o) == o.do = "create" /\ o.on[2] \in Unique => Holds(o.on[2], db.firmware)

ClearsRows(o, after) ==
    /\ o.do = "delete older" => Holds("uq_firmware_model_version", after.firmware)
    /\ o.do = "refuse shared" => Holds("uq_firmware_model_sha256", after.firmware)
    /\ o.do = "fill links" => Holds("uq_firmware_download_id", after.firmware)

LEMMA IndexedNext ==
    ASSUME Indexed(db), NEW o, NEW after, after.schema = Alter(db.schema, o),
           StillHold(o, after), MayCreate(o)
    PROVE  Indexed(after)
  <1> SUFFICES ASSUME NEW x \in Unique, <<"firmware", x>> \in after.schema
               PROVE  Holds(x, after.firmware)
    BY DEF Indexed
  <1>1. \/ <<"firmware", x>> \in db.schema
        \/ o.do = "create" /\ o.on = <<"firmware", x>>
    BY DEF Alter
  <1>2. CASE <<"firmware", x>> \in db.schema
    BY <1>2 DEF Indexed, StillHold
  <1>3. CASE o.do = "create" /\ o.on = <<"firmware", x>>
    <2>1. o.on[2] = x
      BY <1>3
    <2>2. Holds(x, db.firmware)
      BY <1>3, <2>1 DEF MayCreate
    <2> QED BY <1>3, <2>2 DEF StillHold
  <1> QED BY <1>1, <1>2, <1>3

LEMMA ClearedNext ==
    ASSUME IInv, SchemaOk, Running, Cleared(db, job.goal, job.step), job.step \in DOMAIN Steps,
           NEW o, o = Steps[job.step], NEW after, after.revision = db.revision,
           StillHold(o, after), ClearsRows(o, after)
    PROVE  Cleared(after, job.goal, job.step + 1)
  <1>1. WellFormed(db) /\ JobOk
    BY DEF IInv
  <1>2. /\ db.revision \in 0..14 /\ job.goal \in 0..14 /\ job.step \in Nat \ {0} /\ Newest = 14
    BY <1>1, TheRevisions DEF WellFormed, JobOk, Jobs
  <1>3. Ups => o = Revisions[db.revision + 1].up[job.step]
    BY DEF Steps
  <1>4. ASSUME NEW x \in {"uq_firmware_model_version", "uq_firmware_model_sha256"},
               Holds(x, db.firmware)
        PROVE  Holds(x, after.firmware)
    <2>1. x \in Unique /\ x \notin OwnerIndexes
      BY TheIndexes DEF OwnerIndexes
    <2> QED BY <1>4, <2>1 DEF StillHold
  <1>5. ASSUME db.revision = 2, job.goal > 2
        PROVE  Holds("uq_firmware_model_version", after.firmware)
    <2>1. CASE job.step = 1
      <3>1. o.do = "delete older"
        <4>1. Ups /\ db.revision + 1 = 3
          BY <1>5 DEF Ups
        <4>2. o = Revisions[3].up[1]
          BY ONLY <1>3, <2>1, <4>1
        <4> QED BY ONLY <4>2, Clears
      <3> QED BY <3>1 DEF ClearsRows
    <2>2. CASE job.step > 1
      BY <1>4, <1>5, <2>2 DEF Cleared
    <2> QED BY <1>2, <2>1, <2>2
  <1>6. ASSUME db.revision = 9, job.goal > 9
        PROVE  Holds("uq_firmware_model_sha256", after.firmware)
    <2>1. CASE job.step = 1
      <3>1. o.do = "refuse shared"
        <4>1. Ups /\ db.revision + 1 = 10
          BY <1>6 DEF Ups
        <4>2. o = Revisions[10].up[1]
          BY ONLY <1>3, <2>1, <4>1
        <4> QED BY ONLY <4>2, Clears
      <3> QED BY <3>1 DEF ClearsRows
    <2>2. CASE job.step > 1
      BY <1>4, <1>6, <2>2 DEF Cleared
    <2> QED BY <1>2, <2>1, <2>2
  <1>7. ASSUME db.revision = 11, job.goal > 11
        PROVE  /\ Holds("uq_firmware_model_version", after.firmware)
               /\ Holds("uq_firmware_model_sha256", after.firmware)
               /\ job.step + 1 = 7 => Holds("uq_firmware_download_id", after.firmware)
    <2>1. /\ Holds("uq_firmware_model_version", db.firmware)
          /\ Holds("uq_firmware_model_sha256", db.firmware)
      BY <1>7 DEF Cleared
    <2>2. ASSUME job.step + 1 = 7 PROVE Holds("uq_firmware_download_id", after.firmware)
      <3>1. job.step = 6
        BY <1>2, <2>2
      <3>2. o.do = "fill links"
        <4>1. Ups /\ db.revision + 1 = 12
          BY <1>7 DEF Ups
        <4>2. o = Revisions[12].up[6]
          BY ONLY <1>3, <3>1, <4>1
        <4> QED BY ONLY <4>2, Clears
      <3> QED BY <3>2 DEF ClearsRows
    <2> QED BY <1>4, <2>1, <2>2
  <1> QED BY <1>5, <1>6, <1>7 DEF Cleared

LEMMA DataAdvances ==
    ASSUME IInv, SchemaOk, DataOk, Running, job.step \in DOMAIN Steps, NEW o, o = Steps[job.step],
           NEW after, db' = after, disk' \in {disk, after}, UNCHANGED cut,
           job'.goal = job.goal, job'.step = job.step + 1,
           after.revision = db.revision, after.schema = Alter(db.schema, o),
           cut = "no" => StillHold(o, after) /\ MayCreate(o) /\ ClearsRows(o, after)
    PROVE  DataOk'
  <1> SUFFICES ASSUME cut = "no"
               PROVE  Indexed(disk') /\ Indexed(db') /\ Cleared(db', job'.goal, job'.step)
    BY DEF DataOk
  <1>1. Indexed(disk) /\ Indexed(db) /\ Cleared(db, job.goal, job.step)
    BY DEF DataOk
  <1>2. Indexed(after)
    BY <1>1, IndexedNext
  <1>3. Cleared(after, job.goal, job.step + 1)
    BY <1>1, ClearedNext
  <1> QED BY <1>1, <1>2, <1>3

LEMMA DoneData ==
    ASSUME IInv, SchemaOk, DataOk, Running, job.step \in DOMAIN Steps, NEW o, o = Steps[job.step],
           NEW after, NEW writes \in BOOLEAN, Done(after, writes),
           after.revision = db.revision, after.schema = Alter(db.schema, o),
           cut = "no" => StillHold(o, after) /\ MayCreate(o) /\ ClearsRows(o, after)
    PROVE  DataOk'
  <1>1. job \in Jobs
    BY DEF IInv, JobOk
  <1> DEFINE still == job.open \/ writes
             n == job.step + 1
  <1>2. still \in BOOLEAN /\ n \in Nat \ {0}
    BY <1>1 DEF Jobs
  <1>3. /\ job' = [job EXCEPT !.step = n, !.open = still] /\ db' = after /\ UNCHANGED cut
        /\ disk' \in {disk, after}
    BY DEF Done
  <1> HIDE DEF still, n
  <1>4. job'.goal = job.goal /\ job'.step = n
    BY <1>1, <1>2, <1>3 DEF Jobs
  <1> QED BY <1>3, <1>4, DataAdvances DEF n

-----------------------------------------------------------------------------
(* Rows written anew keep the indexes over the columns that are kept.      *)
LEMMA CopiesHold ==
    ASSUME NEW o, NEW after, \A x \in Unique : Copies(x, after.firmware, db.firmware)
    PROVE  StillHold(o, after)
  BY HoldsOfCopies DEF StillHold

LEMMA SameHold ==
    ASSUME NEW o, NEW after, after.firmware = db.firmware
    PROVE  StillHold(o, after)
  BY DEF StillHold

LEMMA RewrittenCopies ==
    ASSUME NEW rows, NEW f, NEW x,
           \A r \in rows : f[r].id = r.id /\ \A c \in IndexColumns[x] : f[r][c] \in {r[c], NULL}
    PROVE  Copies(x, {f[r] : r \in rows}, rows)
  BY DEF Copies

LEMMA LeavesData ==
    ASSUME IInv, SchemaOk, DataOk, Running, job.step \in DOMAIN Steps, NEW o, o = Steps[job.step],
           o.do \notin {"create", "drop", "delete older", "refuse shared", "fill links"},
           NEW writes \in BOOLEAN, Done(db, writes)
    PROVE  DataOk'
  <1>1. db.schema = Alter(db.schema, o)
    BY DEF Alter
  <1>2. StillHold(o, db) /\ MayCreate(o) /\ ClearsRows(o, db)
    BY SameHold DEF MayCreate, ClearsRows
  <1> QED BY <1>1, <1>2, DoneData

LEMMA CreateData ==
    ASSUME IInv, SchemaOk, DataOk, CreateStep
    PROVE  DataOk'
  <1> DEFINE o == Steps[job.step]
             after == [db EXCEPT !.schema = Alter(@, o)]
  <1>1. /\ Running /\ job.step \in DOMAIN Steps /\ o.do = "create" /\ Done(after, FALSE)
        /\ o.on[2] \in Unique => Holds(o.on[2], db.firmware)
    BY DEF CreateStep, At, Creatable, Target
  <1>2. /\ after.revision = db.revision /\ after.schema = Alter(db.schema, o)
        /\ after.firmware = db.firmware
    BY <1>1 DEF IInv, WellFormed, Fields
  <1> HIDE DEF after, o
  <1>3. StillHold(o, after) /\ MayCreate(o) /\ ClearsRows(o, after)
    BY <1>1, <1>2, SameHold DEF MayCreate, ClearsRows
  <1> QED BY <1>1, <1>2, <1>3, DoneData DEF o

LEMMA DropData ==
    ASSUME IInv, SchemaOk, DataOk, DropStep
    PROVE  DataOk'
  <1> DEFINE o == Steps[job.step]
             left(t, rows) ==
                IF o.on = <<t, "*">> THEN {}
                ELSE {[c \in DOMAIN r |-> IF o.on = <<t, c>> THEN NULL ELSE r[c]] : r \in rows}
             after == [db EXCEPT !.schema = Alter(@, o),
                                 !.firmware = left("firmware", @),
                                 !.devices = left("devices", @),
                                 !.users = IF o.on = <<"users", "*">> THEN {} ELSE @]
  <1>1. Running /\ job.step \in DOMAIN Steps /\ o.do = "drop" /\ Done(after, FALSE)
    BY DEF DropStep, At, Target
  <1>2. WellFormed(db) /\ JobOk
    BY <1>1 DEF IInv
  <1>3. /\ after.revision = db.revision /\ after.schema = Alter(db.schema, o)
        /\ after.firmware = left("firmware", db.firmware)
    BY <1>2 DEF WellFormed, Fields
  <1> HIDE DEF o, after
  <1>4. MayCreate(o) /\ ClearsRows(o, after)
    BY <1>1 DEF MayCreate, ClearsRows
  <1>5. StillHold(o, after)
    <2>1. CASE o.on = <<"firmware", "*">>
      <3>1. after.firmware = {}
        BY <1>3, <2>1
      <3> QED BY <3>1 DEF StillHold, Holds
    <2>2. CASE o.on # <<"firmware", "*">>
      <3> DEFINE f == [r \in db.firmware |->
                          [c \in DOMAIN r |-> IF o.on = <<"firmware", c>> THEN NULL ELSE r[c]]]
      <3>1. after.firmware = {f[r] : r \in db.firmware}
        BY <1>3, <2>2
      <3>2. ASSUME NEW r \in db.firmware
            PROVE  \A c \in Columns : /\ f[r][c] \in {r[c], NULL}
                                      /\ o.on # <<"firmware", c>> => f[r][c] = r[c]
        BY <1>2 DEF WellFormed, RowsOk
      <3> HIDE DEF f
      <3>3. o.on[2] \notin Keys
        BY <1>1, <1>2, TheStep DEF o
      <3>4. "id" \in Columns /\ o.on # <<"firmware", "id">>
        BY <3>3 DEF Columns, Keys
      <3>5. \A r \in db.firmware : f[r].id = r.id
        BY <3>2, <3>4
      <3>6. ASSUME NEW x \in Unique PROVE Copies(x, {f[r] : r \in db.firmware}, db.firmware)
        <4>1. IndexColumns[x] \subseteq Columns
          BY TheIndexes
        <4>2. \A r \in db.firmware : f[r].id = r.id /\ \A c \in IndexColumns[x] : f[r][c] \in {r[c], NULL}
          BY <3>2, <3>5, <4>1
        <4> QED BY <4>2 DEF Copies
      <3> QED BY <3>1, <3>6, CopiesHold
    <2> QED BY <2>1, <2>2
  <1> QED BY <1>1, <1>3, <1>4, <1>5, DoneData DEF o

LEMMA DeleteData ==
    ASSUME IInv, SchemaOk, DataOk, DeleteOlder
    PROVE  DataOk'
  <1> DEFINE o == Steps[job.step]
             rows == {r \in db.firmware : \A s \in db.firmware : s.label = r.label => s.id <= r.id}
             after == [db EXCEPT !.firmware = rows]
  <1>1. Running /\ job.step \in DOMAIN Steps /\ Done(after, TRUE) /\ o.do = "delete older"
    BY DEF DeleteOlder, At
  <1>2. DOMAIN db = Fields /\ RowsOk(db.firmware)
    BY <1>1 DEF IInv, WellFormed
  <1>3. after.revision = db.revision /\ after.schema = db.schema /\ after.firmware = rows
    BY <1>2 DEF Fields
  <1>4. rows \in SUBSET db.firmware
    OBVIOUS
  <1>5. Holds("uq_firmware_model_version", rows)
    <2> SUFFICES ASSUME NEW r \in rows, NEW s \in rows, Clash("uq_firmware_model_version", r, s)
                 PROVE  FALSE
      BY DEF Holds
    <2>1. r.id # s.id /\ r.label = s.label
      BY TheIndexes DEF Clash
    <2>2. r.id <= s.id /\ s.id <= r.id
      BY <2>1
    <2>3. r.id \in Int /\ s.id \in Int
      BY <1>2, MigrationsAssumption DEF RowsOk
    <2> QED BY <2>1, <2>2, <2>3
  <1> HIDE DEF rows, after, o
  <1>6. StillHold(o, after)
    BY <1>3, <1>4, HoldsOfFewer DEF StillHold
  <1>7. MayCreate(o) /\ ClearsRows(o, after)
    BY <1>1, <1>3, <1>5 DEF MayCreate, ClearsRows
  <1>8. after.schema = Alter(db.schema, o)
    BY <1>1, <1>3 DEF Alter
  <1> QED BY <1>1, <1>3, <1>6, <1>7, <1>8, DoneData DEF o

LEMMA SharedData ==
    ASSUME IInv, SchemaOk, DataOk, RefuseShared, ~Shared
    PROVE  DataOk'
  <1> DEFINE o == Steps[job.step]
  <1>1. Running /\ job.step \in DOMAIN Steps /\ Done(db, FALSE) /\ o.do = "refuse shared"
    BY DEF RefuseShared, At
  <1> HIDE DEF o
  <1>2. Holds("uq_firmware_model_sha256", db.firmware)
    BY DEF Shared, Holds
  <1>3. StillHold(o, db) /\ MayCreate(o) /\ ClearsRows(o, db)
    BY <1>1, <1>2, SameHold DEF MayCreate, ClearsRows
  <1>4. db.schema = Alter(db.schema, o)
    BY <1>1 DEF Alter
  <1> QED BY <1>1, <1>3, <1>4, DoneData DEF o

LEMMA SizesData ==
    ASSUME IInv, SchemaOk, DataOk, FillSizes
    PROVE  DataOk'
  <1> DEFINE o == Steps[job.step]
             f == [r \in db.firmware |-> [r EXCEPT !.size_bytes = r.sha256]]
             after == [db EXCEPT !.firmware = {f[r] : r \in db.firmware}]
             writes == db.firmware # {}
  <1>1. Running /\ job.step \in DOMAIN Steps /\ o.do = "fill sizes"
    BY DEF FillSizes, At
  <1>2. Done(after, writes)
    <2>1. {f[r] : r \in db.firmware} = {[r EXCEPT !.size_bytes = r.sha256] : r \in db.firmware}
      OBVIOUS
    <2> QED BY <2>1 DEF FillSizes
  <1>3. DOMAIN db = Fields /\ RowsOk(db.firmware)
    BY <1>1 DEF IInv, WellFormed
  <1>4. after.revision = db.revision /\ after.schema = db.schema
        /\ after.firmware = {f[r] : r \in db.firmware}
    BY <1>3 DEF Fields
  <1>5. \A r \in db.firmware : \A c \in Columns \ {"size_bytes"} : f[r][c] = r[c]
    BY <1>3 DEF RowsOk, Columns
  <1>6. writes \in BOOLEAN
    OBVIOUS
  <1> HIDE DEF f, after, writes, o
  <1>7. ASSUME NEW x \in Unique PROVE Copies(x, {f[r] : r \in db.firmware}, db.firmware)
    <2>1. IndexColumns[x] \subseteq Columns \ {"size_bytes"}
      BY TheIndexes DEF Columns
    <2>2. "id" \in Columns \ {"size_bytes"}
      BY DEF Columns
    <2>3. \A r \in db.firmware : f[r].id = r.id /\ \A c \in IndexColumns[x] : f[r][c] \in {r[c], NULL}
      BY <1>5, <2>1, <2>2
    <2> QED BY <2>3 DEF Copies
  <1>8. StillHold(o, after)
    BY <1>4, <1>7, CopiesHold
  <1>9. MayCreate(o) /\ ClearsRows(o, after) /\ after.schema = Alter(db.schema, o)
    BY <1>1, <1>4 DEF MayCreate, ClearsRows, Alter
  <1> QED BY <1>1, <1>2, <1>4, <1>6, <1>8, <1>9, DoneData DEF o

LEMMA LinksData ==
    ASSUME IInv, SchemaOk, DataOk, FillLinks
    PROVE  DataOk'
  <1> DEFINE o == Steps[job.step]
             f == [r \in db.firmware |-> [r EXCEPT !.download_id = r.id]]
             after == [db EXCEPT !.firmware = {f[r] : r \in db.firmware}]
             writes == db.firmware # {}
  <1>1. Running /\ job.step \in DOMAIN Steps /\ o.do = "fill links"
    BY DEF FillLinks, At
  <1>2. Done(after, writes)
    <2>1. {f[r] : r \in db.firmware} = {[r EXCEPT !.download_id = r.id] : r \in db.firmware}
      OBVIOUS
    <2> QED BY <2>1 DEF FillLinks
  <1>3. DOMAIN db = Fields /\ RowsOk(db.firmware)
    BY <1>1 DEF IInv, WellFormed
  <1>4. after.revision = db.revision /\ after.schema = db.schema
        /\ after.firmware = {f[r] : r \in db.firmware}
    BY <1>3 DEF Fields
  <1>5. \A r \in db.firmware : /\ f[r].download_id = r.id
                               /\ \A c \in Columns \ {"download_id"} : f[r][c] = r[c]
    BY <1>3 DEF RowsOk, Columns
  <1>6. writes \in BOOLEAN
    OBVIOUS
  <1> HIDE DEF f, after, writes, o
  <1>7. \A r \in db.firmware : f[r].id = r.id
    BY <1>5 DEF Columns
  <1>8. Holds("uq_firmware_download_id", after.firmware)
    <2> SUFFICES ASSUME NEW r \in db.firmware, NEW s \in db.firmware,
                        Clash("uq_firmware_download_id", f[r], f[s])
                 PROVE  FALSE
      BY <1>4 DEF Holds
    <2>1. f[r].id # f[s].id /\ f[r].download_id = f[s].download_id
      BY TheIndexes DEF Clash
    <2> QED BY <1>5, <1>7, <2>1
  <1>9. ASSUME NEW x \in Unique, x # "uq_firmware_download_id"
        PROVE  Copies(x, after.firmware, db.firmware)
    <2>1. IndexColumns[x] \subseteq Columns \ {"download_id"}
      BY <1>9, TheIndexes DEF Columns
    <2>2. \A r \in db.firmware : f[r].id = r.id /\ \A c \in IndexColumns[x] : f[r][c] \in {r[c], NULL}
      BY <1>5, <1>7, <2>1
    <2> QED BY <1>4, <2>2 DEF Copies
  <1>10. StillHold(o, after)
    BY <1>8, <1>9, HoldsOfCopies DEF StillHold
  <1>11. MayCreate(o) /\ ClearsRows(o, after) /\ after.schema = Alter(db.schema, o)
    BY <1>1, <1>4, <1>8 DEF MayCreate, ClearsRows, Alter
  <1> QED BY <1>1, <1>2, <1>4, <1>6, <1>10, <1>11, DoneData DEF o

(* The rows are given an owner before there is an index of each owner's.   *)
LEMMA NotOwnersYet ==
    ASSUME IInv, SchemaOk, cut = "no", At("assign owner")
    PROVE  \A x \in OwnerIndexes : <<"firmware", x>> \notin db.schema
  <1> DEFINE v == db.revision + 1
             o == Steps[job.step]
             u == OwnerScoping.up
  <1>1. WellFormed(db) /\ JobOk /\ Running /\ job.step \in DOMAIN Steps /\ o.do = "assign owner"
    BY DEF IInv, At
  <1>2. /\ db.revision \in 0..14 /\ job.goal \in 0..14 /\ job.step \in Nat /\ Newest = 14
    BY <1>1, TheRevisions DEF WellFormed, JobOk, Jobs
  <1>3. Ups
    BY <1>1, TheMigration
  <1>4. Steps = Revisions[v].up /\ v \in 1..Newest /\ v = db.revision + 1
    <2>1. Steps = Revisions[v].up
      BY <1>3 DEF Steps
    <2>2. job.goal > db.revision
      BY <1>3 DEF Ups
    <2>3. v \in 1..Newest
      BY ONLY <1>2, <2>2
    <2> QED BY <2>1, <2>3
  <1> HIDE DEF v
  <1>5. Placed(v, job.step, o)
    <2>1. o = Revisions[v].up[job.step] /\ job.step \in DOMAIN Revisions[v].up
      BY ONLY <1>1, <1>4 DEF o
    <2> HIDE DEF o
    <2> QED BY ONLY <1>4, <2>1, AllPlaced
  <1>6. v = 12 /\ job.step = 5
    BY <1>1, <1>5 DEF Placed
  <1>7. db.revision = 11 /\ job.step - 1 = 4
    BY ONLY <1>2, <1>4, <1>6
  <1>8. db.schema = After(SchemaAt[11], u, 4)
    <2>1. db.schema = After(SchemaAt[db.revision], Steps, job.step - 1)
      BY <1>1 DEF SchemaOk
    <2>2. Steps = u
      BY <1>4, <1>6, TheRevisions
    <2> HIDE DEF u
    <2> QED BY ONLY <1>7, <2>1, <2>2
  <1>9. \A i \in 1..4 : Placed(12, i, u[i])
    <2>1. ASSUME NEW i \in 1..4 PROVE i \in 1..13
      BY ONLY i \in 1..4
    <2> QED BY ONLY <2>1, TwelfthPlaced
  <1> HIDE DEF o, u
  <1> SUFFICES ASSUME NEW x \in OwnerIndexes, <<"firmware", x>> \in db.schema PROVE FALSE
    OBVIOUS
  <1>10. <<"firmware", x>> \notin SchemaAt[11]
    BY CommonIndexes
  <1>11. PICK i \in 1..4 : u[i].do = "create" /\ u[i].on = <<"firmware", x>>
    BY ONLY <1>8, <1>10, <<"firmware", x>> \in db.schema DEF After
  <1>12. u[i].on[2] = x /\ x \in Unique
    <2>1. x \in Unique
      BY ONLY x \in OwnerIndexes, TheIndexes DEF OwnerIndexes
    <2> QED BY ONLY <1>11, <2>1
  <1>13. UniquePlace(12, i, x)
    <2>1. Placed(12, i, u[i])
      BY ONLY <1>9, i \in 1..4
    <2> QED BY ONLY <1>11, <1>12, <2>1 DEF Placed
  <1> QED BY ONLY i \in 1..4, x \in OwnerIndexes, <1>13 DEF UniquePlace, OwnerIndexes

LEMMA AssignData ==
    ASSUME IInv, SchemaOk, DataOk, AssignOwner
    PROVE  DataOk'
  <1> DEFINE o == Steps[job.step]
             f == [r \in db.firmware |-> [r EXCEPT !.owner_id = job.owner]]
             units == {[r EXCEPT !.owner_id = job.owner] : r \in db.devices}
             after == [db EXCEPT !.firmware = {f[r] : r \in db.firmware}, !.devices = units]
  <1>1. Running /\ job.step \in DOMAIN Steps /\ o.do = "assign owner"
    BY DEF AssignOwner, At
  <1>2. CASE job.owner = NULL
    BY <1>1, <1>2, LeavesData DEF AssignOwner
  <1>3. CASE job.owner # NULL
    <2>1. Done(after, TRUE)
      <3>1. {f[r] : r \in db.firmware} = {[r EXCEPT !.owner_id = job.owner] : r \in db.firmware}
        OBVIOUS
      <3> QED BY <1>3, <3>1 DEF AssignOwner
    <2>2. DOMAIN db = Fields /\ RowsOk(db.firmware)
      BY <1>1 DEF IInv, WellFormed
    <2>3. after.revision = db.revision /\ after.schema = db.schema
          /\ after.firmware = {f[r] : r \in db.firmware}
      BY <2>2 DEF Fields
    <2>4. \A r \in db.firmware : \A c \in Columns \ {"owner_id"} : f[r][c] = r[c]
      BY <2>2 DEF RowsOk, Columns
    <2>5. cut = "no" => \A x \in OwnerIndexes : <<"firmware", x>> \notin db.schema
      BY NotOwnersYet DEF AssignOwner
    <2> HIDE DEF f, units, after, o
    <2>6. ASSUME NEW x \in Unique \ OwnerIndexes
          PROVE  Copies(x, after.firmware, db.firmware)
      <3>1. IndexColumns[x] \subseteq Columns \ {"owner_id"}
        BY TheIndexes DEF Columns, OwnerIndexes
      <3>2. "id" \in Columns \ {"owner_id"}
        BY DEF Columns
      <3>3. \A r \in db.firmware : f[r].id = r.id /\ \A c \in IndexColumns[x] : f[r][c] \in {r[c], NULL}
        BY <2>4, <3>1, <3>2
      <3> QED BY <2>3, <3>3 DEF Copies
    <2>7. cut = "no" => StillHold(o, after)
      BY <1>1, <2>5, <2>6, HoldsOfCopies DEF StillHold
    <2>8. MayCreate(o) /\ ClearsRows(o, after) /\ after.schema = Alter(db.schema, o)
      BY <1>1, <2>3 DEF MayCreate, ClearsRows, Alter
    <2> QED BY <1>1, <2>1, <2>3, <2>7, <2>8, DoneData DEF o
  <1> QED BY <1>2, <1>3

LEMMA FindData ==
    ASSUME IInv, SchemaOk, DataOk, FindFirstOwner
    PROVE  DataOk'
  <1> DEFINE o == Steps[job.step]
  <1>1. /\ Running /\ job.step \in DOMAIN Steps /\ o.do = "find first owner"
        /\ db' = db /\ disk' = disk /\ cut' = cut
        /\ job' = [job EXCEPT !.step = job.step + 1, !.owner = FirstOwner]
    BY DEF FindFirstOwner, At
  <1>2. job \in Jobs
    BY <1>1 DEF IInv, JobOk
  <1>3. job'.goal = job.goal /\ job'.step = job.step + 1
    BY <1>1, <1>2 DEF Jobs
  <1> HIDE DEF o
  <1>4. StillHold(o, db) /\ MayCreate(o) /\ ClearsRows(o, db) /\ db.schema = Alter(db.schema, o)
    BY <1>1, SameHold DEF MayCreate, ClearsRows, Alter
  <1> QED BY <1>1, <1>3, <1>4, DataAdvances DEF o

LEMMA RecordData ==
    ASSUME IInv, SchemaOk, DataOk, Record
    PROVE  DataOk'
  <1>1. /\ Running /\ disk' = db' /\ UNCHANGED cut
        /\ db' = [db EXCEPT !.revision = Goes]
        /\ job' = IF Goes = job.goal THEN NULL ELSE [job EXCEPT !.step = 1, !.open = FALSE]
    BY DEF Record, Goes
  <1>2. DOMAIN db = Fields /\ job \in Jobs
    BY <1>1 DEF IInv, WellFormed, JobOk
  <1>3. db'.schema = db.schema /\ db'.firmware = db.firmware
    BY <1>1, <1>2 DEF Fields
  <1> SUFFICES ASSUME cut = "no"
               PROVE  Indexed(db') /\ (Running' => Cleared(db', job'.goal, job'.step))
    BY <1>1 DEF DataOk
  <1>4. Indexed(db')
    BY <1>1, <1>3 DEF DataOk, Indexed
  <1>5. ASSUME Running' PROVE Cleared(db', job'.goal, job'.step)
    <2>1. job'.step = 1
      BY <1>1, <1>2, <1>5 DEF Running, Jobs
    <2>2. SchemaOk'
      BY RecordKeepsSchema
    <2>3. db'.schema = After(SchemaAt[db'.revision], Steps', job'.step - 1)
      BY <1>1, <1>5, <2>2 DEF SchemaOk
    <2>4. job'.step - 1 = 0
      BY <2>1
    <2>5. db'.schema = SchemaAt[db'.revision]
      BY <2>3, <2>4, AfterNone
    <2> QED BY <1>4, <2>1, <2>5, ClearedAtFirst
  <1> QED BY <1>4, <1>5

LEMMA StartData ==
    ASSUME IInv, SchemaOk, DataOk, NEW goal \in Goals, Start(goal)
    PROVE  DataOk'
  <1>1. /\ ~Running /\ db = disk /\ db' = db /\ disk' = disk /\ UNCHANGED cut
        /\ job' = [goal |-> goal, step |-> 1, open |-> FALSE, owner |-> NULL]
    BY DEF Start, IInv
  <1>2. job'.step = 1
    BY <1>1
  <1>3. cut = "no" => db.schema = SchemaAt[db.revision] /\ Indexed(db)
    BY <1>1 DEF SchemaOk, DataOk
  <1>4. cut = "no" => Cleared(db, job'.goal, 1)
    BY <1>3, ClearedAtFirst
  <1> QED BY <1>1, <1>2, <1>3, <1>4 DEF DataOk

LEMMA StopData ==
    ASSUME IInv, DataOk, Stop, cut' = "no" => cut = "no"
    PROVE  DataOk'
  BY DEF Stop, DataOk, Running

LEMMA OperateData ==
    ASSUME IInv, SchemaOk, DataOk, Operate
    PROVE  DataOk'
  <1>1. ASSUME NEW after, Use(after), ~Running, Indexed(disk) => Indexed(after)
        PROVE  DataOk'
    BY <1>1 DEF Use, DataOk, Running
  <1>2. DOMAIN disk = Fields
    BY DEF IInv, WellFormed
  <1>3. \A rows : /\ [disk EXCEPT !.firmware = rows].schema = disk.schema
                  /\ [disk EXCEPT !.firmware = rows].firmware = rows
                  /\ [disk EXCEPT !.users = rows].schema = disk.schema
                  /\ [disk EXCEPT !.users = rows].firmware = disk.firmware
                  /\ [disk EXCEPT !.devices = rows].schema = disk.schema
                  /\ [disk EXCEPT !.devices = rows].firmware = disk.firmware
    BY <1>2 DEF Fields
  <1>4. ASSUME NEW label \in Labels, NEW image \in Images, Upload(label, image) PROVE DataOk'
    <2>1. PICK rows : /\ \A x \in Unique : <<"firmware", x>> \in disk.schema => Holds(x, rows)
                      /\ Use([disk EXCEPT !.firmware = rows])
      BY <1>4 DEF Upload
    <2>2. ~Running
      BY <1>4 DEF Upload, Serving
    <2> DEFINE after == [disk EXCEPT !.firmware = rows]
    <2>3. after.schema = disk.schema /\ after.firmware = rows
      BY <1>3
    <2>4. Use(after)
      BY <2>1
    <2> HIDE DEF after
    <2>5. Indexed(after)
      BY <2>1, <2>3 DEF Indexed
    <2> QED BY <1>1, <2>2, <2>4, <2>5
  <1>5. CASE AddUser
    <2>1. PICK u : Use([disk EXCEPT !.users = disk.users \cup {u}])
      BY <1>5 DEF AddUser
    <2> DEFINE after == [disk EXCEPT !.users = disk.users \cup {u}]
    <2>2. Use(after) /\ ~Running
      BY <1>5, <2>1 DEF AddUser, Serving
    <2>3. after.schema = disk.schema /\ after.firmware = disk.firmware
      BY <1>3
    <2> HIDE DEF after
    <2> QED BY <1>1, <2>2, <2>3 DEF Indexed
  <1>6. CASE AddDevice
    <2>1. PICK rows : Use([disk EXCEPT !.devices = rows])
      BY <1>6 DEF AddDevice
    <2> DEFINE after == [disk EXCEPT !.devices = rows]
    <2>2. Use(after) /\ ~Running
      BY <1>6, <2>1 DEF AddDevice, Serving
    <2>3. after.schema = disk.schema /\ after.firmware = disk.firmware
      BY <1>3
    <2> HIDE DEF after
    <2> QED BY <1>1, <2>2, <2>3 DEF Indexed
  <1>7. CASE DeleteRow
    <2>1. PICK r : Use([disk EXCEPT !.firmware = disk.firmware \ {r}])
      BY <1>7 DEF DeleteRow
    <2> DEFINE rows == disk.firmware \ {r}
               after == [disk EXCEPT !.firmware = rows]
    <2>2. Use(after) /\ ~Running
      BY <1>7, <2>1 DEF DeleteRow, Serving
    <2>3. after.schema = disk.schema /\ after.firmware = rows /\ rows \in SUBSET disk.firmware
      BY <1>3
    <2> HIDE DEF after, rows
    <2> QED BY <1>1, <2>2, <2>3, HoldsOfFewer DEF Indexed
  <1>8. CASE LoseBlob
    BY <1>8 DEF LoseBlob, DataOk, Serving, Running
  <1> QED BY <1>4, <1>5, <1>6, <1>7, <1>8, StartData DEF Operate

-----------------------------------------------------------------------------
LEMMA DataStep ==
    ASSUME IInv, SchemaOk, DataOk, [Next]_vars
    PROVE  DataOk'
  <1>1. CASE Rejected
    <2>1. Stop /\ (cut' = "no" => cut = "no")
      BY <1>1 DEF Rejected, Die, Stopped
    <2> QED BY <2>1, StopData
  <1>2. CASE RequireBlobs
    <2>1. /\ Running /\ job.step \in DOMAIN Steps /\ Steps[job.step].do = "require blobs"
          /\ (Done(db, FALSE) \/ Refuse)
      BY <1>2 DEF RequireBlobs, At
    <2>2. CASE Done(db, FALSE)
      BY <2>1, <2>2, LeavesData
    <2>3. CASE Refuse
      BY <2>3, StopData DEF Refuse
    <2> QED BY <2>1, <2>2, <2>3
  <1>3. CASE CopyRows
    <2>1. /\ Running /\ job.step \in DOMAIN Steps /\ Steps[job.step].do = "copy rows" /\ Done(db, TRUE)
      BY <1>3 DEF CopyRows, At
    <2> QED BY <2>1, LeavesData
  <1>4. CASE RefuseShared
    <2>1. CASE Shared
      BY <1>4, <2>1, StopData DEF RefuseShared, Refuse
    <2> QED BY <1>4, <2>1, SharedData
  <1>5. CASE Crash
    <2>1. Stop /\ cut = "no"
      BY <1>5 DEF Crash
    <2> QED BY <2>1, StopData
  <1>6. CASE UNCHANGED vars
    BY <1>6 DEF vars, DataOk, Running
  <1>7. CASE Migrate
    BY <1>1, <1>2, <1>3, <1>4, <1>7, CreateData, DropData, DeleteData, SizesData, FindData,
       AssignData, LinksData, RecordData DEF Migrate
  <1> QED BY <1>5, <1>6, <1>7, OperateData DEF Next

(* Only a rejected operation stops an upgrade for good.                    *)
LEMMA NeverCut ==
    ASSUME IInv, SchemaOk, UpOk, [Next]_vars
    PROVE  cut' # "upgrade"
  <1>1. CASE Rejected
    <2>1. cut' = IF cut = "no" THEN (IF Ups THEN "upgrade" ELSE "downgrade") ELSE cut
      BY <1>1 DEF Rejected, Die, Stopped
    <2>2. cut = "no" => ~Ups
      <3>1. Running
        BY <1>1 DEF Rejected, At
      <3> QED BY <1>1, <3>1, NotRejected DEF UpOk
    <2> QED BY <2>1, <2>2 DEF UpOk
  <1>2. CASE Crash
    BY <1>2 DEF Crash, UpOk
  <1>3. \A after, writes : Done(after, writes) => cut' = cut
    BY DEF Done
  <1>4. Refuse => cut' = cut
    BY DEF Refuse
  <1>5. CASE CreateStep \/ DropStep \/ DeleteOlder \/ RequireBlobs \/ FillSizes \/ CopyRows
    BY <1>3, <1>4, <1>5 DEF CreateStep, DropStep, DeleteOlder, RequireBlobs, FillSizes, CopyRows, UpOk
  <1>6. CASE RefuseShared \/ FindFirstOwner \/ AssignOwner \/ FillLinks \/ Record
    BY <1>3, <1>4, <1>6 DEF RefuseShared, FindFirstOwner, AssignOwner, FillLinks, Record, UpOk
  <1>7. CASE Operate
    BY <1>7 DEF Operate, Start, Upload, AddUser, AddDevice, DeleteRow, LoseBlob, Use, UpOk
  <1>8. CASE UNCHANGED vars
    BY <1>8 DEF vars, UpOk
  <1> QED BY <1>1, <1>2, <1>5, <1>6, <1>7, <1>8 DEF Next, Migrate

LEMMA UpInit == Init => UpOk
  <1> SUFFICES ASSUME Init PROVE UpOk
    OBVIOUS
  <1>1. /\ disk.schema = {} /\ db = disk /\ ~Running /\ cut = "no"
    BY DEF Init, Running
  <1> QED BY <1>1 DEF UpOk, DataOk, Indexed

(* No rows that the server or an operator can have left make an upgrade    *)
(* stop on an operation that the database rejects: 0003 has deleted, 0010  *)
(* refused and 0012 filled what the index they create could object to.     *)
THEOREM UpgradesAreNotRejected == Spec => []UpgradesComplete
  <1>1. IInv /\ SchemaOk /\ UpOk /\ [Next]_vars => UpOk'
    BY DataStep, NeverCut DEF UpOk
  <1>2. IInv /\ SchemaOk /\ [Next]_vars => SchemaOk'
    BY SchemaStep
  <1>3. UpOk => UpgradesComplete
    BY DEF UpOk, UpgradesComplete
  <1> QED BY <1>1, <1>2, <1>3, SchemaInit, UpInit, Invariant, PTL DEF Spec
=============================================================================
