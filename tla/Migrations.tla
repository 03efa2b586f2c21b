----------------------------- MODULE Migrations -----------------------------
(***************************************************************************)
(* The database file through the revisions of backend/alembic/versions/,   *)
(* as an operator runs `alembic upgrade` and `downgrade` between uses of   *)
(* the server.  A migration is the list of its operations.                 *)
(*                                                                         *)
(* Alembic treats SQLite as having no transactional DDL, and the driver    *)
(* begins a transaction at the first statement that writes rows: until     *)
(* then every operation is final at once, and from then on all of them     *)
(* are, with the new revision, one transaction.                            *)
(***************************************************************************)
EXTENDS Naturals, Sequences

CONSTANTS
    Labels,         \* <<model, version>> pairs
    Images,         \* binaries; a blob and its SHA-256
    MaxRows,        \* bound on the firmware rows
    MaxUsers,       \* bound on the accounts
    Goals,          \* the revisions that commands are given
    NULL

(* An alembic command: where it is to end, the operation it is at, whether *)
(* a transaction is open, and the first owner once it has looked for one.  *)
Jobs == [goal : Nat, step : Nat \ {0}, open : BOOLEAN, owner : 1..MaxUsers \cup {NULL}]

ASSUME MigrationsAssumption ==
    /\ MaxRows \in Nat
    /\ MaxUsers \in Nat
    /\ NULL \notin Nat \cup Images \cup Jobs

VARIABLES
    disk,       \* the database file: what is committed
    db,         \* the same as alembic's connection sees it
    job,        \* the alembic command under way, or NULL
    blobs,      \* the images whose file is in firmware_dir
    cut         \* how the first migration to stop half way was stopped

vars == <<disk, db, job, blobs, cut>>
-----------------------------------------------------------------------------
(* Operations.  <<t, "*">> is table t, <<t, c>> a column added to it or an  *)
(* index on it.                                                            *)
Create(t, c) == [do |-> "create", on |-> <<t, c>>]
Drop(t, c) == [do |-> "drop", on |-> <<t, c>>]
Do(what) == [do |-> what]

Adding(t, names) == [i \in DOMAIN names |-> Create(t, names[i])]
Dropping(t, names) == [i \in DOMAIN names |-> Drop(t, names[i])]

(* Taken back in reverse order.                                            *)
Reversible(ops) ==
    [up |-> ops, down |-> [i \in DOMAIN ops |-> [ops[Len(ops) + 1 - i] EXCEPT !.do = "drop"]]]

(* Columns of the indexes that the data can refuse or that pin a column.   *)
IndexColumns ==
    [uq_firmware_model_version |-> {"label"},
     uq_firmware_model_sha256 |-> {"model", "sha256"},
     uq_firmware_owner_model_version |-> {"owner_id", "label"},
     uq_firmware_owner_model_sha256 |-> {"owner_id", "model", "sha256"},
     uq_firmware_download_id |-> {"download_id"},
     ix_firmware_owner_id |-> {"owner_id"},
     ix_devices_owner_id |-> {"owner_id"}]

Unique == DOMAIN IndexColumns \ {"ix_firmware_owner_id", "ix_devices_owner_id"}

Initial ==
    Reversible(Adding("firmware", <<"*", "ix_firmware_model">>)
               \o Adding("devices", <<"*", "ix_devices_device_id">>))

Users == Reversible(Adding("users", <<"*", "ix_users_username">>))

UniqueFirmware ==
    [up |-> <<Do("delete older"), Create("firmware", "uq_firmware_model_version")>>,
     down |-> <<Drop("firmware", "uq_firmware_model_version")>>]

OriginalFilename == Reversible(Adding("firmware", <<"original_filename">>))

DeviceCheckin == Reversible(Adding("devices", <<"poll_interval_seconds", "rssi", "ip">>))

(* The batch ALTER copies the table and renames the copy.                  *)
BatchAlter ==
    <<Create("_alembic_tmp_firmware", "*"), Do("copy rows"), Drop("_alembic_tmp_firmware", "*")>>

\* mutant: the blobs are looked for after the first ALTER
FirmwareSizeNotesLate ==
    [up |-> <<Create("firmware", "size_bytes"), Do("require blobs"), Create("firmware", "notes"),
              Do("fill sizes")>> \o BatchAlter,
     down |-> Dropping("firmware", <<"notes", "size_bytes">>)]

FirmwareSizeNotes ==
    [up |-> <<Do("require blobs"), Create("firmware", "size_bytes"), Create("firmware", "notes"),
              Do("fill sizes")>> \o BatchAlter,
     down |-> Dropping("firmware", <<"notes", "size_bytes">>)]

FirmwareActive == Reversible(Adding("firmware", <<"active">>))

DeviceLastError == Reversible(Adding("devices", <<"last_error", "failed_attempts">>))

DeviceEvents == Reversible(Adding("device_events", <<"*", "ix_device_events_device_id_id">>))

UniqueBinary ==
    [up |-> <<Do("refuse shared"), Create("firmware", "uq_firmware_model_sha256")>>,
     down |-> <<Drop("firmware", "uq_firmware_model_sha256")>>]

EmailIdentity ==
    [up |-> <<Drop("users", "*")>> \o Adding("users", <<"*", "ix_users_email">>)
            \o Adding("refresh_tokens", <<"*", "ix_refresh_tokens_user_id">>),
     down |-> <<Drop("refresh_tokens", "*"), Drop("users", "*")>>
              \o Adding("users", <<"*", "ix_users_username">>)]

OwnerScoping ==
    [up |-> <<Do("find first owner"), Create("firmware", "owner_id"),
              Create("firmware", "download_id"), Create("devices", "owner_id"),
              Do("assign owner"), Do("fill links"), Create("firmware", "uq_firmware_download_id")>>
            \o Dropping("firmware", <<"uq_firmware_model_version", "uq_firmware_model_sha256">>)
            \o Adding("firmware", <<"uq_firmware_owner_model_version",
                                    "uq_firmware_owner_model_sha256", "ix_firmware_owner_id">>)
            \o <<Create("devices", "ix_devices_owner_id")>>,
     down |-> <<Drop("devices", "ix_devices_owner_id")>>
              \o Dropping("firmware", <<"ix_firmware_owner_id", "uq_firmware_owner_model_sha256",
                                        "uq_firmware_owner_model_version">>)
              \o Adding("firmware", <<"uq_firmware_model_version", "uq_firmware_model_sha256">>)
              \o <<Drop("firmware", "uq_firmware_download_id"), Drop("devices", "owner_id"),
                   Drop("firmware", "download_id"), Drop("firmware", "owner_id")>>]

DeviceRegistration == Reversible(Adding("devices", <<"secret_hash", "enabled", "registered_at">>))

AccountPublicKey == Reversible(Adding("users", <<"public_key">>))

Revisions ==
    <<Initial, Users, UniqueFirmware, OriginalFilename, DeviceCheckin, FirmwareSizeNotes,
      FirmwareActive, DeviceLastError, DeviceEvents, UniqueBinary, EmailIdentity,
      OwnerScoping, DeviceRegistration, AccountPublicKey>>

Newest == Len(Revisions)

ASSUME GoalsAssumption == Goals \subseteq 0..Newest

Removes(o, e) == o.do = "drop" /\ (o.on = e \/ o.on = <<e[1], "*">>)

Alter(schema, o) ==
    CASE o.do = "create" -> schema \cup {o.on}
      [] o.do = "drop" -> {e \in schema : ~Removes(o, e)}
      [] OTHER -> schema

(* What the upgrades up to a revision leave behind: what one of them        *)
(* creates and nothing after that removes.                                 *)
Lasts(v, i, r) ==
    LET o == Revisions[v].up[i] IN
    /\ o.do = "create"
    /\ \A w \in v..r : \A j \in DOMAIN Revisions[w].up :
          w > v \/ j > i => ~Removes(Revisions[w].up[j], o.on)

SchemaAt ==
    [r \in 0..Newest |->
        UNION {{Revisions[v].up[i].on : i \in {i \in DOMAIN Revisions[v].up : Lasts(v, i, r)}} :
               v \in 1..r}]
-----------------------------------------------------------------------------
Running == job # NULL

Ups == job.goal > db.revision

Steps == IF Ups THEN Revisions[db.revision + 1].up ELSE Revisions[db.revision].down

At(what) == Running /\ job.step \in DOMAIN Steps /\ Steps[job.step].do = what

(* One operation done; `writes` tells whether it wrote rows.               *)
Done(after, writes) ==
    /\ db' = after
    /\ job' = [job EXCEPT !.step = @ + 1, !.open = @ \/ writes]
    /\ disk' = IF job'.open THEN disk ELSE after
    /\ UNCHANGED <<blobs, cut>>

(* The command ends; what was not committed is rolled back.                *)
Stop ==
    /\ job' = NULL
    /\ db' = disk
    /\ UNCHANGED <<disk, blobs>>

(* `alembic upgrade` or `downgrade` to a revision.                         *)
Start(goal) ==
    /\ ~Running
    /\ goal # disk.revision
    /\ job' = [goal |-> goal, step |-> 1, open |-> FALSE, owner |-> NULL]
    /\ UNCHANGED <<disk, db, blobs, cut>>

(* update_to_step and the commit that ends each migration.                 *)
Record ==
    /\ Running
    /\ job.step \notin DOMAIN Steps
    /\ LET reached == IF Ups THEN db.revision + 1 ELSE db.revision - 1
       IN  /\ db' = [db EXCEPT !.revision = reached]
           /\ job' = IF reached = job.goal THEN NULL
                     ELSE [job EXCEPT !.step = 1, !.open = FALSE]
    /\ disk' = db'
    /\ UNCHANGED <<blobs, cut>>

(* RuntimeError of 0006 or 0010.                                           *)
Refuse == Stop /\ UNCHANGED cut

Stopped(how) == Stop /\ cut' = IF cut = "no" THEN how ELSE cut

(* The database rejects the operation.                                     *)
Die == Stopped(IF Ups THEN "upgrade" ELSE "downgrade")

(* The process or the machine stops; it is noted if that tears the file:   *)
(* inside a transaction it does not.                                       *)
Crash ==
    /\ Running /\ cut = "no"
    /\ Stop
    /\ cut' = IF disk.schema = SchemaAt[disk.revision] THEN cut ELSE "crash"
-----------------------------------------------------------------------------
Clash(index, r, s) ==
    /\ r.id # s.id
    /\ \A c \in IndexColumns[index] : r[c] # NULL /\ r[c] = s[c]

Holds(index, rows) == \A r, s \in rows : ~Clash(index, r, s)

Target == Steps[job.step].on

(* The table is there, the thing is not, and a unique index would hold.    *)
Creatable ==
    /\ Target \notin db.schema
    /\ Target[2] = "*" \/ <<Target[1], "*">> \in db.schema
    /\ Target[2] \in Unique => Holds(Target[2], db.firmware)

(* It is there, and a column is in no index.                               *)
Droppable ==
    /\ Target \in db.schema
    /\ \A e \in db.schema :
          e[1] = Target[1] /\ e[2] \in DOMAIN IndexColumns => Target[2] \notin IndexColumns[e[2]]

CreateStep ==
    /\ At("create")
    /\ Creatable
    /\ Done([db EXCEPT !.schema = Alter(@, Steps[job.step])], FALSE)

(* A table goes with its indexes and rows, a column with its values.       *)
DropStep ==
    /\ At("drop")
    /\ Droppable
    /\ LET left(t, rows) ==
              IF Target = <<t, "*">> THEN {}
              ELSE {[c \in DOMAIN r |-> IF Target = <<t, c>> THEN NULL ELSE r[c]] : r \in rows}
       IN  Done([db EXCEPT !.schema = Alter(@, Steps[job.step]),
                           !.firmware = left("firmware", @),
                           !.devices = left("devices", @),
                           !.users = IF Target = <<"users", "*">> THEN {} ELSE @], FALSE)

Rejected ==
    /\ \/ At("create") /\ ~Creatable
       \/ At("drop") /\ ~Droppable
    /\ Die
-----------------------------------------------------------------------------
\* mutant: the oldest row of a version is the one kept
DeleteNewer ==
    /\ At("delete older")
    /\ Done([db EXCEPT !.firmware =
                {r \in @ : \A s \in @ : s.label = r.label => s.id >= r.id}], TRUE)

DeleteOlder ==
    /\ At("delete older")
    /\ Done([db EXCEPT !.firmware =
                {r \in @ : \A s \in @ : s.label = r.label => s.id <= r.id}], TRUE)

Missing == {r \in db.firmware : r.sha256 \notin blobs}

RequireBlobs ==
    /\ At("require blobs")
    /\ IF Missing = {} THEN Done(db, FALSE) ELSE Refuse

(* One UPDATE a row: with no rows, nothing is written.                     *)
FillSizes ==
    /\ At("fill sizes")
    /\ Done([db EXCEPT !.firmware = {[r EXCEPT !.size_bytes = r.sha256] : r \in @}],
            db.firmware # {})

CopyRows == At("copy rows") /\ Done(db, TRUE)

\* mutant: two rows may share a binary
SharedByThree ==
    \E r, s, t \in db.firmware :
        /\ r.id < s.id /\ s.id < t.id
        /\ Clash("uq_firmware_model_sha256", r, s)
        /\ Clash("uq_firmware_model_sha256", s, t)

Shared == \E r, s \in db.firmware : Clash("uq_firmware_model_sha256", r, s)

RefuseShared ==
    /\ At("refuse shared")
    /\ IF Shared THEN Refuse ELSE Done(db, FALSE)

FirstOwner == IF db.users = {} THEN NULL ELSE CHOOSE u \in db.users : \A v \in db.users : u <= v

FindFirstOwner ==
    /\ At("find first owner")
    /\ db' = db
    /\ job' = [job EXCEPT !.step = @ + 1, !.owner = FirstOwner]
    /\ UNCHANGED <<disk, blobs, cut>>

AssignOwner ==
    /\ At("assign owner")
    /\ IF job.owner = NULL THEN Done(db, FALSE)
       ELSE Done([db EXCEPT !.firmware = {[r EXCEPT !.owner_id = job.owner] : r \in @},
                            !.devices = {[r EXCEPT !.owner_id = job.owner] : r \in @}], TRUE)

\* mutant: the links are part of assigning the owner
FillOwnedLinks ==
    /\ At("fill links")
    /\ Done([db EXCEPT !.firmware =
                {[r EXCEPT !.download_id = IF r.owner_id = NULL THEN NULL ELSE r.id] : r \in @}],
            db.firmware # {})

(* secrets.token_urlsafe: links that no other row has; a row's id stands    *)
(* for the link drawn for it.                                              *)
FillLinks ==
    /\ At("fill links")
    /\ Done([db EXCEPT !.firmware = {[r EXCEPT !.download_id = r.id] : r \in @}],
            db.firmware # {})
-----------------------------------------------------------------------------
(* The server between two commands, as far as the tables of the recorded   *)
(* revision allow: a row may be added if no unique index objects.          *)
Serving == ~Running /\ disk.schema = SchemaAt[disk.revision]

NextId(rows) == IF rows = {} THEN 1 ELSE 1 + CHOOSE i \in {r.id : r \in rows} :
                                                \A r \in rows : r.id <= i

Use(after) == disk' = after /\ db' = after /\ UNCHANGED <<job, cut>>

Upload(label, image) ==
    /\ Serving /\ disk.revision >= 1
    /\ NextId(disk.firmware) <= MaxRows
    /\ \E u \in IF disk.revision >= 12 THEN disk.users ELSE {NULL} :
          LET id == NextId(disk.firmware)
              row == [id |-> id, label |-> label, model |-> label[1], sha256 |-> image,
                      owner_id |-> u,
                      size_bytes |-> IF disk.revision >= 6 THEN image ELSE NULL,
                      download_id |-> IF disk.revision >= 12 THEN id ELSE NULL]
              rows == disk.firmware \cup {row}
          IN  /\ \A index \in Unique : <<"firmware", index>> \in disk.schema => Holds(index, rows)
              /\ Use([disk EXCEPT !.firmware = rows])
    /\ blobs' = blobs \cup {image}

AddUser ==
    /\ Serving /\ disk.revision >= 2
    /\ \E u \in (1..MaxUsers) \ disk.users :
          /\ \A v \in disk.users : v < u
          /\ Use([disk EXCEPT !.users = @ \cup {u}])
    /\ UNCHANGED blobs

AddDevice ==
    /\ Serving /\ disk.revision >= 1
    /\ disk.devices = {}
    /\ \E u \in IF disk.revision >= 12 THEN disk.users ELSE {NULL} :
          Use([disk EXCEPT !.devices = {[id |-> 1, owner_id |-> u]}])
    /\ UNCHANGED blobs

(* The operator deletes a version by hand, as 0010 asks for.               *)
DeleteRow ==
    /\ Serving
    /\ \E r \in disk.firmware : Use([disk EXCEPT !.firmware = @ \ {r}])
    /\ UNCHANGED blobs

(* A blob is missing: 0006 is the only revision to look.                   *)
LoseBlob ==
    /\ Serving /\ disk.revision < 6
    /\ \E i \in blobs : blobs' = blobs \ {i}
    /\ UNCHANGED <<disk, db, job, cut>>
-----------------------------------------------------------------------------
Init ==
    /\ disk = [revision |-> 0, schema |-> {}, firmware |-> {}, devices |-> {}, users |-> {}]
    /\ db = disk
    /\ job = NULL
    /\ blobs = {}
    /\ cut = "no"

Migrate ==
    \/ CreateStep \/ DropStep \/ Rejected
    \/ DeleteOlder \/ RequireBlobs \/ FillSizes \/ CopyRows \/ RefuseShared
    \/ FindFirstOwner \/ AssignOwner \/ FillLinks
    \/ Record

Operate ==
    \/ \E goal \in Goals : Start(goal)
    \/ \E label \in Labels, image \in Images : Upload(label, image)
    \/ AddUser \/ AddDevice \/ DeleteRow \/ LoseBlob

Next == Migrate \/ Operate \/ Crash

Spec == Init /\ [][Next]_vars
-----------------------------------------------------------------------------
(* Whatever an operator has run, up or down, and whether 0006 or 0010      *)
(* refused, the schema is the one the recorded revision stands for, unless *)
(* a crash tore a migration or the database stopped one half way.          *)
SchemaMatchesRevision ==
    ~Running /\ cut = "no" => disk.schema = SchemaAt[disk.revision]

(* No data that the server of a revision can have written makes an upgrade *)
(* stop on an operation the database rejects: what could be rejected is    *)
(* cleared (0003), refused beforehand (0006, 0010), or implied by the      *)
(* index it replaces (0012).                                               *)
UpgradesComplete == cut # "upgrade"

(* No command loses a published row but an older one of the same version   *)
(* that 0003 finds beside it, until a downgrade drops the whole table.     *)
KeepsRows ==
    Running /\ (Ups \/ disk.revision > 1) =>
        \A r \in disk.firmware :
            \/ \E s \in disk'.firmware : s.id = r.id /\ s.label = r.label /\ s.sha256 = r.sha256
            \/ \E s \in disk'.firmware : s.label = r.label /\ s.id > r.id

RowsKept == [][KeepsRows]_vars

(* From 0012 on every row can be downloaded, under a link of its own, and  *)
(* says the size of its own binary, whenever it was published and however  *)
(* often the database went up and down without being torn.                 *)
RowsServable ==
    Serving /\ disk.revision >= 12 =>
        \A r \in disk.firmware :
            /\ r.size_bytes = r.sha256
            /\ r.download_id # NULL
            /\ \A s \in disk.firmware : s.download_id = r.download_id => s = r
=============================================================================
