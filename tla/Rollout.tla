------------------------------ MODULE Rollout ------------------------------
(***************************************************************************)
(* A unit of Device and the catalogue its owner publishes to: the server   *)
(* answers with what the catalogue offers the version that the unit        *)
(* reports, and shows the owner what the unit last told it.                *)
(*                                                                         *)
(* The two do not see alike.  The public key in a unit's config.json stays *)
(* when the account replaces its own, and the server reads a version as    *)
(* parse_version does, the unit as parseVersionSegments does.              *)
(*                                                                         *)
(* Trouble is what no step of the unit answers for and what passes: lost   *)
(* power or WiFi, a digest that cannot be read this once.  A request or an *)
(* answer may be lost at any poll, and an update may fail at any step.     *)
(***************************************************************************)
EXTENDS Device

CONSTANTS
    Owner,
    Labels,         \* versions as the server reads them
    Reported,       \* [Images -> Labels]: how it reads FIRMWARE_VERSION
    DeviceReads,    \* [Labels -> Versions]: how the unit reads a row's version
    OtherKey,       \* signatures of a key of the account that is not the one
                    \* in this unit's config.json
    Boots,          \* images whose setup() gets through on this unit
    Releases,       \* the rows the owner may come to publish
    MaxRows,        \* bound: how many of them it does publish
    MaxTrouble      \* bound: trouble comes this often and then no more

VARIABLES
    firmware,       \* the owner's rows
    told,           \* devices: what the unit's last check-in reported
    trouble         \* how often there was trouble

rvars == <<vars, firmware, told, trouble>>

Catalogue == INSTANCE Catalogue WITH Owners <- {Owner}, Versions <- Labels

(* What the server has checked of every row it published: its signature is *)
(* the manifest's, by the key that the account had then.                   *)
ASSUME RolloutAssumption ==
    /\ MaxRows \in Nat /\ MaxTrouble \in Nat
    /\ Boots \subseteq Images
    /\ OtherKey \subseteq Signatures
    /\ Reported \in [Images -> Labels]
    /\ DeviceReads \in [Labels -> Versions]
    /\ Releases \subseteq Catalogue!Rows
    /\ \A r \in Releases :
          Covers[r.signature] =
              IF r.signature \in OtherKey THEN NoManifest
              ELSE [model |-> r.model, version |-> DeviceReads[r.version], image |-> r.image]

-----------------------------------------------------------------------------
(* A unit is registered for the model of its first image.  Under any other *)
(* it is turned away before anything of it is recorded.                    *)
Model == BuildModel[Factory]
Known == BuildModel[RunningImage] = Model

(* The request of check(): attempts go with an error only.                 *)
Report ==
    [version |-> Reported[RunningImage],
     failing |-> lastError # "",
     attempts |-> IF lastError = "" THEN 0 ELSE attempts]

\* mutant: the columns of an error are kept once they are set
RecordOnce == told' = IF Known /\ ~told.failing THEN Report ELSE told

Record == told' = IF Known THEN Report ELSE told

\* mutant: the latest row is on offer whatever the unit runs
OffersLatest == {i \in Catalogue!Latest(Owner, Model) : Known}

(* CheckUpdate.execute, for the version reported.                          *)
Offers ==
    {i \in Catalogue!Latest(Owner, Model) :
        Known /\ IsVersionNewer(firmware[i].version, Reported[RunningImage])}

Answered ==
    /\ \/ Offers = {} /\ CheckWithoutOffer
       \/ \E i \in Offers :
             \/ CheckIgnores(DeviceReads[firmware[i].version], firmware[i].signature)
             \/ CheckAccepts(DeviceReads[firmware[i].version], firmware[i].signature)
    /\ Record
    /\ UNCHANGED <<firmware, trouble>>

(* The request is lost, or the answer to it.                               *)
Unanswered ==
    /\ CheckWithoutOffer
    /\ Record \/ UNCHANGED told
    /\ UNCHANGED <<firmware, trouble>>

(* The link leads to the row it was offered with, withdrawn or not.        *)
Served == {firmware[i].image : i \in {j \in DOMAIN firmware : firmware[j].signature = signature}}

Fetch ==
    \/ DownloadRefused \/ DownloadStarts \/ DownloadBreaks
    \/ \E bytes \in Served : DownloadEnds(bytes)

FailsOpen == Verified /\ CarriesRunningDigest

(* An image that does not boot restarts before it is confirmed, every time.*)
SetupEnds ==
    \/ SetupHalts
    \/ RunningImage \in Boots /\ \E marked \in BOOLEAN : SetupDone(marked)
    \/ RunningImage \notin Boots /\ SetupRestarts

Works ==
    /\ \/ Bootloader \/ SetupEnds
       \/ Fetch
       \/ OTA /\ ~FailsOpen
    /\ UNCHANGED <<firmware, told, trouble>>

Trouble ==
    /\ trouble < MaxTrouble
    /\ trouble' = trouble + 1
    /\ PowerLoss \/ SetupRestarts \/ WiFiLost \/ FailsOpen
    /\ UNCHANGED <<firmware, told>>

Publish ==
    /\ Len(firmware) < MaxRows
    /\ \E r \in Releases : Catalogue!Publish(r)
    /\ UNCHANGED <<vars, told, trouble>>

Withdraw ==
    /\ \E id \in DOMAIN firmware : firmware[id].active /\ Catalogue!Withdraw(Owner, id)
    /\ UNCHANGED <<vars, told, trouble>>

RInit ==
    /\ Init
    /\ Catalogue!CatalogueInit
    /\ told = [version |-> NoVersion, failing |-> FALSE, attempts |-> 0]
    /\ trouble = 0

RNext == Answered \/ Unanswered \/ Works \/ Trouble \/ Publish \/ Withdraw

(* Every wait of the sketch has an end, and loop() runs again.             *)
RSpec == RInit /\ [][RNext]_rvars /\ WF_rvars(Answered \/ Works)
-----------------------------------------------------------------------------
(* A unit refuses an update for what its owner can find out and for        *)
(* nothing else: for its signature only if it was made with a key that the *)
(* unit was not given, and as a downgrade only if server and unit order    *)
(* the row's version and the running one differently.  The manifest that   *)
(* the unit builds, from its own model, the answer and the bytes behind    *)
(* the link, is otherwise the one that was verified at upload, whatever    *)
(* was published, withdrawn or flashed since.                              *)
OrdersDiffer(r) ==
    /\ IsVersionNewer(r.version, Reported[RunningImage])
    /\ ~IsVersionNewer(DeviceReads[r.version], BuildVersion[RunningImage])

RefusedForCause ==
    /\ lastError = "signature" =>
          failed \in OtherKey /\ \E i \in DOMAIN firmware : firmware[i].signature = failed
    /\ lastError = "downgrade" =>
          \E i \in DOMAIN firmware : firmware[i].signature = failed /\ OrdersDiffer(firmware[i])

(* A unit that is left alone comes to rest: it runs an image that nothing  *)
(* on offer is newer than, or has dropped the one that is, after its four  *)
(* attempts or as the image it already runs.  Or the image it last flashed *)
(* cannot read its config.json.                                            *)
AtRest ==
    \/ pc = "halted"
    \/ pc = "idle" /\ \A i \in Offers : Ignored(firmware[i].signature)

(* Nothing in the code ends two loops.  An image that does not boot is     *)
(* rolled back and flashed again, and one that reports an older version    *)
(* than it was published under is, unless a digest tells that it runs.     *)
Lasts(r) ==
    /\ r.image \in Boots
    /\ r.image \in HasDigest \/ ~IsVersionNewer(r.version, Reported[r.image])

Loops == RunningImage \notin Boots \/ \E i \in Offers : ~Lasts(firmware[i])

Settles == <>[](AtRest \/ Loops)

(* A unit at rest behind what is on offer is seen to be so: its row says   *)
(* what version it runs, and why, unless the image on offer is its own.    *)
(* Of two units the row says nothing: of one that hangs in setup(), and of *)
(* one that runs another model's image, which is turned away unrecorded.   *)
Silent == pc = "halted" \/ ~Known

Explained ==
    /\ told.version = Reported[RunningImage]
    /\ \A i \in Offers :
          firmware[i].signature # skipped => told.failing /\ told.attempts > MaxAttempts

StallIsShown == <>[](Explained \/ Silent \/ Loops)
=============================================================================
