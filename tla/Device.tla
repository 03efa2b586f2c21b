------------------------------- MODULE Device -------------------------------
(***************************************************************************)
(* One unit in the field: esp32/main/main.ino (setup, loop) and            *)
(* esp32/main/ota.cpp (check, downloadFirmwareToFS, OTA), on a flash with  *)
(* two application slots and a LittleFS partition.                         *)
(*                                                                         *)
(* The server is the environment: an answer is any version and signature,  *)
(* a download any image.  Power may be lost before any step.  The          *)
(* bootloader and the Update library are modelled from how the sketch uses *)
(* them.                                                                   *)
(***************************************************************************)
EXTENDS VersionOrder

CONSTANTS
    Images,         \* complete application images; a file and its SHA-256
    Models,
    Versions,       \* parsed version labels
    Signatures,
    BuildModel,     \* [Images -> Models]: DEVICE_MODEL compiled in
    BuildVersion,   \* [Images -> Versions]: FIRMWARE_VERSION compiled in
    Covers,         \* [Signatures -> Manifests or NoManifest]: the manifest a
                    \* signature verifies for under config.json's public_key
    HasDigest,      \* images whose header says a digest is appended
    ConfigReaders,  \* images whose loadConfig accepts this unit's config.json
    Factory,        \* the image flashed over USB
    NoManifest, NoSignature, NoVersion, NoFile, Partial

Manifests == [model : Models, version : Versions, image : Images]

ASSUME DeviceAssumption ==
    /\ Versions \subseteq Seq(Int)
    /\ BuildModel \in [Images -> Models]
    /\ BuildVersion \in [Images -> Versions]
    /\ Covers \in [Signatures -> Manifests \cup {NoManifest}]
    /\ NoManifest \notin Manifests
    /\ Factory \in Images
    /\ NoSignature \notin Signatures
    /\ NoFile \notin Images /\ Partial \notin Images /\ NoFile # Partial

Slots == {0, 1}
Other(slot) == 1 - slot

VARIABLES
    pc,         \* where setup() and loop() stand
    slots,      \* app0 and app1: an image, or Partial
    bootSlot,   \* the slot otadata selects
    otaState,   \* otadata's state of each slot
    running,    \* the slot the running image was booted from
    file,       \* /firmware.bin: an image, Partial or NoFile
    client,     \* whether `client` is allocated
    version, signature,             \* the standing offer
    skipped, failed, attempts,      \* skipped_signature, failed_signature, failed_attempts
    lastError

flash == <<slots, bootSlot, otaState, running>>
caches == <<skipped, failed, attempts, lastError>>
offer == <<version, signature>>
vars == <<pc, flash, file, client, offer, caches>>

Reasons == {"download", "hash", "signature", "downgrade", "open", "space", "end", "write"}

MaxAttempts == 3    \* the literal of shouldRetryFailedOffer

\* The steps of one poll that follows an offer check() let through.
Updating == {"offered", "downloading", "staged", "verified", "writing"}

RunningImage == slots[running]
-----------------------------------------------------------------------------
(* Globals as a fresh boot finds them. *)
RamCleared ==
    /\ client' = FALSE
    /\ version' = NoVersion
    /\ signature' = NoSignature
    /\ skipped' = NoSignature
    /\ failed' = NoSignature
    /\ attempts' = 0
    /\ lastError' = ""

(* ESP.restart(), and what a power loss amounts to. *)
Restart == pc' = "boot" /\ RamCleared

Init ==
    /\ pc = "boot"
    /\ slots = [s \in Slots |-> IF s = 0 THEN Factory ELSE Partial]
    /\ bootSlot = 0
    /\ running = 0
    /\ otaState = [s \in Slots |-> "valid"]
    /\ file = NoFile
    /\ client = FALSE
    /\ version = NoVersion
    /\ signature = NoSignature
    /\ skipped = NoSignature
    /\ failed = NoSignature
    /\ attempts = 0
    /\ lastError = ""
-----------------------------------------------------------------------------
(* The ESP-IDF bootloader with rollback enabled: an image still on trial   *)
(* when the chip resets is aborted, and the other slot is booted if it     *)
(* holds a confirmed image; a new image is put on trial.                   *)
FallsBack ==
    /\ otaState[bootSlot] = "pending"
    /\ otaState[Other(bootSlot)] = "valid"
    /\ slots[Other(bootSlot)] \in Images

BootTarget == IF FallsBack THEN Other(bootSlot) ELSE bootSlot

Booted(state) ==
    CASE state = "new" -> "pending"
      [] state = "pending" -> "aborted"
      [] OTHER -> state

Bootloader ==
    /\ pc = "boot"
    /\ bootSlot' = BootTarget
    /\ running' = BootTarget
    /\ otaState' = [otaState EXCEPT ![bootSlot] = Booted(@)]
    /\ pc' = "setup"
    /\ UNCHANGED <<slots, file, client, offer, caches>>

(* initFS, WiFi or SNTP failed. *)
SetupRestarts == pc = "setup" /\ Restart /\ UNCHANGED <<flash, file>>

\* mutant: the image is confirmed before setup() is through
SetupHaltsConfirmed ==
    /\ pc = "setup"
    /\ RunningImage \notin ConfigReaders
    /\ otaState' = [otaState EXCEPT ![running] = "valid"]
    /\ pc' = "halted"
    /\ UNCHANGED <<slots, bootSlot, running, file, client, offer, caches>>

(* loadConfig failed: `while (true) delay(1000)`. *)
SetupHalts ==
    /\ pc = "setup"
    /\ RunningImage \notin ConfigReaders
    /\ pc' = "halted"
    /\ UNCHANGED <<flash, file, client, offer, caches>>

(* Everything up; markFirmwareValid() confirms the image, or logs that it  *)
(* could not and carries on.                                               *)
SetupDone(marked) ==
    /\ pc = "setup"
    /\ RunningImage \in ConfigReaders
    /\ otaState' = IF marked THEN [otaState EXCEPT ![running] = "valid"] ELSE otaState
    /\ pc' = "idle"
    /\ UNCHANGED <<slots, bootSlot, running, file, client, offer, caches>>

(* loop() found WiFi gone and could not get it back. *)
WiFiLost == pc = "idle" /\ Restart /\ UNCHANGED <<flash, file>>
-----------------------------------------------------------------------------
(* check() *)
\* mutant: one retry too many
RetryOnceMore(n) == n <= MaxAttempts + 1

ShouldRetryFailedOffer(n) == n <= MaxAttempts

\* mutant: the failure count suppresses every offer, not the one that failed
IgnoredWhateverTheOffer(s) ==
    \/ skipped # NoSignature /\ s = skipped
    \/ ~ShouldRetryFailedOffer(attempts)

Ignored(s) ==
    \/ skipped # NoSignature /\ s = skipped
    \/ s = failed /\ ~ShouldRetryFailedOffer(attempts)

(* The request failed, the answer did not parse, or it says no update. *)
CheckWithoutOffer ==
    /\ pc = "idle"
    /\ client' = FALSE
    /\ UNCHANGED <<pc, flash, file, offer, caches>>

CheckIgnores(v, s) ==
    /\ pc = "idle"
    /\ Ignored(s)
    /\ version' = v
    /\ signature' = s
    /\ client' = FALSE
    /\ UNCHANGED <<pc, flash, file, caches>>

CheckAccepts(v, s) ==
    /\ pc = "idle"
    /\ ~Ignored(s)
    /\ version' = v
    /\ signature' = s
    /\ client' = TRUE
    /\ pc' = "offered"
    /\ UNCHANGED <<flash, file, caches>>
-----------------------------------------------------------------------------
\* mutant: every failure is the first of its offer
NoteUpdateFailedAnew(reason) ==
    /\ failed' = signature
    /\ attempts' = 1
    /\ lastError' = reason
    /\ UNCHANGED skipped

NoteUpdateFailed(reason) ==
    /\ failed' = signature
    /\ attempts' = (IF signature = failed THEN attempts ELSE 0) + 1
    /\ lastError' = reason
    /\ UNCHANGED skipped

(* Every failing way out: the staged file goes, the failure is counted. *)
GiveUp(reason) ==
    /\ file' = NoFile
    /\ NoteUpdateFailed(reason)
    /\ pc' = "idle"

(* downloadFirmwareToFS() *)
DownloadRefused ==          \* not a 200, or /firmware.bin would not open
    /\ pc = "offered"
    /\ client' = FALSE
    /\ GiveUp("download")
    /\ UNCHANGED <<flash, offer>>

DownloadStarts ==           \* LittleFS.open("/firmware.bin", "w")
    /\ pc = "offered"
    /\ file' = Partial
    /\ pc' = "downloading"
    /\ UNCHANGED <<flash, client, offer, caches>>

\* mutant: the partial file is left behind
DownloadBreaksKeepingFile ==
    /\ pc = "downloading"
    /\ client' = FALSE
    /\ NoteUpdateFailed("download")
    /\ pc' = "idle"
    /\ UNCHANGED <<flash, file, offer>>

DownloadBreaks ==           \* writeToStream < 0: short or broken body
    /\ pc = "downloading"
    /\ client' = FALSE
    /\ GiveUp("download")
    /\ UNCHANGED <<flash, offer>>

DownloadEnds(bytes) ==
    /\ pc = "downloading"
    /\ file' = bytes
    /\ client' = FALSE
    /\ pc' = "staged"
    /\ UNCHANGED <<flash, offer, caches>>
-----------------------------------------------------------------------------
(* OTA() *)
Manifest == [model |-> BuildModel[RunningImage], version |-> version, image |-> file]

VerifyManifestSignature == Covers[signature] = Manifest

HashFails ==
    /\ pc = "staged"
    /\ GiveUp("hash")
    /\ UNCHANGED <<flash, client, offer>>

SignatureFails ==
    /\ pc = "staged"
    /\ ~VerifyManifestSignature
    /\ GiveUp("signature")
    /\ UNCHANGED <<flash, client, offer>>

Fresh == IsVersionNewer(version, BuildVersion[RunningImage])

DowngradeRefused ==
    /\ pc = "staged"
    /\ VerifyManifestSignature
    /\ ~Fresh
    /\ GiveUp("downgrade")
    /\ UNCHANGED <<flash, client, offer>>

\* mutant: compares the version labels of the two builds
CarriesRunningVersion == BuildVersion[file] = BuildVersion[RunningImage]

(* Only an appended digest can be compared. *)
CarriesRunningDigest == file \in HasDigest /\ file = RunningImage

AlreadyRunning ==
    /\ pc = "staged"
    /\ VerifyManifestSignature /\ Fresh /\ CarriesRunningDigest
    /\ skipped' = signature
    /\ file' = NoFile
    /\ pc' = "idle"
    /\ UNCHANGED <<flash, client, offer, failed, attempts, lastError>>

(* isImageAlreadyRunning fails open: an unreadable digest lets even the    *)
(* running image through.                                                  *)
Verified ==
    /\ pc = "staged"
    /\ VerifyManifestSignature /\ Fresh
    /\ pc' = "verified"
    /\ UNCHANGED <<flash, file, client, offer, caches>>

FlashRefused(reason) ==     \* reopening the file, or Update.begin, failed
    /\ pc = "verified"
    /\ reason \in {"open", "space"}
    /\ GiveUp(reason)
    /\ UNCHANGED <<flash, client, offer>>

\* mutant: the downloaded image is removed before it is copied
FlashBeginsRemoving ==
    /\ pc = "verified"
    /\ slots' = [slots EXCEPT ![Other(running)] = Partial]
    /\ file' = NoFile
    /\ pc' = "writing"
    /\ UNCHANGED <<bootSlot, otaState, running, client, offer, caches>>

\* mutant: the new slot is selected before it is written
FlashBeginsSelecting ==
    /\ pc = "verified"
    /\ slots' = [slots EXCEPT ![Other(running)] = Partial]
    /\ bootSlot' = Other(running)
    /\ pc' = "writing"
    /\ UNCHANGED <<otaState, running, file, client, offer, caches>>

\* mutant: the erase hits the running slot
FlashBeginsInPlace ==
    /\ pc = "verified"
    /\ slots' = [slots EXCEPT ![running] = Partial]
    /\ pc' = "writing"
    /\ UNCHANGED <<bootSlot, otaState, running, file, client, offer, caches>>

FlashBegins ==              \* Update.begin erases the slot not running
    /\ pc = "verified"
    /\ slots' = [slots EXCEPT ![Other(running)] = Partial]
    /\ pc' = "writing"
    /\ UNCHANGED <<bootSlot, otaState, running, file, client, offer, caches>>

FlashFails(reason) ==       \* Update.end failed, or reported an error
    /\ pc = "writing"
    /\ reason \in {"end", "write"}
    /\ GiveUp(reason)
    /\ UNCHANGED <<flash, client, offer>>

FlashEnds ==                \* Update.end selects the slot just written
    /\ pc = "writing"
    /\ slots' = [slots EXCEPT ![Other(running)] = file]
    /\ bootSlot' = Other(running)
    /\ otaState' = [otaState EXCEPT ![Other(running)] = "new"]
    /\ pc' = "flashed"
    /\ UNCHANGED <<running, file, client, offer, caches>>

FlashRestarts ==
    /\ pc = "flashed"
    /\ file' = NoFile
    /\ Restart
    /\ UNCHANGED flash

PowerLoss == pc # "boot" /\ Restart /\ UNCHANGED <<flash, file>>
-----------------------------------------------------------------------------
Setup ==
    \/ Bootloader
    \/ SetupRestarts
    \/ SetupHalts
    \/ \E marked \in BOOLEAN : SetupDone(marked)

Check ==
    \/ WiFiLost
    \/ CheckWithoutOffer
    \/ \E v \in Versions, s \in Signatures : CheckIgnores(v, s) \/ CheckAccepts(v, s)

Download ==
    \/ DownloadRefused
    \/ DownloadStarts
    \/ DownloadBreaks
    \/ \E bytes \in Images : DownloadEnds(bytes)

OTA ==
    \/ HashFails
    \/ SignatureFails
    \/ DowngradeRefused
    \/ AlreadyRunning
    \/ Verified
    \/ \E reason \in Reasons : FlashRefused(reason) \/ FlashFails(reason)
    \/ FlashBegins
    \/ FlashEnds
    \/ FlashRestarts

Next == Setup \/ Check \/ Download \/ OTA \/ PowerLoss

Spec == Init /\ [][Next]_vars
-----------------------------------------------------------------------------
Locations == {"boot", "setup", "halted", "idle", "flashed"} \cup Updating

TypeOK ==
    /\ pc \in Locations
    /\ slots \in [Slots -> Images \cup {Partial}]
    /\ bootSlot \in Slots
    /\ running \in Slots
    /\ otaState \in [Slots -> {"valid", "new", "pending", "aborted"}]
    /\ file \in Images \cup {Partial, NoFile}
    /\ client \in BOOLEAN
    /\ version \in Versions \cup {NoVersion}
    /\ signature \in Signatures \cup {NoSignature}
    /\ skipped \in Signatures \cup {NoSignature}
    /\ failed \in Signatures \cup {NoSignature}
    /\ attempts \in Nat
    /\ lastError \in Reasons \cup {""}

(* Power may go at any moment of a flash, and the slot otadata selects     *)
(* still holds a complete image: OTA() writes the slot that is not         *)
(* running and selects it only once it is whole.                           *)
BootSlotComplete == slots[bootSlot] \in Images

(* While a new image waits for its first boot, or is on trial before       *)
(* markFirmwareValid(), the other slot holds a complete image to roll back *)
(* to: no failed or interrupted update in between has consumed it.         *)
TrialKeepsFallback ==
    (\/ otaState[bootSlot] = "new"
     \/ pc \in {"setup", "halted"} /\ otaState[bootSlot] = "pending")
    => slots[Other(bootSlot)] \in Images

(* An offer is suppressed as "already running" only while its bytes are    *)
(* the running image, whatever was flashed, rolled back or republished     *)
(* since it was cached (skipped_signature, ota.cpp 48-53).                 *)
SkippedIsRunning ==
    skipped # NoSignature =>
        skipped \in Signatures /\ Covers[skipped].image = RunningImage

(* What OTA() leaves in a slot is an image whose publisher signed it for   *)
(* the running build's model under a version newer than the running one,   *)
(* and it is never written over the running image.                         *)
AuthenticFlash ==
    \A slot \in Slots :
        slots'[slot] # slots[slot] /\ slots'[slot] \in Images =>
            /\ slot # running
            /\ \E s \in Signatures, v \in Versions :
                /\ Covers[s] = [model |-> BuildModel[RunningImage], version |-> v,
                                image |-> slots'[slot]]
                /\ IsVersionNewer(v, BuildVersion[RunningImage])

FlashesOnlyAuthentic == [][AuthenticFlash]_vars

(* The promise of a unit in service, of which OTA(), markFirmwareValid() and *)
(* the bootloader each keep a part: it is implemented through every failed *)
(* or interrupted update, lost confirmation and loss of power.             *)
Upgrades ==
    {p \in Images \X Images :
        \E s \in Signatures, v \in Versions :
            /\ Covers[s] = [model |-> BuildModel[p[1]], version |-> v, image |-> p[2]]
            /\ IsVersionNewer(v, BuildVersion[p[1]])}

InService == {"idle"} \cup Updating

Standing ==
    CASE otaState[bootSlot] = "valid" -> "confirmed"
      [] otaState[bootSlot] = "pending" -> "trial"
      [] otaState[bootSlot] = "aborted" -> "kept"
      [] OTHER -> "new"

Fallback ==
    IF slots[Other(bootSlot)] \in Images /\ otaState[Other(bootSlot)] = "valid"
    THEN slots[Other(bootSlot)] ELSE NoFile

Promise ==
    INSTANCE TwoSlots WITH
        NoImage <- NoFile,
        selected <- slots[bootSlot],
        fallback <- Fallback,
        standing <- Standing,
        inService <- pc \in InService

KeepsPromise == Promise!Spec

(* However an update ends short of a reboot, the next poll finds no staged *)
(* file and no TLS client left behind (downloadFirmwareToFS, OTA).         *)
CleanReturn ==
    pc \in Updating /\ pc' = "idle" => file' = NoFile /\ client' = FALSE

UpdateLeavesNothing == [][CleanReturn]_vars
=============================================================================
