---------------------------- MODULE DeviceProofs ----------------------------
(***************************************************************************)
(* What Device and DeviceHistory promise, for every catalogue of images,   *)
(* versions and signatures; and, at the end, that a unit keeps all of it   *)
(* under its owner's catalogue (Rollout), and for what alone it refuses an *)
(* offer there.                                                            *)
(***************************************************************************)
EXTENDS DeviceHistory, Rollout, TLAPS

(* The slot that runs is the slot otadata selects, except between a        *)
(* completed flash and the reset that follows it.                          *)
SlotsInv ==
    /\ slots[bootSlot] \in Images
    /\ pc # "boot" => slots[running] \in Images
    /\ pc \notin {"boot", "flashed"} => bootSlot = running
    /\ pc = "flashed" => bootSlot = Other(running)

TrialInv ==
    /\ otaState[bootSlot] = "new" =>
           pc \in {"boot", "flashed"} /\ slots[Other(bootSlot)] \in Images
    /\ TrialKeepsFallback

(* What is staged when OTA() goes on to the flash has been verified under  *)
(* the offer still standing.                                               *)
StagedInv ==
    /\ pc \in Updating => version \in Versions /\ signature \in Signatures
    /\ pc \in {"staged", "verified", "writing"} => file \in Images
    /\ pc \in {"verified", "writing"} => VerifyManifestSignature /\ Fresh

(* The caches live in RAM: a reset has dropped them before the bootloader  *)
(* chooses what runs next.                                                 *)
CacheInv == SkippedIsRunning /\ (pc = "boot" => skipped = NoSignature)

IInv == TypeOK /\ SlotsInv /\ TrialInv /\ StagedInv /\ CacheInv

LEMMA OtherSlot == \A s \in Slots : Other(s) \in Slots /\ Other(s) # s /\ Other(Other(s)) = s
  BY DEF Slots, Other

LEMMA FailureCounted ==
    ASSUME NEW r, attempts \in Nat, NoteUpdateFailed(r) PROVE attempts' \in Nat
  BY DEF NoteUpdateFailed

LEMMA InitInv == Init => IInv
  <1> SUFFICES ASSUME Init PROVE IInv
    OBVIOUS
  <1> USE DeviceAssumption DEF Init
  <1>1. TypeOK
    BY DEF TypeOK, Slots, Locations
  <1>2. SlotsInv /\ TrialInv /\ StagedInv /\ CacheInv
    BY DEF SlotsInv, TrialInv, TrialKeepsFallback, StagedInv, CacheInv, SkippedIsRunning, Slots, Other, Updating
  <1> QED BY <1>1, <1>2 DEF IInv

(* StagedInv says that what FlashEnds writes is a complete image.          *)
LEMMA NextTypeOK == TypeOK /\ StagedInv /\ [Next]_vars => TypeOK'
  <1> SUFFICES ASSUME TypeOK, StagedInv, [Next]_vars PROVE TypeOK'
    OBVIOUS
  <1> USE DeviceAssumption DEF TypeOK, flash, caches, offer
  <1>0. CASE UNCHANGED vars
    BY <1>0 DEF vars
  <1>1. CASE Setup
    <2>1. CASE Bootloader
      <3>1. BootTarget \in Slots
        BY OtherSlot DEF BootTarget
      <3>2. otaState' \in [Slots -> {"valid", "new", "pending", "aborted"}]
        BY <2>1 DEF Bootloader, Booted
      <3> QED BY <2>1, <3>1, <3>2 DEF Bootloader, Locations
    <2>2. CASE SetupRestarts
      BY <2>2 DEF SetupRestarts, Restart, RamCleared, Locations
    <2>3. CASE SetupHalts
      BY <2>3 DEF SetupHalts, Locations
    <2>4. CASE \E marked \in BOOLEAN : SetupDone(marked)
      BY <2>4 DEF SetupDone, Locations
    <2> QED BY <1>1, <2>1, <2>2, <2>3, <2>4 DEF Setup
  <1>2. CASE Check
    <2>1. CASE WiFiLost
      BY <2>1 DEF WiFiLost, Restart, RamCleared, Locations
    <2>2. CASE CheckWithoutOffer
      BY <2>2 DEF CheckWithoutOffer
    <2>3. ASSUME NEW v \in Versions, NEW s \in Signatures, CheckIgnores(v, s) PROVE TypeOK'
      BY <2>3 DEF CheckIgnores
    <2>4. ASSUME NEW v \in Versions, NEW s \in Signatures, CheckAccepts(v, s) PROVE TypeOK'
      BY <2>4 DEF CheckAccepts, Locations, Updating
    <2> QED BY <1>2, <2>1, <2>2, <2>3, <2>4 DEF Check
  <1> DEFINE Gone(r) == GiveUp(r) /\ client' \in BOOLEAN /\ UNCHANGED <<flash, offer>>
  <1>3. ASSUME NEW r \in Reasons, Gone(r) PROVE TypeOK'
    <2>1. attempts' \in Nat
      BY <1>3, FailureCounted DEF GiveUp
    <2>2. client' \in BOOLEAN
      BY <1>3
    <2>3. /\ pc' = "idle" /\ file' = NoFile /\ failed' = signature /\ lastError' = r
          /\ skipped' = skipped /\ version' = version /\ signature' = signature
          /\ slots' = slots /\ otaState' = otaState /\ bootSlot' = bootSlot /\ running' = running
      BY <1>3 DEF GiveUp, NoteUpdateFailed
    <2> QED BY <2>1, <2>2, <2>3 DEF Locations
  <1>4. CASE Download
    <2>1. CASE DownloadRefused \/ DownloadBreaks
      BY <2>1, <1>3 DEF DownloadRefused, DownloadBreaks, Reasons
    <2>2. CASE DownloadStarts
      BY <2>2 DEF DownloadStarts, Locations, Updating
    <2>3. CASE \E bytes \in Images : DownloadEnds(bytes)
      BY <2>3 DEF DownloadEnds, Locations, Updating
    <2> QED BY <1>4, <2>1, <2>2, <2>3 DEF Download
  <1>5. CASE OTA
    <2>1. CASE HashFails \/ SignatureFails \/ DowngradeRefused
      BY <2>1, <1>3 DEF HashFails, SignatureFails, DowngradeRefused, Reasons
    <2>2. CASE AlreadyRunning
      BY <2>2 DEF AlreadyRunning, Locations
    <2>3. CASE Verified
      BY <2>3 DEF Verified, Locations, Updating
    <2>4. CASE \E reason \in Reasons : FlashRefused(reason) \/ FlashFails(reason)
      BY <2>4, <1>3 DEF FlashRefused, FlashFails
    <2>5. CASE FlashBegins
      BY <2>5, OtherSlot DEF FlashBegins, Locations, Updating
    <2>6. CASE FlashEnds
      <3>1. slots' \in [Slots -> Images \cup {Partial}]
        BY <2>6 DEF FlashEnds, StagedInv
      <3> QED BY <2>6, <3>1, OtherSlot DEF FlashEnds, Locations
    <2>7. CASE FlashRestarts
      BY <2>7 DEF FlashRestarts, Restart, RamCleared, Locations
    <2> QED BY <1>5, <2>1, <2>2, <2>3, <2>4, <2>5, <2>6, <2>7 DEF OTA
  <1>6. CASE PowerLoss
    BY <1>6 DEF PowerLoss, Restart, RamCleared, Locations
  <1> QED BY <1>0, <1>1, <1>2, <1>4, <1>5, <1>6 DEF Next
-----------------------------------------------------------------------------
(* Three kinds of step leave the two slots alone: those within a poll,     *)
(* those that reset the chip, and those that only move setup() on.         *)
Polling == {"idle"} \cup Updating

LEMMA PollKeepsSlots ==
    ASSUME SlotsInv, TrialInv, UNCHANGED flash, pc \in Polling, pc' \in Polling
    PROVE  SlotsInv' /\ TrialInv'
  BY DEF SlotsInv, TrialInv, TrialKeepsFallback, flash, Polling, Updating, Other

LEMMA ResetKeepsInv ==
    ASSUME IInv, pc # "boot", Restart, UNCHANGED flash
    PROVE  SlotsInv' /\ TrialInv' /\ StagedInv' /\ CacheInv'
  BY DEF IInv, SlotsInv, TrialInv, TrialKeepsFallback, StagedInv, CacheInv, SkippedIsRunning, Restart,
         RamCleared, flash, Updating, Other

(* An update given up: the staged file is gone and no image is awaited.    *)
LEMMA GivingUpKeepsInv ==
    ASSUME IInv, NEW r, pc \in Updating, GiveUp(r), UNCHANGED <<flash, offer>>
    PROVE  SlotsInv' /\ TrialInv' /\ StagedInv' /\ CacheInv'
  <1>1. pc \in Polling /\ pc' \in Polling /\ UNCHANGED flash
    BY DEF Polling, GiveUp
  <1>2. SlotsInv' /\ TrialInv'
    BY <1>1, PollKeepsSlots DEF IInv
  <1>3. StagedInv' /\ CacheInv'
    BY DEF IInv, StagedInv, CacheInv, SkippedIsRunning, RunningImage, GiveUp, NoteUpdateFailed, flash, Updating
  <1> QED BY <1>2, <1>3

LEMMA SetupKeepsInv ==
    ASSUME IInv, Setup PROVE SlotsInv' /\ TrialInv' /\ StagedInv' /\ CacheInv'
  <1> USE DEF offer, caches
  <1>1. CASE Bootloader
    <2>1. SlotsInv'
      BY <1>1, OtherSlot DEF IInv, TypeOK, Bootloader, BootTarget, FallsBack, SlotsInv
    <2>2. TrialInv'
      <3> bootSlot \in Slots /\ otaState \in [Slots -> {"valid", "new", "pending", "aborted"}]
        BY DEF IInv, TypeOK
      <3> /\ otaState' = [otaState EXCEPT ![bootSlot] = Booted(@)]
          /\ bootSlot' = BootTarget /\ pc' = "setup" /\ slots' = slots
        BY <1>1 DEF Bootloader
      <3>1. CASE FallsBack
        <4>1. bootSlot' = Other(bootSlot) /\ otaState'[Other(bootSlot)] = "valid"
          BY <3>1, OtherSlot DEF BootTarget, FallsBack
        <4> QED BY <4>1 DEF TrialInv, TrialKeepsFallback
      <3>2. CASE ~FallsBack
        <4>1. bootSlot' = bootSlot /\ otaState'[bootSlot] = Booted(otaState[bootSlot])
          BY <3>2 DEF BootTarget
        <4>2. CASE otaState[bootSlot] = "new"
          BY <4>1, <4>2 DEF IInv, TrialInv, TrialKeepsFallback, Booted
        <4>3. CASE otaState[bootSlot] # "new"
          BY <4>1, <4>3 DEF TrialInv, TrialKeepsFallback, Booted
        <4> QED BY <4>2, <4>3
      <3> QED BY <3>1, <3>2
    <2>3. StagedInv'
      BY <1>1 DEF Bootloader, StagedInv, Updating
    <2>4. CacheInv'
      BY <1>1 DEF IInv, CacheInv, SkippedIsRunning, Bootloader
    <2> QED BY <2>1, <2>2, <2>3, <2>4
  <1>2. CASE SetupRestarts
    BY <1>2, ResetKeepsInv DEF SetupRestarts
  <1>3. CASE SetupHalts
    BY <1>3 DEF IInv, SetupHalts, SlotsInv, TrialInv, TrialKeepsFallback, StagedInv,
                CacheInv, SkippedIsRunning, RunningImage, flash, Updating, Other
  <1>4. ASSUME NEW marked \in BOOLEAN, SetupDone(marked)
        PROVE SlotsInv' /\ TrialInv' /\ StagedInv' /\ CacheInv'
    BY <1>4 DEF IInv, TypeOK, SetupDone, SlotsInv, TrialInv, TrialKeepsFallback, StagedInv,
                CacheInv, SkippedIsRunning, RunningImage, Updating, Other
  <1> QED BY <1>1, <1>2, <1>3, <1>4 DEF Setup

LEMMA CheckKeepsInv ==
    ASSUME IInv, Check PROVE SlotsInv' /\ TrialInv' /\ StagedInv' /\ CacheInv'
  <1>1. CASE WiFiLost
    BY <1>1, ResetKeepsInv DEF WiFiLost
  <1>2. CASE CheckWithoutOffer
    BY <1>2 DEF IInv, CheckWithoutOffer, SlotsInv, TrialInv, TrialKeepsFallback, StagedInv,
                CacheInv, SkippedIsRunning, RunningImage, flash, caches, offer, Updating,
                VerifyManifestSignature, Manifest, Fresh
  <1>3. ASSUME NEW v \in Versions, NEW s \in Signatures, CheckIgnores(v, s) \/ CheckAccepts(v, s)
        PROVE SlotsInv' /\ TrialInv' /\ StagedInv' /\ CacheInv'
    <2>1. pc \in Polling /\ pc' \in Polling /\ UNCHANGED flash
      BY <1>3 DEF CheckIgnores, CheckAccepts, Polling, Updating
    <2>2. SlotsInv' /\ TrialInv'
      BY <2>1, PollKeepsSlots DEF IInv
    <2>3. StagedInv' /\ CacheInv'
      BY <1>3 DEF IInv, CheckIgnores, CheckAccepts, StagedInv, CacheInv, SkippedIsRunning,
                  RunningImage, flash, caches, Updating
    <2> QED BY <2>2, <2>3
  <1> QED BY <1>1, <1>2, <1>3 DEF Check

LEMMA DownloadKeepsInv ==
    ASSUME IInv, Download PROVE SlotsInv' /\ TrialInv' /\ StagedInv' /\ CacheInv'
  <1>1. CASE DownloadRefused \/ DownloadBreaks
    BY <1>1, GivingUpKeepsInv DEF DownloadRefused, DownloadBreaks, Updating
  <1>2. ASSUME DownloadStarts \/ \E bytes \in Images : DownloadEnds(bytes)
        PROVE SlotsInv' /\ TrialInv' /\ StagedInv' /\ CacheInv'
    <2>1. pc \in Polling /\ pc' \in Polling /\ UNCHANGED flash
      BY <1>2 DEF DownloadStarts, DownloadEnds, Polling, Updating
    <2>2. SlotsInv' /\ TrialInv'
      BY <2>1, PollKeepsSlots DEF IInv
    <2>3. StagedInv' /\ CacheInv'
      BY <1>2 DEF IInv, DownloadStarts, DownloadEnds, StagedInv, CacheInv, SkippedIsRunning,
                  RunningImage, flash, caches, offer, Updating
    <2> QED BY <2>2, <2>3
  <1> QED BY <1>1, <1>2 DEF Download

LEMMA OTAKeepsInv ==
    ASSUME IInv, OTA PROVE SlotsInv' /\ TrialInv' /\ StagedInv' /\ CacheInv'
  <1>1. CASE HashFails \/ SignatureFails \/ DowngradeRefused
    BY <1>1, GivingUpKeepsInv DEF HashFails, SignatureFails, DowngradeRefused, Updating
  <1>2. CASE \E reason \in Reasons : FlashRefused(reason) \/ FlashFails(reason)
    BY <1>2, GivingUpKeepsInv DEF FlashRefused, FlashFails, Updating
  <1>3. CASE AlreadyRunning
    <2>1. pc \in Polling /\ pc' \in Polling /\ UNCHANGED flash
      BY <1>3 DEF AlreadyRunning, Polling, Updating
    <2>2. SlotsInv' /\ TrialInv'
      BY <2>1, PollKeepsSlots DEF IInv
    <2>3. skipped' \in Signatures /\ Covers[skipped'].image = RunningImage
      BY <1>3 DEF IInv, StagedInv, AlreadyRunning, VerifyManifestSignature, Manifest,
                  CarriesRunningDigest, Updating
    <2>4. StagedInv' /\ CacheInv'
      BY <1>3, <2>1, <2>3 DEF AlreadyRunning, StagedInv, CacheInv, SkippedIsRunning,
                  RunningImage, flash, Updating
    <2> QED BY <2>2, <2>4
  <1>4. CASE Verified
    <2>1. pc \in Polling /\ pc' \in Polling /\ UNCHANGED flash
      BY <1>4 DEF Verified, Polling, Updating
    <2>2. SlotsInv' /\ TrialInv'
      BY <2>1, PollKeepsSlots DEF IInv
    <2>3. StagedInv' /\ CacheInv'
      BY <1>4 DEF IInv, Verified, StagedInv, CacheInv, SkippedIsRunning, RunningImage, flash,
                  caches, offer, Updating, VerifyManifestSignature, Manifest, Fresh
    <2> QED BY <2>2, <2>3
  <1>5. CASE FlashBegins
    <2>1. /\ pc = "verified" /\ pc' = "writing"
          /\ bootSlot = running /\ bootSlot' = running /\ running' = running
          /\ otaState' = otaState
          /\ slots'[running] = slots[running] /\ slots[running] \in Images
      BY <1>5, OtherSlot DEF IInv, TypeOK, SlotsInv, FlashBegins
    <2>2. SlotsInv' /\ TrialInv'
      BY <2>1 DEF IInv, SlotsInv, TrialInv, TrialKeepsFallback
    <2>3. StagedInv' /\ CacheInv'
      BY <1>5, <2>1 DEF IInv, FlashBegins, StagedInv, CacheInv, SkippedIsRunning, RunningImage,
                  caches, offer, Updating, VerifyManifestSignature, Manifest, Fresh
    <2> QED BY <2>2, <2>3
  <1>6. CASE FlashEnds
    <2>1. /\ pc = "writing" /\ pc' = "flashed"
          /\ bootSlot' = Other(running) /\ running' = running
          /\ slots'[running] = slots[running] /\ slots[running] \in Images
          /\ slots'[Other(running)] = file /\ file \in Images
          /\ Other(Other(running)) = running
      BY <1>6, OtherSlot DEF IInv, TypeOK, SlotsInv, StagedInv, FlashEnds
    <2>2. SlotsInv' /\ TrialInv'
      BY <2>1 DEF SlotsInv, TrialInv, TrialKeepsFallback, Other
    <2>3. StagedInv' /\ CacheInv'
      BY <1>6, <2>1 DEF IInv, FlashEnds, StagedInv, CacheInv, SkippedIsRunning, RunningImage,
                  caches, offer, Updating
    <2> QED BY <2>2, <2>3
  <1>7. CASE FlashRestarts
    BY <1>7, ResetKeepsInv DEF FlashRestarts
  <1> QED BY <1>1, <1>2, <1>3, <1>4, <1>5, <1>6, <1>7 DEF OTA

LEMMA NextInv == IInv /\ [Next]_vars => IInv'
  <1> SUFFICES ASSUME IInv, [Next]_vars PROVE IInv'
    OBVIOUS
  <1>1. TypeOK'
    BY NextTypeOK DEF IInv
  <1>2. CASE UNCHANGED vars
    BY <1>1, <1>2 DEF IInv, vars, flash, caches, offer, SlotsInv, TrialInv, TrialKeepsFallback,
                      StagedInv, CacheInv, SkippedIsRunning, RunningImage, Updating,
                      VerifyManifestSignature, Manifest, Fresh
  <1>3. CASE Next
    <2>1. CASE PowerLoss
      BY <1>1, <2>1, ResetKeepsInv DEF PowerLoss, IInv
    <2> QED BY <1>1, <1>3, <2>1, SetupKeepsInv, CheckKeepsInv, DownloadKeepsInv, OTAKeepsInv
            DEF Next, IInv
  <1> QED BY <1>2, <1>3

THEOREM Invariance == Spec => []IInv
  <1> QED BY InitInv, NextInv, PTL DEF Spec

(* The module's variables always hold values of their types.               *)
THEOREM TypeCorrect == Spec => []TypeOK
  <1>1. IInv => TypeOK
    BY DEF IInv
  <1> QED BY <1>1, Invariance, PTL

(* Whenever power is lost, the slot the bootloader will select holds a     *)
(* complete image: OTA() never selects a slot it has not finished.         *)
THEOREM AlwaysBootable == Spec => []BootSlotComplete
  <1>1. IInv => BootSlotComplete
    BY DEF IInv, SlotsInv, BootSlotComplete
  <1> QED BY <1>1, Invariance, PTL

(* A new image waiting for its first boot, or on trial in setup(), always  *)
(* has a complete image in the other slot to fall back to.                 *)
THEOREM FallbackKept == Spec => []TrialKeepsFallback
  <1>1. IInv => TrialKeepsFallback
    BY DEF IInv, TrialInv
  <1> QED BY <1>1, Invariance, PTL

(* check() suppresses an offer as already running only while its bytes are *)
(* the running image.                                                      *)
THEOREM SkipIsTruthful == Spec => []SkippedIsRunning
  <1>1. IInv => SkippedIsRunning
    BY DEF IInv, CacheInv
  <1> QED BY <1>1, Invariance, PTL
-----------------------------------------------------------------------------
LEMMA OnlyFlashEndsFills ==
    ASSUME IInv, [Next]_vars, NEW slot \in Slots,
           slots'[slot] # slots[slot], slots'[slot] \in Images
    PROVE  FlashEnds
  <1>1. slots' # slots
    OBVIOUS
  <1>2. Next
    BY <1>1 DEF vars, flash
  <1>3. ~Setup
    BY <1>1 DEF Setup, Bootloader, SetupRestarts, SetupHalts, SetupDone, flash
  <1>4. ~Check
    BY <1>1 DEF Check, WiFiLost, CheckWithoutOffer, CheckIgnores, CheckAccepts, flash
  <1>5. ~Download
    BY <1>1 DEF Download, DownloadRefused, DownloadStarts, DownloadBreaks, DownloadEnds, flash
  <1>6. ~PowerLoss
    BY <1>1 DEF PowerLoss, flash
  <1>7. ~FlashBegins
    <2> SUFFICES ASSUME FlashBegins PROVE FALSE
      OBVIOUS
    <2>1. slots \in [Slots -> Images \cup {Partial}]
      BY DEF IInv, TypeOK
    <2>2. slots'[slot] = Partial \/ slots'[slot] = slots[slot]
      BY <2>1 DEF FlashBegins
    <2> QED BY <2>2, DeviceAssumption
  <1> QED BY <1>1, <1>2, <1>3, <1>4, <1>5, <1>6, <1>7
          DEF Next, OTA, HashFails, SignatureFails, DowngradeRefused, AlreadyRunning, Verified,
              FlashRefused, FlashFails, FlashRestarts, flash

(* No image reaches a slot that its publisher did not sign for this        *)
(* build's model under a newer version, and the running slot is never      *)
(* written, whatever the server answers and wherever power is lost.        *)
THEOREM FlashIsAuthentic == Spec => FlashesOnlyAuthentic
  <1>1. ASSUME IInv, [Next]_vars PROVE AuthenticFlash
    <2> SUFFICES ASSUME NEW slot \in Slots, slots'[slot] # slots[slot], slots'[slot] \in Images
                 PROVE  /\ slot # running
                        /\ \E s \in Signatures, v \in Versions :
                            /\ Covers[s] = [model |-> BuildModel[RunningImage], version |-> v,
                                            image |-> slots'[slot]]
                            /\ IsVersionNewer(v, BuildVersion[RunningImage])
      BY DEF AuthenticFlash
    <2>1. FlashEnds
      BY <1>1, OnlyFlashEndsFills
    <2>2. slot = Other(running) /\ slots'[slot] = file
      BY <1>1, <2>1 DEF FlashEnds, IInv, TypeOK
    <2>3. slot # running
      BY <1>1, <2>2, OtherSlot DEF IInv, TypeOK
    <2>4. /\ version \in Versions /\ signature \in Signatures
          /\ Covers[signature] = [model |-> BuildModel[RunningImage], version |-> version,
                                  image |-> file]
          /\ IsVersionNewer(version, BuildVersion[RunningImage])
      BY <1>1, <2>1 DEF FlashEnds, IInv, StagedInv, Updating, VerifyManifestSignature, Manifest,
                        Fresh
    <2> QED BY <2>2, <2>3, <2>4
  <1> QED BY <1>1, Invariance, PTL DEF Spec, FlashesOnlyAuthentic

(* Every way an update ends short of a reboot removes the staged file and  *)
(* releases the TLS client.                                                *)
ClientInv == pc \in {"staged", "verified", "writing"} => client = FALSE

THEOREM ReturnIsClean == Spec => UpdateLeavesNothing
  <1>1. Init => ClientInv
    BY DEF Init, ClientInv
  <1>2. ClientInv /\ [Next]_vars => ClientInv'
    BY DEF ClientInv, Next, vars, Setup, Check, Download, OTA, Bootloader, SetupRestarts,
           SetupHalts, SetupDone, WiFiLost, CheckWithoutOffer, CheckIgnores, CheckAccepts,
           DownloadRefused, DownloadStarts, DownloadBreaks, DownloadEnds, HashFails,
           SignatureFails, DowngradeRefused, AlreadyRunning, Verified, FlashRefused,
           FlashBegins, FlashFails, FlashEnds, FlashRestarts, PowerLoss, Restart, RamCleared,
           GiveUp
  <1>3. ClientInv /\ [Next]_vars => CleanReturn
    BY DEF ClientInv, CleanReturn, Next, vars, Setup, Check, Download, OTA, Bootloader,
           SetupRestarts, SetupHalts, SetupDone, WiFiLost, CheckWithoutOffer, CheckIgnores,
           CheckAccepts, DownloadRefused, DownloadStarts, DownloadBreaks, DownloadEnds,
           HashFails, SignatureFails, DowngradeRefused, AlreadyRunning, Verified, FlashRefused,
           FlashBegins, FlashFails, FlashEnds, FlashRestarts, PowerLoss, Restart, RamCleared,
           GiveUp, Updating
  <1> QED BY <1>1, <1>2, <1>3, PTL DEF Spec, UpdateLeavesNothing
-----------------------------------------------------------------------------
(* The history variables constrain nothing.                                *)
THEOREM HistoryImplements == HSpec => Spec
  <1>1. HInit => Init
    BY DEF HInit
  <1>2. [HNext]_hvars => [Next]_vars
    BY DEF HNext, hvars
  <1> QED BY <1>1, <1>2, PTL DEF HSpec, Spec

(* Every signature a cache or an update under way names was attempted      *)
(* since the unit last came up.                                            *)
TriedInv ==
    /\ skipped # NoSignature => skipped \in tried
    /\ failed # NoSignature => failed \in tried
    /\ pc \in Updating => signature \in tried

LEMMA TriedInvNext == TriedInv /\ [HNext]_hvars => TriedInv'
  <1> SUFFICES ASSUME TriedInv, [HNext]_hvars PROVE TriedInv'
    OBVIOUS
  <1> USE DEF TriedInv, flash, caches, offer
  <1>1. CASE UNCHANGED hvars
    BY <1>1 DEF hvars, history, vars
  <1>2. ASSUME HNext, pc' = "boot" PROVE TriedInv'
    <2>1. skipped' = NoSignature /\ failed' = NoSignature
      BY <1>2 DEF HNext, Next, Setup, Check, Download, OTA, Bootloader, SetupRestarts,
           SetupHalts, SetupDone, WiFiLost, CheckWithoutOffer, CheckIgnores, CheckAccepts,
           DownloadRefused, DownloadStarts, DownloadBreaks, DownloadEnds, HashFails,
           SignatureFails, DowngradeRefused, AlreadyRunning, Verified, FlashRefused,
           FlashBegins, FlashFails, FlashEnds, FlashRestarts, PowerLoss, Restart, RamCleared,
           GiveUp
    <2> QED BY <1>2, <2>1 DEF Updating
  <1>3. ASSUME HNext, pc' # "boot" PROVE TriedInv'
    <2>1. tried' = IF Accepted THEN tried \cup {signature'} ELSE tried
      BY <1>3 DEF HNext, Observe
    <2>2. CASE Setup
      BY <1>3, <2>1, <2>2 DEF Setup, Bootloader, SetupRestarts, SetupHalts, SetupDone, Restart,
                             Accepted, Updating
    <2>3. CASE Check
      BY <1>3, <2>1, <2>3 DEF Check, WiFiLost, CheckWithoutOffer, CheckIgnores, CheckAccepts,
                             Restart, Accepted, Updating
    <2>4. CASE Download
      BY <1>3, <2>1, <2>4 DEF Download, DownloadRefused, DownloadStarts, DownloadBreaks,
                             DownloadEnds, GiveUp, NoteUpdateFailed, Accepted, Updating
    <2>5. CASE OTA
      BY <1>3, <2>1, <2>5 DEF OTA, HashFails, SignatureFails, DowngradeRefused, AlreadyRunning,
                             Verified, FlashRefused, FlashBegins, FlashFails, FlashEnds,
                             FlashRestarts, Restart, GiveUp, NoteUpdateFailed, Accepted, Updating
    <2>6. CASE PowerLoss
      BY <1>3, <2>6 DEF PowerLoss, Restart
    <2> QED BY <1>3, <2>2, <2>3, <2>4, <2>5, <2>6 DEF HNext, Next
  <1> QED BY <1>1, <1>2, <1>3

(* An offer check() has not attempted since the last reset is never        *)
(* suppressed, so a corrected image published under any version gets       *)
(* through.                                                                *)
THEOREM FixGetsThrough == HSpec => NeverSuppressesAFix
  <1>1. HInit => TriedInv
    BY DEF HInit, Init, TriedInv, Updating
  <1>2. ASSUME TriedInv, [HNext]_hvars PROVE SuppressesOnlyTried
    <2> SUFFICES ASSUME pc = "idle", pc' = "idle", signature' # signature
                 PROVE  signature' \in tried
      BY DEF SuppressesOnlyTried
    <2>1. Next
      BY <1>2 DEF HNext, hvars, vars, offer
    <2>2. PICK v \in Versions, s \in Signatures : CheckIgnores(v, s)
      BY <2>1 DEF Next, Setup, Check, Download, OTA, Bootloader, SetupRestarts, SetupHalts,
           SetupDone, WiFiLost, CheckWithoutOffer, CheckAccepts, DownloadRefused,
           DownloadStarts, DownloadBreaks, DownloadEnds, HashFails, SignatureFails,
           DowngradeRefused, AlreadyRunning, Verified, FlashRefused, FlashBegins, FlashFails,
           FlashEnds, FlashRestarts, PowerLoss, Restart, GiveUp, offer
    <2>3. (s = skipped /\ skipped # NoSignature) \/ s = failed
      BY <2>2 DEF CheckIgnores, Ignored
    <2> QED BY <1>2, <2>2, <2>3, DeviceAssumption DEF CheckIgnores, TriedInv
  <1> QED BY <1>1, <1>2, TriedInvNext, PTL DEF HSpec, NeverSuppressesAFix
-----------------------------------------------------------------------------
(* How much of the standing offer's budget noteUpdateFailed has charged.   *)
Charged == IF failed = signature THEN attempts ELSE 0

(* Every attempt at the standing offer is charged, but for the one under   *)
(* way and the one that ended in "already running", after which check()    *)
(* makes no other.                                                         *)
BudgetInv ==
    /\ attempts \in Nat /\ streak \in Nat
    /\ attempts <= MaxAttempts + 1
    /\ signature = NoSignature => streak = 0
    /\ pc \in Updating => Charged <= MaxAttempts /\ streak <= Charged + 1
    /\ pc \notin Updating \cup {"flashed"} =>
           \/ streak <= Charged
           \/ skipped # NoSignature /\ signature = skipped
    /\ streak <= MaxAttempts + 1

(* One lemma per kind of step.                                             *)
LEMMA BudgetAfterReset ==
    ASSUME BudgetInv, Restart, streak' = IF signature' = signature THEN streak ELSE 0
    PROVE  BudgetInv'
  <1>1. /\ pc' = "boot" /\ signature' = NoSignature /\ attempts' = 0 /\ streak' = 0
    BY DEF BudgetInv, Restart, RamCleared
  <1>2. Charged' = 0
    BY <1>1 DEF Charged
  <1> QED BY <1>1, <1>2 DEF BudgetInv, MaxAttempts, Updating

LEMMA BudgetAfterFailure ==
    ASSUME BudgetInv, NEW r, pc \in Updating, GiveUp(r), signature' = signature, streak' = streak
    PROVE  BudgetInv'
  <1>1. Charged \in Nat /\ Charged <= MaxAttempts
    BY DEF BudgetInv, Charged, MaxAttempts
  <1>2. attempts' = Charged + 1 /\ Charged' = Charged + 1
    BY DEF GiveUp, NoteUpdateFailed, Charged
  <1> QED BY <1>1, <1>2 DEF BudgetInv, GiveUp, MaxAttempts, Updating

LEMMA BudgetAfterStep ==
    ASSUME BudgetInv, UNCHANGED <<signature, failed, attempts, streak, skipped>>,
           \/ pc \in Updating /\ pc' \in Updating \cup {"flashed"}
           \/ pc \notin Updating \cup {"flashed"} /\ pc' \notin Updating \cup {"flashed"}
    PROVE  BudgetInv'
  <1>1. Charged' = Charged
    BY DEF Charged
  <1> QED BY <1>1 DEF BudgetInv

LEMMA BudgetInvNext == BudgetInv /\ [HNext]_hvars => BudgetInv'
  <1> SUFFICES ASSUME BudgetInv, [HNext]_hvars PROVE BudgetInv'
    OBVIOUS
  <1> USE DEF flash, caches, offer
  <1>1. CASE UNCHANGED hvars
    BY <1>1 DEF hvars, history, vars, BudgetInv, Charged
  <1>2. CASE HNext
    <2>0. streak' = (IF signature' = signature THEN streak ELSE 0) + (IF Accepted THEN 1 ELSE 0)
      BY <1>2 DEF HNext, Observe
    <2>1. streak \in Nat
      BY DEF BudgetInv
    <2>2. CASE Restart
      <3>1. streak' = IF signature' = signature THEN streak ELSE 0
        BY <2>0, <2>1, <2>2 DEF Accepted, Restart
      <3> QED BY <2>2, <3>1, BudgetAfterReset
    <2>3. CASE Bootloader \/ SetupHalts \/ (\E m \in BOOLEAN : SetupDone(m)) \/ CheckWithoutOffer
      <3>1. UNCHANGED <<signature, failed, attempts, streak, skipped>>
        BY <2>0, <2>1, <2>3 DEF Accepted, Bootloader, SetupHalts, SetupDone, CheckWithoutOffer
      <3>2. pc \notin Updating \cup {"flashed"} /\ pc' \notin Updating \cup {"flashed"}
        BY <2>3 DEF Bootloader, SetupHalts, SetupDone, CheckWithoutOffer, Updating
      <3> QED BY <3>1, <3>2, BudgetAfterStep
    <2>4. CASE DownloadStarts \/ (\E b \in Images : DownloadEnds(b)) \/ Verified \/ FlashBegins \/ FlashEnds
      <3>1. UNCHANGED <<signature, failed, attempts, streak, skipped>>
        BY <2>0, <2>1, <2>4
           DEF Accepted, DownloadStarts, DownloadEnds, Verified, FlashBegins, FlashEnds
      <3>2. pc \in Updating /\ pc' \in Updating \cup {"flashed"}
        BY <2>4 DEF DownloadStarts, DownloadEnds, Verified, FlashBegins, FlashEnds, Updating
      <3> QED BY <3>1, <3>2, BudgetAfterStep
    <2>5. CASE \/ DownloadRefused \/ DownloadBreaks \/ HashFails \/ SignatureFails \/ DowngradeRefused
               \/ \E r \in Reasons : FlashRefused(r) \/ FlashFails(r)
      <3>1. PICK r : GiveUp(r) /\ pc \in Updating /\ signature' = signature
        BY <2>5 DEF DownloadRefused, DownloadBreaks, HashFails, SignatureFails, DowngradeRefused,
                    FlashRefused, FlashFails, Updating
      <3>2. streak' = streak
        BY <2>0, <2>1, <3>1 DEF Accepted, GiveUp
      <3> QED BY <3>1, <3>2, BudgetAfterFailure
    <2>6. CASE AlreadyRunning
      <3>1. signature' = signature /\ streak' = streak /\ attempts' = attempts /\ failed' = failed
        BY <2>0, <2>1, <2>6 DEF Accepted, AlreadyRunning
      <3>2. signature # NoSignature => skipped' # NoSignature /\ skipped' = signature'
        BY <2>6 DEF AlreadyRunning
      <3>3. Charged' = Charged
        BY <3>1 DEF Charged
      <3> QED BY <2>6, <3>1, <3>2, <3>3 DEF BudgetInv, AlreadyRunning, Updating, Charged
    <2>7. ASSUME NEW v \in Versions, NEW s \in Signatures, CheckIgnores(v, s) PROVE BudgetInv'
      <3>1. /\ pc = "idle" /\ pc' = "idle" /\ signature' = s /\ s # NoSignature
            /\ UNCHANGED <<failed, attempts, skipped>>
        BY <2>7, DeviceAssumption DEF CheckIgnores
      <3>2. streak' = IF signature' = signature THEN streak ELSE 0
        BY <2>0, <2>1, <3>1 DEF Accepted
      <3>3. CASE s = signature
        BY <3>1, <3>2, <3>3 DEF BudgetInv, Charged, Updating
      <3>4. CASE s # signature
        <4>1. streak' = 0
          BY <3>2, <3>4, <3>1
        <4>2. streak' <= Charged'
          BY <3>1, <4>1 DEF BudgetInv, Charged
        <4> QED BY <3>1, <4>1, <4>2 DEF BudgetInv, Updating, MaxAttempts
      <3> QED BY <3>3, <3>4
    <2>8. ASSUME NEW v \in Versions, NEW s \in Signatures, CheckAccepts(v, s) PROVE BudgetInv'
      <3>1. /\ pc = "idle" /\ pc' = "offered" /\ signature' = s /\ s # NoSignature /\ ~Ignored(s)
            /\ UNCHANGED <<failed, attempts, skipped>>
        BY <2>8, DeviceAssumption DEF CheckAccepts
      <3>2. streak' = (IF s = signature THEN streak ELSE 0) + 1
        BY <2>0, <3>1 DEF Accepted
      <3>3. Charged' \in Nat /\ Charged' <= MaxAttempts
        BY <3>1 DEF BudgetInv, Charged, Ignored, ShouldRetryFailedOffer, MaxAttempts
      <3>4. s = signature => streak <= Charged /\ Charged' = Charged
        BY <3>1 DEF BudgetInv, Charged, Ignored, Updating
      <3>5. streak' <= Charged' + 1 /\ streak' <= MaxAttempts + 1 /\ streak' \in Nat
        <4> DEFINE before == Charged
                   after == Charged'
        <4>1. after \in Nat /\ after <= MaxAttempts /\ (s = signature => streak <= before /\ after = before)
          BY <3>3, <3>4
        <4> HIDE DEF before, after
        <4>2. streak' <= after + 1 /\ streak' <= MaxAttempts + 1 /\ streak' \in Nat
          BY <2>1, <3>2, <4>1 DEF MaxAttempts
        <4> QED BY <4>2 DEF after
      <3>6. pc' \in Updating /\ signature' # NoSignature
        BY <3>1 DEF Updating
      <3>7. attempts' \in Nat /\ attempts' <= MaxAttempts + 1
        BY <3>1 DEF BudgetInv
      <3> QED BY <3>3, <3>5, <3>6, <3>7 DEF BudgetInv
    <2> QED BY <1>2, <2>2, <2>3, <2>4, <2>5, <2>6, <2>7, <2>8
            DEF HNext, Next, Setup, Check, Download, OTA, SetupRestarts, WiFiLost,
                FlashRestarts, PowerLoss
  <1> QED BY <1>1, <1>2

(* While the server stands on one offer, a unit that stays up attempts it  *)
(* at most four times, however the attempts end.                           *)
THEOREM RetriesAreBounded == HSpec => []RetryBudget
  <1>1. HInit => BudgetInv
    <2> SUFFICES ASSUME HInit PROVE BudgetInv
      OBVIOUS
    <2>1. /\ pc = "boot" /\ signature = NoSignature /\ failed = NoSignature
          /\ attempts = 0 /\ streak = 0
      BY DEF HInit, Init
    <2> QED BY <2>1 DEF BudgetInv, Charged, MaxAttempts, Updating
  <1>2. BudgetInv => RetryBudget
    BY DEF BudgetInv, RetryBudget
  <1> QED BY <1>1, <1>2, BudgetInvNext, PTL DEF HSpec
-----------------------------------------------------------------------------
(* A unit keeps the promise of TwoSlots: every step of Device is a step of *)
(* the abstract unit or leaves it alone.                                   *)
ServiceUnchanged == (pc \in InService) <=> (pc' \in InService)

LEMMA Stutter ==
    ASSUME UNCHANGED flash, ServiceUnchanged
    PROVE  UNCHANGED Promise!avars
  <1>1. UNCHANGED <<slots[bootSlot], Fallback, Standing>>
    BY DEF flash, Fallback, Standing
  <1>2. (pc \in InService)' = (pc \in InService)
    BY DEF ServiceUnchanged
  <1> QED BY <1>1, <1>2 DEF Promise!avars

LEMMA ResetRefines ==
    ASSUME UNCHANGED flash, Restart
    PROVE  Promise!Reset \/ UNCHANGED Promise!avars
  <1>1. UNCHANGED <<slots[bootSlot], Fallback, Standing>>
    BY DEF flash, Fallback, Standing
  <1>2. pc' \notin InService
    BY DEF Restart, InService, Updating
  <1>3. CASE pc \in InService
    BY <1>1, <1>2, <1>3 DEF Promise!Reset
  <1>4. CASE pc \notin InService
    BY <1>2, <1>4, Stutter DEF ServiceUnchanged
  <1> QED BY <1>3, <1>4

(* The bootloader reads the two slots as the abstract unit does.           *)
LEMMA BootRefines ==
    ASSUME IInv, Bootloader
    PROVE  Promise!Boot \/ UNCHANGED Promise!avars
  <1>1. /\ bootSlot \in Slots /\ Other(bootSlot) \in Slots /\ Other(bootSlot) # bootSlot
        /\ Other(Other(bootSlot)) = bootSlot
        /\ otaState \in [Slots -> {"valid", "new", "pending", "aborted"}]
    BY OtherSlot DEF IInv, TypeOK
  <1>2. /\ slots' = slots /\ bootSlot' = BootTarget
        /\ otaState' = [otaState EXCEPT ![bootSlot] = Booted(@)]
        /\ pc \notin InService /\ pc' \notin InService
    BY DEF Bootloader, InService, Updating
  <1>3. (pc \in InService)' = (pc \in InService)
    BY <1>2
  <1>4. CASE FallsBack
    <2>1. /\ bootSlot' = Other(bootSlot)
          /\ otaState[bootSlot] = "pending" /\ otaState[Other(bootSlot)] = "valid"
          /\ otaState'[bootSlot] = "aborted" /\ otaState'[Other(bootSlot)] = "valid"
          /\ slots[Other(bootSlot)] \in Images
      BY <1>1, <1>2, <1>4 DEF FallsBack, BootTarget, Booted
    <2>2. Standing = "trial" /\ Standing' = "confirmed"
      BY <2>1 DEF Standing
    <2>3. Fallback = slots[Other(bootSlot)] /\ Fallback # NoFile /\ Fallback' = NoFile
      BY <1>1, <1>2, <2>1, DeviceAssumption DEF Fallback
    <2>4. Promise!GoBack
      BY <1>2, <1>3, <2>1, <2>2, <2>3 DEF Promise!GoBack
    <2> QED BY <1>2, <2>4 DEF Promise!Boot
  <1>5. CASE ~FallsBack
    <2>1. /\ bootSlot' = bootSlot /\ otaState'[bootSlot] = Booted(otaState[bootSlot])
          /\ otaState'[Other(bootSlot)] = otaState[Other(bootSlot)]
      BY <1>1, <1>2, <1>5 DEF BootTarget
    <2>2. UNCHANGED <<slots[bootSlot], Fallback>>
      BY <1>2, <2>1 DEF Fallback
    <2>3. CASE otaState[bootSlot] = "new"
      <3>1. Standing = "new" /\ Standing' = "trial"
        BY <2>1, <2>3 DEF Standing, Booted
      <3> QED BY <1>2, <1>3, <2>2, <3>1 DEF Promise!Try, Promise!Boot
    <2>4. CASE otaState[bootSlot] = "pending"
      <3>1. Standing = "trial" /\ Standing' = "kept"
        BY <2>1, <2>4 DEF Standing, Booted
      <3>2. Fallback = NoFile
        BY <1>5, <2>4 DEF FallsBack, Fallback
      <3> QED BY <1>2, <1>3, <2>2, <3>1, <3>2 DEF Promise!Stay, Promise!Boot
    <2>5. CASE otaState[bootSlot] \in {"valid", "aborted"}
      <3>1. Standing' = Standing
        BY <2>1, <2>5 DEF Standing, Booted
      <3> QED BY <1>3, <2>2, <3>1 DEF Promise!avars
    <2> QED BY <1>1, <2>3, <2>4, <2>5
  <1> QED BY <1>4, <1>5

LEMMA EnterRefines ==
    ASSUME IInv, NEW marked \in BOOLEAN, SetupDone(marked)
    PROVE  Promise!Enter
  <1>1. /\ bootSlot \in Slots /\ Other(bootSlot) \in Slots /\ Other(bootSlot) # bootSlot
        /\ otaState \in [Slots -> {"valid", "new", "pending", "aborted"}]
    BY OtherSlot DEF IInv, TypeOK
  <1>2. /\ pc = "setup" /\ pc' = "idle" /\ running = bootSlot
        /\ slots' = slots /\ bootSlot' = bootSlot
        /\ \/ otaState' = otaState
           \/ otaState' = [otaState EXCEPT ![bootSlot] = "valid"]
    BY DEF IInv, SlotsInv, SetupDone
  <1>3. /\ otaState'[Other(bootSlot)] = otaState[Other(bootSlot)]
        /\ otaState'[bootSlot] \in {otaState[bootSlot], "valid"}
    BY <1>1, <1>2
  <1>4. UNCHANGED <<slots[bootSlot], Fallback>>
    BY <1>2, <1>3 DEF Fallback
  <1>5. Standing # "new" /\ Standing' \in {Standing, "confirmed"}
    <2>1. otaState[bootSlot] # "new"
      BY <1>2 DEF IInv, TrialInv
    <2> QED BY <1>1, <1>2, <1>3, <2>1 DEF Standing
  <1>6. pc \notin InService /\ (pc \in InService)' = TRUE
    BY <1>2 DEF InService, Updating
  <1> QED BY <1>4, <1>5, <1>6 DEF Promise!Enter

LEMMA OverwriteRefines ==
    ASSUME IInv, FlashBegins
    PROVE  Promise!Overwrite
  <1>1. /\ bootSlot \in Slots /\ Other(bootSlot) # bootSlot /\ Other(bootSlot) \in Slots
        /\ slots \in [Slots -> Images \cup {Partial}]
    BY OtherSlot DEF IInv, TypeOK
  <1>2. /\ running = bootSlot /\ bootSlot' = bootSlot /\ otaState' = otaState
        /\ slots' = [slots EXCEPT ![Other(bootSlot)] = Partial]
        /\ pc \in InService /\ pc' \in InService
    BY DEF IInv, SlotsInv, FlashBegins, InService, Updating
  <1>3. slots'[bootSlot] = slots[bootSlot] /\ slots'[Other(bootSlot)] = Partial
    BY <1>1, <1>2
  <1>4. UNCHANGED <<slots[bootSlot], Standing>>
    BY <1>2, <1>3 DEF Standing
  <1>5. Fallback' = NoFile
    BY <1>2, <1>3, DeviceAssumption DEF Fallback
  <1>6. (pc \in InService)' = (pc \in InService)
    BY <1>2
  <1> QED BY <1>2, <1>4, <1>5, <1>6 DEF Promise!Overwrite

(* What is written was verified for the running image, which stays behind. *)
LEMMA InstallRefines ==
    ASSUME IInv, FlashEnds
    PROVE  Promise!Install
  <1>1. /\ bootSlot \in Slots /\ Other(bootSlot) # bootSlot /\ Other(bootSlot) \in Slots
        /\ Other(Other(bootSlot)) = bootSlot
        /\ slots \in [Slots -> Images \cup {Partial}]
        /\ otaState \in [Slots -> {"valid", "new", "pending", "aborted"}]
    BY OtherSlot DEF IInv, TypeOK
  <1>2. /\ pc = "writing" /\ pc' = "flashed" /\ running = bootSlot
        /\ bootSlot' = Other(bootSlot)
        /\ slots' = [slots EXCEPT ![Other(bootSlot)] = file]
        /\ otaState' = [otaState EXCEPT ![Other(bootSlot)] = "new"]
    BY DEF IInv, SlotsInv, FlashEnds
  <1>3. /\ slots[bootSlot] \in Images /\ file \in Images
        /\ signature \in Signatures /\ version \in Versions
        /\ Covers[signature] = [model |-> BuildModel[slots[bootSlot]], version |-> version,
                                image |-> file]
        /\ IsVersionNewer(version, BuildVersion[slots[bootSlot]])
    BY <1>2 DEF IInv, SlotsInv, StagedInv, Updating, VerifyManifestSignature, Manifest, Fresh,
                RunningImage
  <1>4. /\ slots'[bootSlot'] = file /\ slots'[Other(bootSlot')] = slots[bootSlot]
        /\ otaState'[bootSlot'] = "new" /\ otaState'[Other(bootSlot')] = otaState[bootSlot]
    BY <1>1, <1>2
  <1>5. <<slots[bootSlot], slots'[bootSlot']>> \in Upgrades
    BY <1>3, <1>4 DEF Upgrades
  <1>6. Standing' = "new" /\ (Standing = "confirmed" <=> otaState[bootSlot] = "valid")
    BY <1>1, <1>4 DEF Standing
  <1>7. Fallback' = IF Standing = "confirmed" THEN slots[bootSlot] ELSE NoFile
    BY <1>3, <1>4, <1>6 DEF Fallback
  <1>8. pc \in InService /\ (pc \in InService)' = FALSE
    BY <1>2 DEF InService, Updating
  <1> QED BY <1>5, <1>6, <1>7, <1>8 DEF Promise!Install

LEMMA StepRefines ==
    ASSUME IInv, [Next]_vars
    PROVE  [Promise!Next]_(Promise!avars)
  <1> SUFFICES Promise!Next \/ UNCHANGED Promise!avars
    OBVIOUS
  <1>1. CASE UNCHANGED vars
    BY <1>1, Stutter DEF vars, ServiceUnchanged
  <1>2. CASE Setup
    <2>1. CASE Bootloader
      BY <2>1, BootRefines DEF Promise!Next
    <2>2. CASE SetupRestarts
      BY <2>2, ResetRefines DEF SetupRestarts, Promise!Next
    <2>3. CASE SetupHalts
      BY <2>3, Stutter DEF SetupHalts, ServiceUnchanged, InService, Updating
    <2>4. CASE \E marked \in BOOLEAN : SetupDone(marked)
      BY <2>4, EnterRefines DEF Promise!Next
    <2> QED BY <1>2, <2>1, <2>2, <2>3, <2>4 DEF Setup
  <1>3. CASE Check
    <2>1. CASE WiFiLost
      BY <2>1, ResetRefines DEF WiFiLost, Promise!Next
    <2>2. CASE ~WiFiLost
      <3>1. UNCHANGED flash /\ pc = "idle" /\ pc' \in {"idle", "offered"}
        BY <1>3, <2>2 DEF Check, CheckWithoutOffer, CheckIgnores, CheckAccepts
      <3> QED BY <3>1, Stutter DEF ServiceUnchanged, InService, Updating
    <2> QED BY <2>1, <2>2
  <1>4. CASE Download
    <2>1. UNCHANGED flash /\ pc \in Updating /\ pc' \in {"idle"} \cup Updating
      BY <1>4 DEF Download, DownloadRefused, DownloadStarts, DownloadBreaks, DownloadEnds, GiveUp,
                  Updating
    <2> QED BY <2>1, Stutter DEF ServiceUnchanged, InService
  <1>5. CASE OTA
    <2>1. CASE FlashBegins
      BY <2>1, OverwriteRefines DEF Promise!Next
    <2>2. CASE FlashEnds
      BY <2>2, InstallRefines DEF Promise!Next
    <2>3. CASE FlashRestarts
      BY <2>3, ResetRefines DEF FlashRestarts, Promise!Next
    <2>4. CASE ~FlashBegins /\ ~FlashEnds /\ ~FlashRestarts
      <3>1. UNCHANGED flash /\ pc \in Updating /\ pc' \in {"idle"} \cup Updating
        BY <1>5, <2>4 DEF OTA, HashFails, SignatureFails, DowngradeRefused, AlreadyRunning,
                          Verified, FlashRefused, FlashFails, GiveUp, Updating
      <3> QED BY <3>1, Stutter DEF ServiceUnchanged, InService
    <2> QED BY <2>1, <2>2, <2>3, <2>4
  <1>6. CASE PowerLoss
    BY <1>6, ResetRefines DEF PowerLoss, Promise!Next
  <1> QED BY <1>1, <1>2, <1>3, <1>4, <1>5, <1>6 DEF Next

(* Whatever the server answers, whatever fails in an update and wherever   *)
(* power is lost, a unit changes its image only by an upgrade its          *)
(* publisher allowed or by going back from a trial (OTA(),                 *)
(* markFirmwareValid(), and the bootloader's rollback).                    *)
THEOREM ImplementsTwoSlots == Spec => KeepsPromise
  <1>1. Init => Promise!Init
    <2> SUFFICES ASSUME Init PROVE Promise!Init
      OBVIOUS
    <2>0. Other(0) = 1 /\ 0 \in Slots /\ 1 \in Slots
      BY DEF Slots, Other
    <2>1. bootSlot = 0
      BY DEF Init
    <2>2. /\ slots = [s \in Slots |-> IF s = 0 THEN Factory ELSE Partial]
          /\ otaState = [s \in Slots |-> "valid"]
      BY DEF Init
    <2>3. slots[bootSlot] = Factory /\ slots[Other(bootSlot)] = Partial /\ otaState[bootSlot] = "valid"
      BY <2>0, <2>1, <2>2
    <2>4. Fallback = NoFile /\ Standing = "confirmed"
      BY <2>3, DeviceAssumption DEF Fallback, Standing
    <2>5. pc \notin InService
      BY DEF Init, InService, Updating
    <2> QED BY <2>3, <2>4, <2>5 DEF Promise!Init
  <1>2. IInv /\ [Next]_vars => [Promise!Next]_(Promise!avars)
    BY StepRefines
  <1> QED BY <1>1, <1>2, Invariance, PTL DEF Spec, KeepsPromise, Promise!Spec

-----------------------------------------------------------------------------
(* Rollout.                                                                *)

(* Every row is covered by its signature, under the key of its upload.     *)
RowsInv ==
    /\ firmware \in Seq(Catalogue!Rows)
    /\ \A i \in DOMAIN firmware :
          firmware[i].signature \notin OtherKey =>
              Covers[firmware[i].signature] =
                  [model |-> firmware[i].model, version |-> DeviceReads[firmware[i].version],
                   image |-> firmware[i].image]

(* The standing offer is a row that the server found newer than what runs; *)
(* what is staged are the bytes of a row with its signature.               *)
StandsFor(i) ==
    /\ firmware[i].signature = signature /\ DeviceReads[firmware[i].version] = version
    /\ firmware[i].model = BuildModel[RunningImage]
    /\ IsVersionNewer(firmware[i].version, Reported[RunningImage])

OfferInv ==
    /\ pc \in Updating => \E i \in DOMAIN firmware : StandsFor(i)
    /\ pc = "staged" =>
          \E i \in DOMAIN firmware : firmware[i].signature = signature /\ firmware[i].image = file

(* What was refused was refused by the image that runs.                    *)
BootInv == pc = "boot" => lastError = ""

RIInv == IInv /\ RowsInv /\ OfferInv /\ BootInv /\ RefusedForCause

LEMMA RowFacts ==
    ASSUME RowsInv, NEW i \in DOMAIN firmware
    PROVE  /\ firmware[i] \in Catalogue!Rows
           /\ firmware[i].model \in Models /\ firmware[i].version \in Labels
           /\ firmware[i].image \in Images /\ firmware[i].signature \in Signatures
           /\ DeviceReads[firmware[i].version] \in Versions
  <1>1. firmware[i] \in Catalogue!Rows
    BY DEF RowsInv
  <1>2. /\ firmware[i].model \in Models /\ firmware[i].version \in Labels
        /\ firmware[i].image \in Images /\ firmware[i].signature \in Signatures
    BY <1>1 DEF Catalogue!Rows
  <1> QED BY <1>1, <1>2, RolloutAssumption

LEMMA OffersAreRows ==
    ASSUME NEW i \in Offers
    PROVE  /\ i \in DOMAIN firmware /\ firmware[i].model = Model
           /\ Known /\ IsVersionNewer(firmware[i].version, Reported[RunningImage])
  BY DEF Offers, Catalogue!Latest, Catalogue!Offered

LEMMA ServedImages ==
    ASSUME RowsInv PROVE Served \subseteq Images
  BY RowFacts DEF Served

(* What the composition lets a unit do, Device lets it do.                 *)
LEMMA UnitSteps ==
    ASSUME RowsInv, [RNext]_rvars PROVE [Next]_vars
  <1>1. CASE UNCHANGED rvars
    BY <1>1 DEF rvars
  <1>2. CASE Answered
    <2>1. CASE CheckWithoutOffer
      BY <2>1 DEF Check, Next
    <2>2. ASSUME NEW i \in Offers,
                 \/ CheckIgnores(DeviceReads[firmware[i].version], firmware[i].signature)
                 \/ CheckAccepts(DeviceReads[firmware[i].version], firmware[i].signature)
          PROVE  Next
      <3>1. DeviceReads[firmware[i].version] \in Versions /\ firmware[i].signature \in Signatures
        BY OffersAreRows, RowFacts
      <3> QED BY <2>2, <3>1 DEF Check, Next
    <2> QED BY <1>2, <2>1, <2>2 DEF Answered
  <1>3. CASE Unanswered
    BY <1>3 DEF Unanswered, Check, Next
  <1>4. CASE Works
    <2>1. CASE Fetch
      BY <2>1, ServedImages DEF Fetch, Download, Next
    <2>2. CASE SetupEnds
      BY <2>2 DEF SetupEnds, Setup, Next
    <2> QED BY <1>4, <2>1, <2>2 DEF Works, Setup, Next
  <1>5. CASE Trouble
    BY <1>5 DEF Trouble, FailsOpen, Setup, Check, OTA, Next
  <1>6. CASE Publish \/ Withdraw
    BY <1>6 DEF Publish, Withdraw
  <1> QED BY <1>1, <1>2, <1>3, <1>4, <1>5, <1>6 DEF RNext

LEMMA CatalogueSteps ==
    ASSUME [RNext]_rvars PROVE [Catalogue!CatalogueNext]_firmware
  <1>1. CASE Publish
    BY <1>1 DEF Publish, Catalogue!CatalogueNext
  <1>2. CASE Withdraw
    BY <1>2 DEF Withdraw, Catalogue!CatalogueNext
  <1> QED BY <1>1, <1>2 DEF RNext, Answered, Unanswered, Works, Trouble, rvars

(* A row that is published keeps all but its being active.                 *)
RowKept(i) ==
    /\ i \in DOMAIN firmware'
    /\ firmware'[i].signature = firmware[i].signature
    /\ firmware'[i].model = firmware[i].model
    /\ firmware'[i].version = firmware[i].version
    /\ firmware'[i].image = firmware[i].image

LEMMA RowsPreserved ==
    ASSUME RowsInv, [RNext]_rvars PROVE RowsInv' /\ \A i \in DOMAIN firmware : RowKept(i)
  <1>1. CASE UNCHANGED firmware
    BY <1>1 DEF RowsInv, RowKept
  <1>2. CASE Publish
    <2>1. PICK r \in Releases : firmware' = Append(firmware, r)
      BY <1>2 DEF Publish, Catalogue!Publish
    <2>2. /\ r \in Catalogue!Rows
          /\ r.signature \notin OtherKey =>
                Covers[r.signature] =
                    [model |-> r.model, version |-> DeviceReads[r.version], image |-> r.image]
      BY RolloutAssumption
    <2>3. /\ DOMAIN firmware' = 1 .. Len(firmware) + 1 /\ DOMAIN firmware = 1 .. Len(firmware)
          /\ \A i \in DOMAIN firmware : firmware'[i] = firmware[i]
          /\ firmware'[Len(firmware) + 1] = r /\ firmware' \in Seq(Catalogue!Rows)
          /\ Len(firmware) \in Nat
      BY <2>1, <2>2 DEF RowsInv
    <2>4. ASSUME NEW i \in DOMAIN firmware' PROVE i \in DOMAIN firmware \/ firmware'[i] = r
      BY <2>3
    <2>5. RowsInv'
      BY <2>2, <2>3, <2>4 DEF RowsInv
    <2> QED BY <2>3, <2>5 DEF RowKept
  <1>3. CASE Withdraw
    <2>1. PICK id \in DOMAIN firmware : firmware' = [firmware EXCEPT ![id].active = FALSE]
      BY <1>3 DEF Withdraw, Catalogue!Withdraw
    <2>2. [firmware[id] EXCEPT !.active = FALSE] \in Catalogue!Rows
      BY RowFacts DEF Catalogue!Rows
    <2>3. firmware' \in Seq(Catalogue!Rows) /\ DOMAIN firmware' = DOMAIN firmware
      BY <2>1, <2>2 DEF RowsInv
    <2>4. ASSUME NEW i \in DOMAIN firmware PROVE RowKept(i)
      BY <2>1, <2>3, RowFacts DEF Catalogue!Rows, RowKept
    <2> QED BY <2>3, <2>4 DEF RowsInv, RowKept
  <1> QED BY <1>1, <1>2, <1>3 DEF RNext, Answered, Unanswered, Works, Trouble, rvars

(* The offer is looked at only by steps of the unit.                       *)
LEMMA OfferKept ==
    ASSUME RIInv, [RNext]_rvars, pc' \in Updating => pc \in Updating,
           UNCHANGED <<running, version, signature>>, slots'[running] = slots[running],
           pc' = "staged" => pc = "staged" /\ file' = file
    PROVE  OfferInv'
  <1>1. RunningImage' = RunningImage
    BY DEF RunningImage
  <1>2. \A i \in DOMAIN firmware : RowKept(i)
    BY RowsPreserved DEF RIInv
  <1>3. ASSUME NEW i \in DOMAIN firmware, StandsFor(i) PROVE i \in DOMAIN firmware' /\ StandsFor(i)'
    BY <1>1, <1>2, <1>3 DEF StandsFor, RowKept
  <1>4. ASSUME NEW i \in DOMAIN firmware, firmware[i].signature = signature, firmware[i].image = file,
               file' = file
        PROVE  i \in DOMAIN firmware' /\ firmware'[i].signature = signature' /\ firmware'[i].image = file'
    BY <1>2, <1>4 DEF RowKept
  <1> QED BY <1>3, <1>4 DEF OfferInv, RIInv

LEMMA OfferPreserved ==
    ASSUME RIInv, [RNext]_rvars PROVE OfferInv'
  <1>0. CASE pc' \notin Updating
    BY <1>0 DEF OfferInv, Updating
  <1>1. CASE UNCHANGED vars
    BY <1>1, OfferKept DEF vars, flash, offer
  <1>2. ASSUME NEW i \in Offers, UNCHANGED firmware,
               CheckAccepts(DeviceReads[firmware[i].version], firmware[i].signature)
        PROVE  OfferInv'
    <2>1. /\ pc' = "offered" /\ version' = DeviceReads[firmware[i].version]
          /\ signature' = firmware[i].signature /\ UNCHANGED <<slots, running>>
      BY <1>2 DEF CheckAccepts, flash
    <2>2. RunningImage' = RunningImage
      BY <2>1 DEF RunningImage
    <2>3. i \in DOMAIN firmware' /\ StandsFor(i)'
      BY <1>2, <2>1, <2>2, OffersAreRows DEF StandsFor, Known
    <2> QED BY <2>1, <2>3 DEF OfferInv
  <1>3. CASE Answered
    BY <1>0, <1>2, <1>3 DEF Answered, CheckWithoutOffer, CheckIgnores, Updating
  <1>4. CASE Fetch /\ UNCHANGED firmware
    <2>1. CASE DownloadRefused \/ DownloadBreaks
      BY <1>0, <2>1 DEF DownloadRefused, DownloadBreaks, GiveUp, Updating
    <2>2. CASE DownloadStarts
      BY <2>2, OfferKept DEF DownloadStarts, Updating, flash, offer
    <2>3. ASSUME NEW bytes \in Served, DownloadEnds(bytes) PROVE OfferInv'
      <3>1. /\ pc = "downloading" /\ pc' = "staged" /\ file' = bytes
            /\ UNCHANGED <<slots, running, version, signature, firmware>>
        BY <1>4, <2>3 DEF DownloadEnds, flash, offer
      <3>2. RunningImage' = RunningImage
        BY <3>1 DEF RunningImage
      <3>3. PICK i \in DOMAIN firmware : firmware[i].signature = signature /\ firmware[i].image = bytes
        BY DEF Served
      <3>4. PICK j \in DOMAIN firmware : StandsFor(j)
        BY <3>1 DEF RIInv, OfferInv, Updating
      <3>5. StandsFor(j)'
        BY <3>1, <3>2, <3>4 DEF StandsFor
      <3> QED BY <3>1, <3>3, <3>4, <3>5 DEF OfferInv
    <2> QED BY <1>4, <2>1, <2>2, <2>3 DEF Fetch
  <1>5. CASE OTA
    <2>1. CASE Verified
      BY <2>1, OfferKept DEF Verified, Updating, flash, offer
    <2>2. CASE FlashBegins
      <3>1. /\ pc = "verified" /\ pc' = "writing" /\ UNCHANGED <<running, version, signature>>
            /\ slots' = [slots EXCEPT ![Other(running)] = Partial]
        BY <2>2 DEF FlashBegins, offer
      <3>2. slots'[running] = slots[running]
        BY <3>1, OtherSlot DEF RIInv, IInv, TypeOK
      <3> QED BY <3>1, <3>2, OfferKept DEF Updating
    <2>3. CASE ~Verified /\ ~FlashBegins
      BY <1>0, <1>5, <2>3 DEF OTA, HashFails, SignatureFails, DowngradeRefused, AlreadyRunning,
            FlashRefused, FlashFails, FlashEnds, FlashRestarts, GiveUp, Restart, Updating
    <2> QED BY <2>1, <2>2, <2>3
  <1>6. CASE Bootloader \/ SetupEnds
    BY <1>0, <1>6 DEF Bootloader, SetupEnds, SetupHalts, SetupDone, SetupRestarts, Restart, Updating
  <1>7. CASE Unanswered
    BY <1>0, <1>7 DEF Unanswered, CheckWithoutOffer, Updating
  <1>8. CASE Trouble
    BY <1>0, <1>5, <1>8 DEF Trouble, FailsOpen, OTA, PowerLoss, SetupRestarts, WiFiLost, Restart,
                            Updating
  <1> QED BY <1>1, <1>3, <1>4, <1>5, <1>6, <1>7, <1>8 DEF RNext, Works, Publish, Withdraw, rvars

(* The standing offer, when its signature is of the unit's key, is for the *)
(* very manifest that the unit puts together.                              *)
LEMMA OwnKeyVerifies ==
    ASSUME RIInv, pc = "staged", signature \notin OtherKey
    PROVE  VerifyManifestSignature
  <1>1. PICK i \in DOMAIN firmware : StandsFor(i)
    BY DEF RIInv, OfferInv, Updating
  <1>2. PICK j \in DOMAIN firmware : firmware[j].signature = signature /\ firmware[j].image = file
    BY DEF RIInv, OfferInv
  <1>3. /\ Covers[signature] = [model |-> firmware[i].model,
                                version |-> DeviceReads[firmware[i].version],
                                image |-> firmware[i].image]
        /\ Covers[signature] = [model |-> firmware[j].model,
                                version |-> DeviceReads[firmware[j].version],
                                image |-> firmware[j].image]
    BY <1>1, <1>2 DEF RIInv, RowsInv, StandsFor
  <1>4. firmware[i].image = file
    BY <1>2, <1>3
  <1> QED BY <1>1, <1>3, <1>4 DEF StandsFor, VerifyManifestSignature, Manifest

(* The image that refused is the one that runs, until the unit forgets.    *)
LEMMA SameImage ==
    ASSUME IInv, BootInv, [Next]_vars
    PROVE  RunningImage' = RunningImage \/ lastError = ""
  <1>1. CASE UNCHANGED <<slots, running>>
    BY <1>1 DEF RunningImage
  <1>2. CASE Bootloader
    BY <1>2 DEF Bootloader, BootInv
  <1>3. CASE FlashBegins \/ FlashEnds
    <2>1. running' = running /\ \E new : slots' = [slots EXCEPT ![Other(running)] = new]
      BY <1>3 DEF FlashBegins, FlashEnds
    <2>2. slots'[running] = slots[running]
      BY <2>1, OtherSlot DEF IInv, TypeOK
    <2> QED BY <2>1, <2>2 DEF RunningImage
  <1>4. CASE Setup
    BY <1>1, <1>2, <1>4 DEF Setup, SetupRestarts, SetupHalts, SetupDone, flash
  <1>5. CASE Check
    BY <1>1, <1>5 DEF Check, WiFiLost, CheckWithoutOffer, CheckIgnores, CheckAccepts, flash
  <1>6. CASE Download
    BY <1>1, <1>6 DEF Download, DownloadRefused, DownloadStarts, DownloadBreaks, DownloadEnds, flash
  <1>7. CASE OTA
    BY <1>1, <1>3, <1>7
       DEF OTA, HashFails, SignatureFails, DowngradeRefused, AlreadyRunning, Verified, FlashRefused,
           FlashFails, FlashRestarts, flash
  <1>8. CASE PowerLoss
    BY <1>1, <1>8 DEF PowerLoss, flash
  <1>9. CASE UNCHANGED vars
    BY <1>1, <1>9 DEF vars, flash
  <1> QED BY <1>4, <1>5, <1>6, <1>7, <1>8, <1>9 DEF Next

(* What a step does to the last refusal: it is forgotten, it stands, it    *)
(* gives way to a fault, or the staged update is refused.                  *)
Faults == {"download", "hash", "open", "space", "end", "write"}

LEMMA Refusals ==
    ASSUME [Next]_vars
    PROVE  \/ pc' = "boot" /\ lastError' = ""
           \/ (pc' = "boot" => pc = "boot") /\ UNCHANGED <<lastError, failed>>
           \/ pc' = "idle" /\ lastError' \in Faults
           \/ SignatureFails
           \/ DowngradeRefused
  <1>1. CASE Restart
    BY <1>1 DEF Restart, RamCleared
  <1>2. ASSUME NEW r \in Faults, GiveUp(r) PROVE pc' = "idle" /\ lastError' \in Faults
    BY <1>2 DEF GiveUp, NoteUpdateFailed
  <1>3. CASE Setup
    BY <1>1, <1>3 DEF Setup, Bootloader, SetupRestarts, SetupHalts, SetupDone, caches
  <1>4. CASE Check
    BY <1>1, <1>4 DEF Check, WiFiLost, CheckWithoutOffer, CheckIgnores, CheckAccepts, caches
  <1>5. CASE Download
    BY <1>2, <1>5 DEF Download, DownloadRefused, DownloadStarts, DownloadBreaks, DownloadEnds, caches,
                      Faults
  <1>6. CASE OTA
    <2>1. CASE HashFails
      BY <1>2, <2>1 DEF HashFails, Faults
    <2>2. ASSUME NEW reason \in Reasons, FlashRefused(reason) \/ FlashFails(reason)
          PROVE  pc' = "idle" /\ lastError' \in Faults
      BY <1>2, <2>2 DEF FlashRefused, FlashFails, Faults
    <2> QED BY <1>1, <1>6, <2>1, <2>2
            DEF OTA, AlreadyRunning, Verified, FlashBegins, FlashEnds, FlashRestarts, caches
  <1>7. CASE PowerLoss
    BY <1>1, <1>7 DEF PowerLoss
  <1>8. CASE UNCHANGED vars
    BY <1>8 DEF vars, caches
  <1> QED BY <1>3, <1>4, <1>5, <1>6, <1>7, <1>8 DEF Next

LEMMA BootPreserved ==
    ASSUME RIInv, [RNext]_rvars PROVE BootInv'
  <1>1. [Next]_vars
    BY UnitSteps DEF RIInv
  <1>2. SignatureFails \/ DowngradeRefused => pc' = "idle"
    BY DEF SignatureFails, DowngradeRefused, GiveUp
  <1> QED BY <1>1, <1>2, Refusals DEF RIInv, BootInv

(* The two refusals of OTA() look at what OfferInv says of a staged image. *)
LEMMA RefusalsPreserved ==
    ASSUME RIInv, [RNext]_rvars PROVE RefusedForCause'
  <1>1. [Next]_vars /\ \A i \in DOMAIN firmware : RowKept(i)
    BY UnitSteps, RowsPreserved DEF RIInv
  <1>2. RunningImage' = RunningImage \/ lastError = ""
    BY <1>1, SameImage DEF RIInv
  <1>3. CASE lastError' = "" \/ lastError' \in Faults
    BY <1>3 DEF RefusedForCause, Faults
  <1>4. CASE UNCHANGED <<lastError, failed>>
    <2>1. ASSUME NEW i \in DOMAIN firmware, OrdersDiffer(firmware[i]), lastError # ""
          PROVE  OrdersDiffer(firmware[i])'
      BY <1>1, <1>2, <2>1 DEF OrdersDiffer, RowKept
    <2>2. \A i \in DOMAIN firmware : i \in DOMAIN firmware' /\ firmware'[i].signature = firmware[i].signature
      BY <1>1 DEF RowKept
    <2> QED BY <1>4, <2>1, <2>2 DEF RIInv, RefusedForCause
  <1>5. ASSUME pc = "staged"
        PROVE  \E i \in DOMAIN firmware : StandsFor(i)
    BY <1>5 DEF RIInv, OfferInv, Updating
  <1>6. CASE SignatureFails
    <2>1. pc = "staged" /\ signature \in OtherKey
      BY <1>6, OwnKeyVerifies DEF SignatureFails
    <2>2. lastError' = "signature" /\ failed' = signature
      BY <1>6 DEF SignatureFails, GiveUp, NoteUpdateFailed
    <2>3. \E i \in DOMAIN firmware' : firmware'[i].signature = signature
      BY <1>1, <1>5, <2>1 DEF StandsFor, RowKept
    <2> QED BY <2>1, <2>2, <2>3 DEF RefusedForCause
  <1>7. CASE DowngradeRefused
    <2>1. pc = "staged" /\ ~Fresh /\ RunningImage' = RunningImage
      BY <1>7 DEF DowngradeRefused, RunningImage, flash
    <2>2. lastError' = "downgrade" /\ failed' = signature
      BY <1>7 DEF DowngradeRefused, GiveUp, NoteUpdateFailed
    <2>3. PICK i \in DOMAIN firmware : StandsFor(i)
      BY <1>5, <2>1
    <2>4. OrdersDiffer(firmware[i])'
      BY <1>1, <2>1, <2>3 DEF OrdersDiffer, StandsFor, Fresh, RowKept
    <2>5. i \in DOMAIN firmware' /\ firmware'[i].signature = failed'
      BY <1>1, <2>2, <2>3 DEF StandsFor, RowKept
    <2> QED BY <2>2, <2>4, <2>5 DEF RefusedForCause
  <1> QED BY <1>1, <1>3, <1>4, <1>6, <1>7, Refusals

LEMMA RInitInv == RInit => RIInv
  <1> SUFFICES ASSUME RInit PROVE RIInv
    OBVIOUS
  <1>1. IInv
    BY InitInv DEF RInit
  <1>2. RowsInv
    BY DEF RInit, Catalogue!CatalogueInit, RowsInv
  <1>3. OfferInv /\ BootInv /\ RefusedForCause
    BY DEF RInit, Init, OfferInv, BootInv, RefusedForCause, Updating
  <1> QED BY <1>1, <1>2, <1>3 DEF RIInv

LEMMA RNextInv == RIInv /\ [RNext]_rvars => RIInv'
  <1> SUFFICES ASSUME RIInv, [RNext]_rvars PROVE RIInv'
    OBVIOUS
  <1>1. [Next]_vars
    BY UnitSteps DEF RIInv
  <1> QED BY <1>1, NextInv, RowsPreserved, OfferPreserved, BootPreserved, RefusalsPreserved DEF RIInv

THEOREM RInvariance == RSpec => []RIInv
  <1> QED BY RInitInv, RNextInv, PTL DEF RSpec

(* Whatever a publisher does and whatever befalls the unit, an update      *)
(* fails for its signature only if it was made with another key than the   *)
(* unit's, and for its version only if unit and server do not order it     *)
(* alike: otherwise what UploadFirmware verified is what OTA() verifies.   *)
THEOREM RefusalsAreCaused == RSpec => []RefusedForCause
  <1>1. RIInv => RefusedForCause
    BY DEF RIInv
  <1> QED BY <1>1, RInvariance, PTL

(* Where the account kept the unit's key and both read the same order, the *)
(* unit refuses nothing of what it is offered.                             *)
KeyKept == \A i \in DOMAIN firmware : firmware[i].signature \notin OtherKey

OrdersAgree ==
    \A label \in Labels, image \in Images :
        IsVersionNewer(label, Reported[image]) =>
            IsVersionNewer(DeviceReads[label], BuildVersion[image])

THEOREM NothingRefused ==
    ASSUME OrdersAgree
    PROVE  RSpec => [](KeyKept => lastError \notin {"signature", "downgrade"})
  <1>1. RIInv => (KeyKept => lastError \notin {"signature", "downgrade"})
    <2> SUFFICES ASSUME RIInv, KeyKept PROVE lastError \notin {"signature", "downgrade"}
      OBVIOUS
    <2>1. lastError # "signature"
      BY DEF RIInv, RefusedForCause, KeyKept
    <2>2. ASSUME lastError = "downgrade", NEW i \in DOMAIN firmware, OrdersDiffer(firmware[i]) PROVE FALSE
      <3>1. RunningImage \in Images
        BY <2>2 DEF RIInv, IInv, BootInv, SlotsInv, RunningImage
      <3> QED BY <2>2, <3>1, RowFacts DEF RIInv, OrdersDiffer, OrdersAgree
    <2> QED BY <2>1, <2>2 DEF RIInv, RefusedForCause
  <1> QED BY <1>1, RInvariance, PTL

(* Composed with a catalogue, a unit is still the unit of Device, and the  *)
(* catalogue the one that Publishing implements: what is proved of either  *)
(* holds of the two together.                                              *)
THEOREM KeepsBoth == RSpec => Spec /\ Catalogue!CatalogueSpec
  <1>1. RInit => Init /\ Catalogue!CatalogueInit
    BY DEF RInit
  <1>2. RIInv /\ [RNext]_rvars => [Next]_vars /\ [Catalogue!CatalogueNext]_firmware
    BY UnitSteps, CatalogueSteps DEF RIInv
  <1> QED BY <1>1, <1>2, RInvariance, PTL DEF RSpec, Spec, Catalogue!CatalogueSpec
=============================================================================
