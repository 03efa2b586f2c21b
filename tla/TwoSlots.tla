------------------------------ MODULE TwoSlots ------------------------------
(***************************************************************************)
(* What a unit promises, whatever happens to its updates: it always has a  *)
(* selected image, which changes in two ways only.  An upgrade takes its   *)
(* place while the unit is in service and keeps it as the fallback; and a  *)
(* reset during the new image's trial boot brings the fallback back.       *)
(***************************************************************************)
CONSTANTS
    Images,
    Upgrades,   \* pairs <<from, to>> of images that a publisher allowed
    Factory,
    NoImage

VARIABLES
    selected,   \* the image that the next boot starts from
    fallback,   \* the image that a failed trial goes back to, or NoImage
    standing,   \* how far `selected` has been confirmed
    inService   \* setup is over: the unit polls

avars == <<selected, fallback, standing, inService>>

Init ==
    /\ selected = Factory
    /\ fallback = NoImage
    /\ standing = "confirmed"
    /\ inService = FALSE

(* A new image gets one boot as a trial; the next one goes back if it can. *)
Try ==
    /\ standing = "new"
    /\ standing' = "trial"
    /\ UNCHANGED <<selected, fallback, inService>>

GoBack ==
    /\ standing = "trial" /\ fallback # NoImage
    /\ selected' = fallback
    /\ fallback' = NoImage
    /\ standing' = "confirmed"
    /\ UNCHANGED inService

Stay ==
    /\ standing = "trial" /\ fallback = NoImage
    /\ standing' = "kept"
    /\ UNCHANGED <<selected, fallback, inService>>

Boot == ~inService /\ (Try \/ GoBack \/ Stay)

(* The unit comes up; it may have failed to confirm its image.             *)
Enter ==
    /\ ~inService /\ standing # "new"
    /\ inService' = TRUE
    /\ standing' \in {standing, "confirmed"}
    /\ UNCHANGED <<selected, fallback>>

Reset ==
    /\ inService
    /\ inService' = FALSE
    /\ UNCHANGED <<selected, fallback, standing>>

(* The slot of the fallback is taken for the next image.                   *)
Overwrite ==
    /\ inService
    /\ fallback' = NoImage
    /\ UNCHANGED <<selected, standing, inService>>

Install ==
    /\ inService
    /\ <<selected, selected'>> \in Upgrades
    /\ fallback' = IF standing = "confirmed" THEN selected ELSE NoImage
    /\ standing' = "new"
    /\ inService' = FALSE

Next == Boot \/ Enter \/ Reset \/ Overwrite \/ Install

Spec == Init /\ [][Next]_avars
=============================================================================
