--------------------------- MODULE DeviceHistory ---------------------------
(***************************************************************************)
(* Device with what a serial log would remember of it: history variables   *)
(* that observe its steps and constrain none.                              *)
(***************************************************************************)
EXTENDS Device

VARIABLES
    tried,      \* signatures whose update was attempted since the last reset
    streak      \* attempts at the standing offer since it came to stand

history == <<tried, streak>>
hvars == <<vars, history>>

HInit == Init /\ tried = {} /\ streak = 0

Accepted == pc = "idle" /\ pc' = "offered"

Observe ==
    /\ tried' = IF pc' = "boot" THEN {}
                ELSE IF Accepted THEN tried \cup {signature'} ELSE tried
    /\ streak' = (IF signature' = signature THEN streak ELSE 0)
                 + (IF Accepted THEN 1 ELSE 0)

HNext == Next /\ Observe

HSpec == HInit /\ [][HNext]_hvars
-----------------------------------------------------------------------------
(* While the server stands on one offer, a unit that stays up downloads it *)
(* at most four times: three retries that shouldRetryFailedOffer grants    *)
(* and the first attempt, whatever the attempts fail with and whether the  *)
(* last one is cut short by "already running".                             *)
RetryBudget == streak <= MaxAttempts + 1

(* A published fix is never suppressed: check() drops an offer only if the *)
(* same signature was itself attempted since the unit came up.  The caches *)
(* are keyed on the signature and not on the version label for this        *)
(* (ota.cpp 41-46).                                                        *)
SuppressesOnlyTried ==
    pc = "idle" /\ pc' = "idle" /\ signature' # signature => signature' \in tried

NeverSuppressesAFix == [][SuppressesOnlyTried]_hvars
=============================================================================
