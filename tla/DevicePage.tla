----------------------------- MODULE DevicePage -----------------------------
(***************************************************************************)
(* The dashboard's device page (frontend/src/pages/DeviceList.tsx) over    *)
(* the tables it shows.  A poll is three requests that the server answers  *)
(* at three moments; the page takes over their answers together, and       *)
(* begins the next poll whether or not the last has come back.  Meanwhile  *)
(* units check in, fall silent, and firmware is published and withdrawn.   *)
(*                                                                         *)
(* Everything belongs to the account that is signed in.                    *)
(***************************************************************************)
EXTENDS Catalogue, FiniteSets, SequencesExt

CONSTANTS
    Owner,          \* the account that is signed in
    Devices,
    DeviceModel,    \* the model each is registered as
    Interval,       \* how long each means to wait between check-ins, in seconds
    Never, NoRow, NoVersion, Unread, Torn,
    Blank,          \* the empty string, reported as a version
    InitialRows, InitialFirmware,   \* bound: what the tables hold at first
    Told,           \* bound: the versions that check-ins report
    Moments,        \* bound: the readings of the server's clock that are looked at
    MaxPolls,       \* bound: polls under way at a time
    MaxEvents       \* bound: changes to the tables, the passing of time included,
                    \* and polls that end in an error

(* What a row says a unit runs: what it parses to, for any string but the  *)
(* empty one.                                                              *)
Reports == Versions \cup {NoVersion, Blank}

DeviceRows == [version : Reports, seen : Moments \cup {Never}, enabled : BOOLEAN]

ASSUME DevicePageAssumption ==
    /\ Owners = {Owner}
    /\ IsFiniteSet(Devices)
    /\ DeviceModel \in [Devices -> Models]
    /\ Interval \in [Devices -> Nat]
    /\ Versions \subseteq ParsedVersions
    /\ 0 \in Moments /\ Moments \subseteq Nat
    /\ NoVersion \notin Versions \cup {Blank} /\ Blank \notin Versions
    /\ Unread # Torn /\ Unread \notin Nat /\ Torn \notin Nat
    /\ Told \subseteq Versions \cup {Blank}
    /\ InitialRows \subseteq [Devices -> DeviceRows \cup {NoRow}]
    /\ InitialFirmware \subseteq Seq(Rows)
    /\ MaxPolls \in Nat /\ MaxEvents \in Nat

VARIABLES
    row,            \* the devices table
    clock,
    changes,        \* how often any of these has changed
    polls,          \* what has been answered of each poll under way
    shown,          \* what the page shows
    error,          \* whether it shows an error above it
    losses          \* how many polls have ended in one

tables == <<firmware, row, clock, changes>>
page == <<shown, error, losses>>
vars == <<tables, polls, page>>

Registered == {d \in Devices : row[d] # NoRow}

(* A poll.  "listed" is what the statistics have read of the devices, "at" *)
(* how many changes its reads have seen, if they have all seen as many.    *)
NewPoll == [devices |-> Unread, firmware |-> Unread, listed |-> Unread, stats |-> Unread, at |-> Unread]

-----------------------------------------------------------------------------
(* domain/fleet.py *)
MissedCheckinsBeforeOffline == 3
MinOfflineSeconds == 15

IsOnline(seen, interval, now) ==
    IF seen = Never \/ interval = 0 THEN "unknown"
    ELSE IF /\ now - seen >= interval * MissedCheckinsBeforeOffline
            /\ now - seen >= MinOfflineSeconds
    THEN "offline" ELSE "online"

\* parse_version and parseVersion of the empty string find no segment.
Reading(version) == IF version = Blank THEN <<>> ELSE version

IsBehind(current, latest) ==
    current # NoVersion /\ latest # NoVersion /\ IsVersionNewer(latest, Reading(current))

Reaching(rows, state) ==
    Cardinality({d \in DOMAIN rows : IsOnline(rows[d].seen, Interval[d], clock) = state})

LatestVersion(model) ==
    IF Latest(Owner, model) = {} THEN NoVersion
    ELSE firmware[CHOOSE i \in Latest(Owner, model) : TRUE].version

Summarize(rows) ==
    [online |-> Reaching(rows, "online"), offline |-> Reaching(rows, "offline"),
     unknown |-> Reaching(rows, "unknown"),
     behind |-> Cardinality({d \in DOMAIN rows : IsBehind(rows[d].version, LatestVersion(DeviceModel[d]))})]

(* GET /api/devices: each with its dot as of now.                          *)
Listing ==
    [d \in Registered |->
        [version |-> row[d].version, enabled |-> row[d].enabled,
         online |-> IsOnline(row[d].seen, Interval[d], clock)]]

-----------------------------------------------------------------------------
(* What the page shows changes under it, Register and SetEnabled by its    *)
(* own buttons or another tab's.                                           *)
Change == changes + losses < MaxEvents /\ changes' = changes + 1

CheckIn(d, v) ==
    /\ row[d] # NoRow
    /\ row[d].enabled
    /\ row' = [row EXCEPT ![d].version = v, ![d].seen = clock]
    /\ UNCHANGED <<firmware, clock>>

Tick(moment) ==
    /\ moment > clock
    /\ clock' = moment
    /\ UNCHANGED <<firmware, row>>

Register(d) ==
    /\ row[d] = NoRow
    /\ row' = [row EXCEPT ![d] = [version |-> NoVersion, seen |-> Never, enabled |-> TRUE]]
    /\ UNCHANGED <<firmware, clock>>

SetEnabled(d, enabled) ==
    /\ row[d] # NoRow
    /\ row' = [row EXCEPT ![d].enabled = enabled]
    /\ UNCHANGED <<firmware, clock>>

TablesChange ==
    /\ Change
    /\ \/ \E d \in Devices, v \in Told : CheckIn(d, v)
       \/ \E moment \in Moments : Tick(moment)
       \/ \E d \in Devices : Register(d)
       \/ \E d \in Devices, enabled \in BOOLEAN : SetEnabled(d, enabled)
       \/ CatalogueNext /\ UNCHANGED <<row, clock>>
    /\ <<firmware, row, clock>>' # <<firmware, row, clock>>
    /\ UNCHANGED <<polls, page>>

-----------------------------------------------------------------------------
(* fetchData, when the page opens, by the interval's timer, or by the      *)
(* refreshKey that a button bumps when its request has been answered.      *)
Fetch ==
    /\ Len(polls) < MaxPolls
    /\ polls' = Append(polls, NewPoll)
    /\ UNCHANGED <<tables, page>>

Fill(i, field, value) ==
    LET at == IF polls[i].at \in {Unread, changes} THEN changes ELSE Torn
    IN  polls' = [polls EXCEPT ![i] = [@ EXCEPT ![field] = value, !.at = at]]

AnswerDevices(i) ==
    /\ polls[i].devices = Unread
    /\ Fill(i, "devices", Listing)

AnswerFirmware(i) ==
    /\ polls[i].firmware = Unread
    /\ Fill(i, "firmware", firmware)

(* DeviceStats.execute: the devices first, their latest versions and the   *)
(* clock after.                                                            *)
ListForStats(i) ==
    /\ polls[i].listed = Unread
    /\ Fill(i, "listed", [d \in Registered |-> row[d]])

AnswerStats(i) ==
    /\ polls[i].listed # Unread
    /\ polls[i].stats = Unread
    /\ Fill(i, "stats", Summarize(polls[i].listed))

Answer(i) ==
    /\ AnswerDevices(i) \/ AnswerFirmware(i) \/ ListForStats(i) \/ AnswerStats(i)
    /\ UNCHANGED <<tables, page>>

(* Promise.all: all three together, or an error and the page as it was.    *)
\* mutant: the first answer is enough
AnyAnswered(p) == p.devices # Unread \/ p.firmware # Unread \/ p.stats # Unread

AllAnswered(p) == p.devices # Unread /\ p.firmware # Unread /\ p.stats # Unread

\* mutant: an error that has passed stays
DeliverKeepingError(i) ==
    /\ AllAnswered(polls[i])
    /\ shown' = [polls[i] EXCEPT !.listed = Unread]
    /\ polls' = RemoveAt(polls, i)
    /\ UNCHANGED <<tables, error, losses>>

Deliver(i) ==
    /\ AllAnswered(polls[i])
    /\ shown' = [polls[i] EXCEPT !.listed = Unread]
    /\ error' = FALSE
    /\ polls' = RemoveAt(polls, i)
    /\ UNCHANGED <<tables, losses>>

Lose(i) ==
    /\ changes + losses < MaxEvents
    /\ losses' = losses + 1
    /\ error' = TRUE
    /\ polls' = RemoveAt(polls, i)
    /\ UNCHANGED <<tables, shown>>

-----------------------------------------------------------------------------
(* What the page works out by itself.                                      *)
\* mutant: withdrawn versions are candidates too
LatestOfAll(items, model) ==
    LET Keep(best, i) ==
            IF /\ items[i].model = model
               /\ best = 0 \/ IsVersionNewer(items[i].version, items[best].version)
            THEN i ELSE best
    IN  FoldLeft(Keep, 0, Reverse([i \in DOMAIN items |-> i]))

(* pickLatestActive: goes through the list, newest row first, and keeps    *)
(* the best so far.                                                        *)
PickLatestActive(items, model) ==
    LET Better(i, best) ==
            \/ best = 0
            \/ IsVersionNewer(items[i].version, items[best].version)
            \/ items[i].version = items[best].version /\ i > best
        \* the best of the first n of the list
        pick[n \in 0 .. Len(items)] ==
            IF n = 0 THEN 0
            ELSE LET i == Len(items) - n + 1 IN
                 IF items[i].model = model /\ items[i].active /\ Better(i, pick[n - 1])
                 THEN i ELSE pick[n - 1]
    IN  pick[Len(items)]

\* Some version is active, and newer than what the unit reports.
Trails(p, d) ==
    LET best == PickLatestActive(p.firmware, DeviceModel[d]) IN
    best # 0 /\ IsVersionNewer(p.firmware[best].version, Reading(p.devices[d].version))

(* The units that the banner names: current_version is tested for being    *)
(* truthy, so neither null nor the empty string is compared.               *)
Outdated(p) == {d \in DOMAIN p.devices : p.devices[d].version \notin {NoVersion, Blank} /\ Trails(p, d)}

Dots(p, state) == {d \in DOMAIN p.devices : p.devices[d].online = state}

-----------------------------------------------------------------------------
Init ==
    /\ firmware \in InitialFirmware
    /\ row \in InitialRows
    /\ clock = 0
    /\ changes = 0
    /\ polls = <<>>
    /\ shown = Unread
    /\ error = FALSE
    /\ losses = 0

Answers == \E i \in DOMAIN polls : Answer(i)
Delivers == \E i \in DOMAIN polls : Deliver(i)
Loses == \E i \in DOMAIN polls : Lose(i)

Next ==
    \/ TablesChange
    \/ Fetch \/ Answers \/ Delivers \/ Loses

(* The timer goes on firing, and the server and the network go on          *)
(* answering.                                                              *)
Spec == Init /\ [][Next]_vars /\ WF_vars(Fetch) /\ WF_vars(Answers) /\ WF_vars(Delivers)

-----------------------------------------------------------------------------
Stats == [online : Nat, offline : Nat, unknown : Nat, behind : Nat]
Shown == [version : Reports, enabled : BOOLEAN, online : {"online", "offline", "unknown"}]
Listings == UNION {[D -> Shown] : D \in SUBSET Devices}
DeviceTables == UNION {[D -> DeviceRows] : D \in SUBSET Devices}
Polls == [devices : Listings \cup {Unread},
          firmware : Seq(Rows) \cup {Unread},
          listed : DeviceTables \cup {Unread},
          stats : Stats \cup {Unread},
          at : Nat \cup {Unread, Torn}]

(* The variables have their types, and the page shows an answered poll.    *)
TypeOK ==
    /\ firmware \in Seq(Rows)
    /\ row \in [Devices -> DeviceRows \cup {NoRow}]
    /\ clock \in Moments
    /\ {changes, losses} \subseteq 0 .. MaxEvents
    /\ polls \in Seq(Polls) /\ Len(polls) <= MaxPolls
    /\ \A i \in DOMAIN polls :
          /\ polls[i].stats # Unread => polls[i].listed # Unread
          /\ polls[i].at \in 0 .. changes \cup {Unread, Torn}
    /\ shown # Unread => shown \in Polls /\ Unread \notin {shown.devices, shown.firmware, shown.stats}
    /\ error \in BOOLEAN

\* Counted as behind by the server, for which the empty string is a version.
Unnamed(p) == {d \in DOMAIN p.devices : p.devices[d].version = Blank /\ Trails(p, d)}

CardsMatch(p) ==
    /\ p.stats.behind = Cardinality(Outdated(p)) + Cardinality(Unnamed(p))
    /\ \A state \in {"online", "offline", "unknown"} :
          p.stats[state] = Cardinality(Dots(p, state))

(* fleet.py, is_behind, "so the dashboard never reports a number the fleet *)
(* disagrees with": when nothing changed between the reads of a poll, the  *)
(* units that the banner names, worked out by the page from two of the     *)
(* answers, are as many as the server counts in the third, but for those   *)
(* behind that report the empty string, which only the card counts; and    *)
(* there are as many dots of each colour as the cards say.                 *)
CardsMatchRows == shown # Unread /\ shown.at # Torn => CardsMatch(shown)

(* DeviceList's fetchData: polls are neither cancelled nor numbered, and   *)
(* an older answer may replace a newer one or put an error above it; but   *)
(* once nothing changes any more the page comes to show what there is, and *)
(* goes on showing it.                                                     *)
Current ==
    /\ shown # Unread /\ ~error
    /\ shown.devices = Listing
    /\ shown.firmware = firmware
    /\ shown.stats = Summarize([d \in Registered |-> row[d]])

PageCatchesUp == <>[]Current
=============================================================================
