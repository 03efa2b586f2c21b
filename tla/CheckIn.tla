------------------------------ MODULE CheckIn ------------------------------
(***************************************************************************)
(* POST /api/check and GET /api/download as the server runs them: several  *)
(* threads at once, each a sequence of queries and commits on the tables   *)
(* of devices, events and firmware, any of which may be its last.          *)
(*                                                                         *)
(* A unit may have more than one check-in under way: it stops waiting for  *)
(* an answer that is late and asks again, or comes back from a reboot.  A  *)
(* download needs no check-in: whoever holds a link may follow it, at any  *)
(* time, and say that it is any unit.                                      *)
(***************************************************************************)
EXTENDS Catalogue, FiniteSets

CONSTANTS
    Requests,       \* threads of the server
    Devices,
    Calls,          \* the check-ins that are made: device, version, model,
                    \* and whether the secret is the device's
    Registrations,  \* bound: the registrations that may be made: device, owner, model
    NoRow, NoVersion, NoCall,
    MaxLog          \* bound: no check-in is sent for a device, and no link
                    \* followed, once its log is this long

DeviceRows == [owner : Owners, model : Models, enabled : BOOLEAN, version : Versions \cup {NoVersion}]
Events == [type : {"check", "download", "success", "rollback"},
           from : Versions \cup {NoVersion}, to : Versions]

ASSUME CheckInAssumption ==
    /\ IsFiniteSet(Requests)
    /\ Versions \subseteq ParsedVersions
    /\ Calls \subseteq [device : Devices, version : Versions, model : Models, genuine : BOOLEAN]
    /\ Registrations \subseteq [device : Devices, owner : Owners, model : Models]
    /\ NoCall \notin Calls
    /\ NoRow \notin DeviceRows
    /\ NoVersion \notin Versions
    /\ MaxLog \in [Devices -> Nat]

VARIABLES
    row,            \* the devices table
    events,         \* the rows of device_events that name a device, by id
    pc, call,       \* where a request is and what it was sent
    previous,       \* device.current_version as execute first read it
    loaded,         \* the same as record_checkin read it, until it returns
    offer,          \* the id of the firmware row being offered
    links,          \* the ids of the rows whose links have been handed out
    first,          \* history: the first version a device was recorded on
    muddled         \* history: devices whose check-ins overlapped, or of which
                    \* one broke off before logging the change it recorded

tables == <<firmware, row, events, links>>
locals == <<call, previous, loaded, offer>>
history == <<first, muddled>>
vars == <<tables, pc, locals, history>>

UnderWay == {"sent", "record", "flush", "transition", "lookup", "news", "log offer"}

Of(r) == call[r].device

-----------------------------------------------------------------------------
(* classify_version_change *)
Transition(before, after) ==
    CASE before = NoVersion -> "none"
      [] before # NoVersion /\ IsVersionNewer(after, before) -> "success"
      [] before # NoVersion /\ IsVersionNewer(before, after) -> "rollback"
      [] OTHER -> "none"

Log(d, type, from, to) ==
    events' = [events EXCEPT ![d] = Append(@, [type |-> type, from |-> from, to |-> to])]

Goto(r, place) == pc' = [pc EXCEPT ![r] = place]

(* The request has been answered, or the client has what it came for.      *)
Ends(r) ==
    /\ Goto(r, "idle")
    /\ call' = [call EXCEPT ![r] = NoCall]
    /\ previous' = [previous EXCEPT ![r] = NoVersion]
    /\ loaded' = [loaded EXCEPT ![r] = NoVersion]
    /\ offer' = [offer EXCEPT ![r] = 0]

Send(r, c) ==
    /\ pc[r] = "idle"
    /\ Len(events[c.device]) < MaxLog[c.device]
    /\ call' = [call EXCEPT ![r] = c]
    /\ Goto(r, "sent")
    /\ muddled' = IF \E q \in Requests : pc[q] \in UnderWay /\ Of(q) = c.device
                  THEN muddled \cup {c.device} ELSE muddled
    /\ UNCHANGED <<tables, previous, loaded, offer, first>>

(* Who is asking, before anything is written: one answer for no such       *)
(* device, a wrong secret and a disabled unit, another for a model that is *)
(* not the registered one.                                                 *)
Admitted(c) ==
    /\ row[c.device] # NoRow
    /\ row[c.device].enabled
    /\ c.genuine
    /\ c.model = row[c.device].model

TurnAway(r) ==
    /\ pc[r] = "sent"
    /\ ~Admitted(call[r])
    /\ Ends(r)
    /\ UNCHANGED <<tables, history>>

Admit(r) ==
    /\ pc[r] = "sent"
    /\ Admitted(call[r])
    /\ previous' = [previous EXCEPT ![r] = row[Of(r)].version]
    /\ Goto(r, "record")
    /\ UNCHANGED <<tables, call, loaded, offer, history>>

-----------------------------------------------------------------------------
(* record_checkin reads the row again, and its commit writes the columns   *)
(* whose value differs from what was read.                                 *)
Load(r) ==
    /\ pc[r] = "record"
    /\ loaded' = [loaded EXCEPT ![r] = row[Of(r)].version]
    /\ Goto(r, "flush")
    /\ UNCHANGED <<tables, call, previous, offer, history>>

\* mutant: a check-in is a transition
AfterRecordingAlways(r) == "transition"

AfterRecording(r) == IF Transition(previous[r], call[r].version) = "none" THEN "lookup" ELSE "transition"

Recorded(r, d) == IF call[r].version # loaded[r] THEN call[r].version ELSE row[d].version

(* Mutant: the transition is read off the row that was just written.       *)
FlushThenClassify(r) ==
    /\ pc[r] = "flush"
    /\ row' = [row EXCEPT ![Of(r)].version = Recorded(r, Of(r))]
    /\ first' = [first EXCEPT ![Of(r)] = IF @ = NoVersion THEN Recorded(r, Of(r)) ELSE @]
    /\ Goto(r, IF Transition(Recorded(r, Of(r)), call[r].version) = "none" THEN "lookup" ELSE "transition")
    /\ loaded' = [loaded EXCEPT ![r] = NoVersion]
    /\ UNCHANGED <<firmware, events, links, call, previous, offer, muddled>>

Flush(r) ==
    /\ pc[r] = "flush"
    /\ row' = [row EXCEPT ![Of(r)].version = Recorded(r, Of(r))]
    /\ first' = [first EXCEPT ![Of(r)] = IF @ = NoVersion THEN Recorded(r, Of(r)) ELSE @]
    /\ Goto(r, AfterRecording(r))
    /\ loaded' = [loaded EXCEPT ![r] = NoVersion]
    /\ UNCHANGED <<firmware, events, links, call, previous, offer, muddled>>

LogTransition(r) ==
    /\ pc[r] = "transition"
    /\ Log(Of(r), Transition(previous[r], call[r].version), previous[r], call[r].version)
    /\ Goto(r, "lookup")
    /\ UNCHANGED <<firmware, row, links, locals, history>>

-----------------------------------------------------------------------------
(* Strictly newer, or there is nothing to offer (204-like, or 403).        *)
Candidates(r) ==
    {i \in Latest(row[Of(r)].owner, row[Of(r)].model) : IsVersionNewer(firmware[i].version, call[r].version)}

NothingToOffer(r) ==
    /\ pc[r] = "lookup"
    /\ Candidates(r) = {}
    /\ Ends(r)
    /\ UNCHANGED <<tables, history>>

Lookup(r) ==
    /\ pc[r] = "lookup"
    /\ \E i \in Candidates(r) : offer' = [offer EXCEPT ![r] = i]
    /\ Goto(r, "news")
    /\ UNCHANGED <<tables, call, previous, loaded, history>>

(* _offer_is_news: the same offer stands until the device acts on it, so   *)
(* only a log that does not already end with it gets it again.             *)
\* mutant: whichever version was offered
LogEndsWithAnOffer(r) ==
    LET log == events[Of(r)] IN
    log # <<>> /\ log[Len(log)].type = "check" /\ log[Len(log)].from = call[r].version

LogEndsWithOffer(r) ==
    LET log == events[Of(r)] IN
    log # <<>> /\ log[Len(log)] = [type |-> "check", from |-> call[r].version,
                                  to |-> firmware[offer[r]].version]

\* mutant: nothing is asked of the log
NewsAlways(r) ==
    /\ pc[r] = "news"
    /\ Goto(r, "log offer")
    /\ UNCHANGED <<tables, locals, history>>

News(r) ==
    /\ pc[r] = "news"
    /\ Goto(r, IF LogEndsWithOffer(r) THEN "offered" ELSE "log offer")
    /\ UNCHANGED <<tables, locals, history>>

LogOffer(r) ==
    /\ pc[r] = "log offer"
    /\ Log(Of(r), "check", call[r].version, firmware[offer[r]].version)
    /\ Goto(r, "offered")
    /\ UNCHANGED <<firmware, row, links, locals, history>>

(* The answer, with the row's link in it, gets out, or it is lost.         *)
Answer(r) ==
    /\ pc[r] = "offered"
    /\ links' = links \cup {offer[r]}
    /\ Ends(r)
    /\ UNCHANGED <<firmware, row, events, history>>

Leave(r) ==
    /\ pc[r] = "offered"
    /\ Ends(r)
    /\ UNCHANGED <<tables, history>>

(* A commit fails, or the server stops: what is committed stays.           *)
Fail(r) ==
    /\ pc[r] \in UnderWay
    /\ muddled' = IF pc[r] = "transition" THEN muddled \cup {Of(r)} ELSE muddled
    /\ Ends(r)
    /\ UNCHANGED <<tables, first>>

Serve(r) ==
    \/ \E c \in Calls : Send(r, c)
    \/ TurnAway(r) \/ Admit(r) \/ Load(r) \/ Flush(r) \/ LogTransition(r)
    \/ NothingToOffer(r) \/ Lookup(r) \/ News(r) \/ LogOffer(r)
    \/ Answer(r) \/ Leave(r) \/ Fail(r)

-----------------------------------------------------------------------------
(* GET /api/download: the link is looked at alone, and neither whether its *)
(* row has been withdrawn since, nor who asks.  The event goes into the    *)
(* log of the unit that the query names, registered or not.                *)
Download(i, d) ==
    /\ Len(events[d]) < MaxLog[d]
    /\ Log(d, "download", NoVersion, firmware[i].version)
    /\ UNCHANGED <<firmware, row, links, pc, locals, history>>

Downloads == \E i \in links, d \in Devices : Download(i, d)

-----------------------------------------------------------------------------
(* The dashboard's side: registration, the switch, the catalogue.          *)
Register(new) ==
    /\ row[new.device] = NoRow
    /\ row' = [row EXCEPT ![new.device] = [owner |-> new.owner, model |-> new.model,
                                           enabled |-> TRUE, version |-> NoVersion]]
    /\ UNCHANGED <<firmware, events, links, pc, locals, history>>

SetEnabled(d, owner, enabled) ==
    /\ row[d] # NoRow
    /\ row[d].owner = owner
    /\ row' = [row EXCEPT ![d].enabled = enabled]
    /\ UNCHANGED <<firmware, events, links, pc, locals, history>>

Dashboard ==
    \/ \E new \in Registrations : Register(new)
    \/ \E d \in Devices, owner \in Owners, enabled \in BOOLEAN : SetEnabled(d, owner, enabled)
    \/ CatalogueNext /\ UNCHANGED <<row, events, links, pc, locals, history>>

Init ==
    /\ CatalogueInit
    /\ row = [d \in Devices |-> NoRow]
    /\ events = [d \in Devices |-> <<>>]
    /\ pc = [r \in Requests |-> "idle"]
    /\ call = [r \in Requests |-> NoCall]
    /\ previous = [r \in Requests |-> NoVersion]
    /\ loaded = [r \in Requests |-> NoVersion]
    /\ offer = [r \in Requests |-> 0]
    /\ links = {}
    /\ first = [d \in Devices |-> NoVersion]
    /\ muddled = {}

Next == (\E r \in Requests : Serve(r)) \/ Downloads \/ Dashboard

Spec == Init /\ [][Next]_vars

-----------------------------------------------------------------------------
TypeOK ==
    /\ firmware \in Seq(Rows)
    /\ row \in [Devices -> DeviceRows \cup {NoRow}]
    /\ events \in [Devices -> Seq(Events)]
    /\ pc \in [Requests -> UnderWay \cup {"idle", "offered"}]
    /\ call \in [Requests -> Calls \cup {NoCall}]
    /\ previous \in [Requests -> Versions \cup {NoVersion}]
    /\ loaded \in [Requests -> Versions \cup {NoVersion}]
    /\ offer \in [Requests -> Nat]
    /\ links \subseteq DOMAIN firmware
    /\ first \in [Devices -> Versions \cup {NoVersion}]
    /\ muddled \subseteq Devices

(* What a unit is handed is its own account's, for its own model, and      *)
(* newer than what it said it runs: even when the catalogue has changed    *)
(* under the request, no offer crosses accounts or goes back.              *)
OfferFits ==
    \A r \in Requests :
        pc[r] \in {"news", "log offer", "offered"} =>
            /\ offer[r] \in DOMAIN firmware
            /\ firmware[offer[r]].owner = row[Of(r)].owner
            /\ firmware[offer[r]].model = row[Of(r)].model
            /\ IsVersionNewer(firmware[offer[r]].version, call[r].version)

(* A unit that cannot act on its offer does not fill the log: the same     *)
(* offer stands in a row at most once for every request the server handles *)
(* at a time, since only requests that read the log before it was first    *)
(* there can add it again.                                                 *)
RepeatsBounded ==
    \A d \in Devices : \A i \in 1 .. Len(events[d]) - Cardinality(Requests) :
        events[d][i].type = "check" =>
            \E j \in i + 1 .. i + Cardinality(Requests) : events[d][j] # events[d][i]

(* The log, which is all that remains, accounts for the links.  One that   *)
(* is out was offered, on record, to a unit of the account and the model   *)
(* it was published for, although an offer that is repeated is left out of *)
(* the log; and whoever downloads, naming whichever unit, downloads what   *)
(* some unit was offered.                                                  *)
OnRecord(i) ==
    \E d \in Devices : \E j \in DOMAIN events[d] :
        /\ row[d] # NoRow /\ row[d].owner = firmware[i].owner /\ row[d].model = firmware[i].model
        /\ events[d][j].type = "check" /\ events[d][j].to = firmware[i].version

DownloadsWereOffered ==
    /\ \A i \in links : OnRecord(i)
    /\ \A d \in Devices : \A j \in DOMAIN events[d] :
          events[d][j].type = "download" => \E i \in links : events[d][j].to = firmware[i].version

(* The version a unit's history has brought it to.                         *)
Moves(d) == {i \in DOMAIN events[d] : events[d][i].type \in {"success", "rollback"}}

Reached(d) ==
    IF Moves(d) = {} THEN first[d]
    ELSE events[d][CHOOSE i \in Moves(d) : \A j \in Moves(d) : j <= i].to

Quiet(d) == \A r \in Requests : pc[r] \in UnderWay => Of(r) # d

(* The history of a unit explains what the devices table says of it, as    *)
(* long as its check-ins came one at a time and none broke off between its *)
(* two commits.                                                            *)
HistoryExplainsRow ==
    \A d \in Devices \ muddled : Quiet(d) /\ row[d] # NoRow => Reached(d) = row[d].version
=============================================================================
