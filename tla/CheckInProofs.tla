---------------------------- MODULE CheckInProofs ----------------------------
(***************************************************************************)
(* The safety of check-ins, for any number of requests at once, of units,  *)
(* accounts, versions and published rows.  What carries it is what does    *)
(* not change: a row of the firmware table keeps its account, its model    *)
(* and its version, a registered unit keeps its account and its model, and *)
(* the log only grows.                                                     *)
(***************************************************************************)
EXTENDS CheckIn, VersionOrderProofs, SequenceTheorems, FiniteSetTheorems

PastAdmission == {"record", "flush", "transition", "lookup", "news", "log offer", "offered"}
Offering == {"news", "log offer", "offered"}

(* A request that is not idle is somebody's; one that was admitted is a    *)
(* registered unit's, and a unit that is not registered has not moved,     *)
(* though its log may hold the downloads that strangers made in its name.  *)
CallsKnown == \A r \in Requests : pc[r] # "idle" => call[r] \in Calls

RowsHeld ==
    /\ \A r \in Requests : pc[r] \in PastAdmission => row[Of(r)] # NoRow
    /\ \A d \in Devices : row[d] = NoRow => first[d] = NoVersion /\ Moves(d) = {}

Moving ==
    \A r \in Requests : pc[r] = "transition" => Transition(previous[r], call[r].version) # "none"

(* Once a version has been recorded of a unit, there is one for good.      *)
Recording ==
    \A r \in Requests :
        /\ pc[r] = "flush" /\ loaded[r] # NoVersion => row[Of(r)].version # NoVersion
        /\ pc[r] = "transition" => first[Of(r)] # NoVersion

(* A link is not handed out before its offer is in the log.                *)
OfferLogged ==
    \A r \in Requests :
        pc[r] = "offered" =>
            \E j \in DOMAIN events[Of(r)] :
                /\ events[Of(r)][j].type = "check"
                /\ events[Of(r)][j].to = firmware[offer[r]].version

-----------------------------------------------------------------------------
(* The row that a request is about to log, and those about to log this.    *)
OfferOf(r) == [type |-> "check", from |-> call[r].version, to |-> firmware[offer[r]].version]

Newest(d) == events[d][Len(events[d])]

Pending(d, e) == {r \in Requests : pc[r] = "log offer" /\ Of(r) = d /\ OfferOf(r) = e}

EndsAlike(log, k) == \A j \in Len(log) - k + 1 .. Len(log) : log[j] = log[Len(log)]

(* Where the log ends in some repetitions of an offer, the repetitions and *)
(* the requests that may add another are no more than all requests.        *)
TailWithin(d, k) ==
    Newest(d).type = "check" /\ EndsAlike(events[d], k) =>
        k + Cardinality(Pending(d, Newest(d))) <= Cardinality(Requests)

TailBounded == \A d \in Devices : \A k \in 1 .. Len(events[d]) : TailWithin(d, k)

-----------------------------------------------------------------------------
(* While the check-ins of a unit come one at a time, the only one under    *)
(* way knows the row as it is, and the log explains the row but for the    *)
(* transition that this one is about to log.                               *)
Alone(d) ==
    \A q, r \in Requests :
        pc[q] \in UnderWay /\ pc[r] \in UnderWay /\ Of(q) = d /\ Of(r) = d => q = r

UpToDate(d) ==
    \A r \in Requests :
        pc[r] # "idle" /\ Of(r) = d =>
            /\ pc[r] \in {"record", "flush"} => previous[r] = row[d].version
            /\ pc[r] = "flush" => loaded[r] = row[d].version
            /\ pc[r] = "transition" => call[r].version = row[d].version

Logged(d) == \A r \in Requests : pc[r] = "transition" => Of(r) # d

(* A log that moved the unit has a last move, made after the first version *)
(* was recorded.                                                           *)
LastMove(d) ==
    Moves(d) # {} => first[d] # NoVersion /\ \E i \in Moves(d) : \A j \in Moves(d) : j <= i

Explicable ==
    /\ \A d \in Devices : LastMove(d)
    /\ \A d \in Devices \ muddled :
          /\ Alone(d)
          /\ UpToDate(d)
          /\ row[d] # NoRow /\ Logged(d) => Reached(d) = row[d].version

IInv ==
    /\ TypeOK /\ CallsKnown /\ RowsHeld /\ Moving /\ Recording
    /\ OfferFits
    /\ OfferLogged /\ DownloadsWereOffered
    /\ TailBounded /\ RepeatsBounded
    /\ Explicable
-----------------------------------------------------------------------------
(* The steps of a request, spelled out.                                    *)
LEMMA Steps ==
    ASSUME NEW r \in Requests, Serve(r)
    PROVE  \/ \E c \in Calls : Send(r, c)
           \/ TurnAway(r) \/ Admit(r) \/ Load(r) \/ Flush(r) \/ LogTransition(r)
           \/ NothingToOffer(r) \/ Lookup(r) \/ News(r) \/ LogOffer(r)
           \/ Answer(r) \/ Leave(r) \/ Fail(r)
BY DEF Serve

Same(q) ==
    /\ pc'[q] = pc[q]
    /\ call'[q] = call[q] /\ previous'[q] = previous[q]
    /\ loaded'[q] = loaded[q] /\ offer'[q] = offer[q]

(* A request is moved by its own steps only.                               *)
LEMMA Others ==
    ASSUME TypeOK, NEW q \in Requests, NEW r \in Requests, Serve(r), r # q
    PROVE  Same(q)
<1>1. /\ pc \in [Requests -> UnderWay \cup {"idle", "offered"}]
      /\ call \in [Requests -> Calls \cup {NoCall}]
      /\ previous \in [Requests -> Versions \cup {NoVersion}]
      /\ loaded \in [Requests -> Versions \cup {NoVersion}]
      /\ offer \in [Requests -> Nat]
  BY DEF TypeOK
<1> USE <1>1 DEF Same, locals
<1>2. ASSUME NEW c \in Calls, Send(r, c) PROVE Same(q)
  BY <1>2 DEF Send, Goto
<1>3. CASE Ends(r)
  BY <1>3 DEF Ends, Goto
<1>4. CASE Admit(r)
  BY <1>4 DEF Admit, Goto
<1>5. CASE Load(r)
  BY <1>5 DEF Load, Goto
<1>6. CASE Flush(r)
  BY <1>6 DEF Flush, Goto
<1>7. CASE LogTransition(r)
  BY <1>7 DEF LogTransition, Goto
<1>8. CASE Lookup(r)
  BY <1>8 DEF Lookup, Goto
<1>9. CASE News(r)
  BY <1>9 DEF News, Goto
<1>10. CASE LogOffer(r)
  BY <1>10 DEF LogOffer, Goto
<1> QED
  BY <1>2, <1>3, <1>4, <1>5, <1>6, <1>7, <1>8, <1>9, <1>10, Steps
  DEF TurnAway, NothingToOffer, Answer, Leave, Fail

LEMMA Local ==
    ASSUME TypeOK, [Next]_vars, NEW q \in Requests
    PROVE  Same(q) \/ Serve(q)
<1>1. ASSUME NEW r \in Requests, Serve(r), r # q PROVE Same(q)
  BY <1>1, Others
<1>2. CASE Dashboard
  BY <1>2 DEF Dashboard, Register, SetEnabled, locals, Same
<1>3. CASE Downloads
  BY <1>3 DEF Downloads, Download, locals, Same
<1>4. CASE UNCHANGED vars
  BY <1>4 DEF vars, locals, Same
<1> QED BY <1>1, <1>2, <1>3, <1>4 DEF Next

-----------------------------------------------------------------------------
(* The firmware table under a check-in's feet.                             *)
LEMMA CatalogueKeeps ==
    ASSUME firmware \in Seq(Rows), CatalogueNext
    PROVE  /\ firmware' \in Seq(Rows)
           /\ DOMAIN firmware \subseteq DOMAIN firmware'
           /\ \A i \in DOMAIN firmware :
                 /\ firmware'[i].owner = firmware[i].owner
                 /\ firmware'[i].model = firmware[i].model
                 /\ firmware'[i].version = firmware[i].version
<1>1. DOMAIN firmware = 1 .. Len(firmware) /\ Len(firmware) \in Nat
  BY LenProperties
<1>2. \A i \in DOMAIN firmware : firmware[i] \in Rows
  BY <1>1, ElementOfSeq
<1>3. ASSUME NEW r \in Releases, Publish(r)
      PROVE  /\ firmware' \in Seq(Rows)
             /\ DOMAIN firmware \subseteq DOMAIN firmware'
             /\ \A i \in DOMAIN firmware : firmware'[i] = firmware[i]
  <2>1. r \in Rows
    BY CatalogueAssumption
  <2>2. firmware' = Append(firmware, r)
    BY <1>3 DEF Publish
  <2>3. firmware' \in Seq(Rows) /\ Len(firmware') = Len(firmware) + 1
    BY <2>1, <2>2, AppendProperties
  <2>4. \A i \in 1 .. Len(firmware) : firmware'[i] = firmware[i]
    BY <2>1, <2>2, AppendProperties
  <2>5. DOMAIN firmware' = 1 .. Len(firmware) + 1
    BY <2>3, LenProperties
  <2> QED BY <1>1, <2>3, <2>4, <2>5
<1>4. ASSUME NEW owner \in Owners, NEW id \in DOMAIN firmware, Withdraw(owner, id)
      PROVE  /\ firmware' \in Seq(Rows)
             /\ DOMAIN firmware \subseteq DOMAIN firmware'
             /\ \A i \in DOMAIN firmware :
                   firmware'[i] = firmware[i] \/ firmware'[i] = [firmware[i] EXCEPT !.active = FALSE]
  <2>1. firmware' = [firmware EXCEPT ![id] = [firmware[id] EXCEPT !.active = FALSE]]
    BY <1>4 DEF Withdraw
  <2>2. [firmware[id] EXCEPT !.active = FALSE] \in Rows
    BY <1>2 DEF Rows
  <2>3. firmware' \in Seq(Rows)
    BY <1>1, <2>1, <2>2, ExceptSeq
  <2> QED BY <2>1, <2>3
<1> QED BY <1>2, <1>3, <1>4 DEF CatalogueNext, Rows

LEMMA FirmwareKeeps ==
    ASSUME TypeOK, [Next]_vars
    PROVE  /\ firmware' \in Seq(Rows)
           /\ DOMAIN firmware \subseteq DOMAIN firmware'
           /\ \A i \in DOMAIN firmware :
                 /\ firmware'[i].owner = firmware[i].owner
                 /\ firmware'[i].model = firmware[i].model
                 /\ firmware'[i].version = firmware[i].version
<1>1. firmware' = firmware \/ CatalogueNext
  <2>1. ASSUME NEW r \in Requests, Serve(r) PROVE firmware' = firmware
    BY <2>1, Steps DEF Send, TurnAway, Admit, Load, Flush, LogTransition, NothingToOffer,
       Lookup, News, LogOffer, Answer, Leave, Fail, tables
  <2>2. CASE Dashboard
    BY <2>2 DEF Dashboard, Register, SetEnabled
  <2>3. CASE Downloads
    BY <2>3 DEF Downloads, Download
  <2> QED BY <2>1, <2>2, <2>3 DEF Next, vars, tables
<1> QED BY <1>1, CatalogueKeeps DEF TypeOK

(* What a check-in writes into a unit's row, and what the owner does.      *)
LEMMA CallTyped ==
    ASSUME CallsKnown, NEW r \in Requests, pc[r] # "idle"
    PROVE  /\ call[r] \in Calls /\ Of(r) \in Devices
           /\ call[r].version \in Versions /\ call[r].version # NoVersion
BY CheckInAssumption DEF CallsKnown, Of

LEMMA FlushTyped ==
    ASSUME TypeOK, CallsKnown, RowsHeld, NEW r \in Requests, Flush(r)
    PROVE  /\ Of(r) \in Devices /\ row[Of(r)] \in DeviceRows
           /\ Recorded(r, Of(r)) \in Versions \cup {NoVersion}
           /\ row' = [row EXCEPT ![Of(r)] = [row[Of(r)] EXCEPT !.version = Recorded(r, Of(r))]]
           /\ [row[Of(r)] EXCEPT !.version = Recorded(r, Of(r))] \in DeviceRows
<1>1. pc[r] = "flush"
  BY DEF Flush
<1>2. Of(r) \in Devices /\ call[r].version \in Versions
  BY <1>1, CallTyped
<1>3. row[Of(r)] \in DeviceRows
  BY <1>1, <1>2 DEF TypeOK, RowsHeld, PastAdmission
<1>4. Recorded(r, Of(r)) \in Versions \cup {NoVersion}
  BY <1>2, <1>3 DEF Recorded, DeviceRows
<1>5. row' = [row EXCEPT ![Of(r)] = [row[Of(r)] EXCEPT !.version = Recorded(r, Of(r))]]
  BY DEF Flush
<1> QED BY <1>2, <1>3, <1>4, <1>5 DEF DeviceRows

LEMMA SwitchTyped ==
    ASSUME TypeOK, NEW d \in Devices, NEW owner \in Owners, NEW enabled \in BOOLEAN,
           SetEnabled(d, owner, enabled)
    PROVE  /\ row[d] \in DeviceRows
           /\ row' = [row EXCEPT ![d] = [row[d] EXCEPT !.enabled = enabled]]
           /\ [row[d] EXCEPT !.enabled = enabled] \in DeviceRows
<1>1. row[d] \in DeviceRows
  BY DEF TypeOK, SetEnabled
<1> QED BY <1>1 DEF SetEnabled, DeviceRows

(* A registered unit keeps its account and its model; its version changes  *)
(* by a flush alone.                                                       *)
LEMMA RowKeeps ==
    ASSUME TypeOK, CallsKnown, RowsHeld, [Next]_vars, NEW d \in Devices, row[d] # NoRow
    PROVE  /\ row'[d] # NoRow
           /\ row'[d].owner = row[d].owner /\ row'[d].model = row[d].model
           /\ \/ row'[d].version = row[d].version
              \/ \E r \in Requests : Flush(r) /\ Of(r) = d
<1>1. row[d] \in DeviceRows /\ NoRow \notin DeviceRows
  BY CheckInAssumption DEF TypeOK
<1>2. ASSUME NEW r \in Requests, Serve(r) PROVE row' = row \/ Flush(r)
  BY <1>2, Steps DEF Send, TurnAway, Admit, Load, LogTransition, NothingToOffer,
     Lookup, News, LogOffer, Answer, Leave, Fail, tables
<1>3. ASSUME NEW r \in Requests, Flush(r)
      PROVE  /\ row'[d] # NoRow
             /\ row'[d].owner = row[d].owner /\ row'[d].model = row[d].model
             /\ Of(r) # d => row'[d] = row[d]
  <2>1. row'[d] = IF Of(r) = d THEN [row[d] EXCEPT !.version = Recorded(r, d)] ELSE row[d]
    <3>1. row' = [row EXCEPT ![Of(r)] = [row[Of(r)] EXCEPT !.version = Recorded(r, Of(r))]]
      BY <1>3, FlushTyped
    <3> QED BY <3>1 DEF TypeOK
  <2>2. Of(r) = d => row'[d] \in DeviceRows
    BY <1>3, <2>1, FlushTyped
  <2>3. Of(r) = d => row'[d].owner = row[d].owner /\ row'[d].model = row[d].model
    BY <1>1, <2>1 DEF DeviceRows
  <2> QED BY <1>1, <2>1, <2>2, <2>3
<1>4. ASSUME NEW new \in Registrations, Register(new) PROVE row'[d] = row[d]
  BY <1>4 DEF Register, TypeOK
<1>5. ASSUME NEW c \in Devices, NEW owner \in Owners, NEW enabled \in BOOLEAN,
             SetEnabled(c, owner, enabled)
      PROVE  /\ row'[d] # NoRow
             /\ row'[d].owner = row[d].owner /\ row'[d].model = row[d].model
             /\ row'[d].version = row[d].version
  <2>1. row'[d] = IF c = d THEN [row[c] EXCEPT !.enabled = enabled] ELSE row[d]
    <3> DEFINE new == [row[c] EXCEPT !.enabled = enabled]
    <3>1. row' = [row EXCEPT ![c] = new]
      BY <1>5 DEF SetEnabled
    <3>2. row \in [Devices -> DeviceRows \cup {NoRow}]
      BY DEF TypeOK
    <3> HIDE DEF new
    <3>3. row'[d] = IF c = d THEN new ELSE row[d]
      BY <3>1, <3>2
    <3> QED BY <3>3 DEF new
  <2>2. c = d => row'[d] \in DeviceRows
    BY <1>5, <2>1, SwitchTyped
  <2>3. c = d => /\ row'[d].owner = row[d].owner /\ row'[d].model = row[d].model
                 /\ row'[d].version = row[d].version
    BY <1>1, <2>1 DEF DeviceRows
  <2> QED BY <1>1, <2>1, <2>2, <2>3
<1>6. CASE row' = row
  BY <1>6
<1>7. Downloads => row' = row
  BY DEF Downloads, Download
<1> QED BY <1>2, <1>3, <1>4, <1>5, <1>6, <1>7 DEF Next, Dashboard, vars, tables

(* The log of a unit grows at its end, by the requests that the unit made. *)
LEMMA LogGrows ==
    ASSUME TypeOK, NEW d \in Devices, NEW type, NEW from, NEW to, Log(d, type, from, to),
           [type |-> type, from |-> from, to |-> to] \in Events
    PROVE  /\ events' \in [Devices -> Seq(Events)]
           /\ \A c \in Devices \ {d} : events'[c] = events[c]
           /\ Len(events[d]) \in Nat /\ Len(events'[d]) = Len(events[d]) + 1
           /\ DOMAIN events[d] = 1 .. Len(events[d])
           /\ DOMAIN events'[d] = 1 .. Len(events[d]) + 1
           /\ \A i \in 1 .. Len(events[d]) : events'[d][i] = events[d][i]
           /\ events'[d][Len(events[d]) + 1] = [type |-> type, from |-> from, to |-> to]
<1>1. events \in [Devices -> Seq(Events)] /\ events[d] \in Seq(Events)
  BY DEF TypeOK
<1> DEFINE e == [type |-> type, from |-> from, to |-> to]
<1>2. events' = [events EXCEPT ![d] = Append(events[d], e)]
  BY DEF Log
<1>3. events'[d] = Append(events[d], e)
  BY <1>1, <1>2
<1>4. /\ Append(events[d], e) \in Seq(Events)
      /\ Len(Append(events[d], e)) = Len(events[d]) + 1
      /\ \A i \in 1 .. Len(events[d]) : Append(events[d], e)[i] = events[d][i]
      /\ Append(events[d], e)[Len(events[d]) + 1] = e
  BY <1>1, AppendProperties
<1>5. Len(events[d]) \in Nat /\ DOMAIN events[d] = 1 .. Len(events[d])
  BY <1>1, LenProperties
<1>6. DOMAIN events'[d] = 1 .. Len(events[d]) + 1
  BY <1>3, <1>4, LenProperties
<1>7. events' \in [Devices -> Seq(Events)]
  BY <1>1, <1>2, <1>4
<1> QED BY <1>1, <1>2, <1>3, <1>4, <1>5, <1>6, <1>7

-----------------------------------------------------------------------------
(* Who writes what.                                                        *)
LEMMA Writers ==
    ASSUME [Next]_vars
    PROVE  /\ \/ events' = events \/ \E r \in Requests : LogTransition(r) \/ LogOffer(r)
              \/ \E i \in links, d \in Devices : Download(i, d)
           /\ links' = links \/ \E r \in Requests : Answer(r)
           /\ first' = first \/ \E r \in Requests : Flush(r)
           /\ \/ row' = row \/ \E r \in Requests : Flush(r)
              \/ \E new \in Registrations : Register(new)
              \/ \E d \in Devices, owner \in Owners, enabled \in BOOLEAN : SetEnabled(d, owner, enabled)
           /\ \/ muddled' = muddled
              \/ \E r \in Requests : Fail(r) \/ \E c \in Calls : Send(r, c)
<1>1. ASSUME NEW r \in Requests, Serve(r)
      PROVE  /\ events' = events \/ LogTransition(r) \/ LogOffer(r)
             /\ links' = links \/ Answer(r)
             /\ first' = first \/ Flush(r)
             /\ row' = row \/ Flush(r)
             /\ muddled' = muddled \/ Fail(r) \/ \E c \in Calls : Send(r, c)
  BY <1>1, Steps DEF Send, TurnAway, Admit, Load, Flush, LogTransition, NothingToOffer,
     Lookup, News, LogOffer, Answer, Leave, Fail, tables, history
<1>2. CASE Dashboard
  BY <1>2 DEF Dashboard, Register, SetEnabled, history
<1>3. CASE Downloads
  BY <1>3 DEF Downloads, Download, history
<1>4. CASE UNCHANGED vars
  BY <1>4 DEF vars, tables, history
<1> QED BY <1>1, <1>2, <1>3, <1>4 DEF Next

(* Type correctness, a variable at a time.                                 *)
LEMMA RequestsTyped ==
    ASSUME TypeOK, CallsKnown, RowsHeld, [Next]_vars
    PROVE  /\ pc' \in [Requests -> UnderWay \cup {"idle", "offered"}]
           /\ call' \in [Requests -> Calls \cup {NoCall}]
           /\ previous' \in [Requests -> Versions \cup {NoVersion}]
           /\ loaded' \in [Requests -> Versions \cup {NoVersion}]
           /\ offer' \in [Requests -> Nat]
<1>1. /\ pc \in [Requests -> UnderWay \cup {"idle", "offered"}]
      /\ call \in [Requests -> Calls \cup {NoCall}]
      /\ previous \in [Requests -> Versions \cup {NoVersion}]
      /\ loaded \in [Requests -> Versions \cup {NoVersion}]
      /\ offer \in [Requests -> Nat]
  BY DEF TypeOK
<1>2. ASSUME NEW r \in Requests, pc[r] \in {"sent", "record"}, row[Of(r)] # NoRow
      PROVE  row[Of(r)].version \in Versions \cup {NoVersion}
  <2>1. row[Of(r)] \in DeviceRows
    BY <1>2, CallTyped DEF TypeOK
  <2> QED BY <2>1 DEF DeviceRows
<1>3. DOMAIN firmware \subseteq Nat
  BY LenProperties DEF TypeOK
<1>4. ASSUME NEW r \in Requests, Serve(r)
      PROVE  /\ pc' \in [Requests -> UnderWay \cup {"idle", "offered"}]
             /\ call' \in [Requests -> Calls \cup {NoCall}]
             /\ previous' \in [Requests -> Versions \cup {NoVersion}]
             /\ loaded' \in [Requests -> Versions \cup {NoVersion}]
             /\ offer' \in [Requests -> Nat]
  <2> USE <1>1, <1>4 DEF UnderWay, Goto, locals
  <2>1. ASSUME NEW c \in Calls, Send(r, c)
        PROVE  /\ pc' \in [Requests -> UnderWay \cup {"idle", "offered"}]
               /\ call' \in [Requests -> Calls \cup {NoCall}]
               /\ UNCHANGED <<previous, loaded, offer>>
    BY <2>1 DEF Send
  <2>2. CASE Ends(r)
    BY <2>2 DEF Ends
  <2>3. CASE Admit(r)
    BY <2>3, <1>2 DEF Admit, Admitted, Of
  <2>4. CASE Load(r)
    BY <2>4, <1>2 DEF Load, RowsHeld, PastAdmission
  <2>5. CASE Flush(r)
    BY <2>5 DEF Flush, AfterRecording
  <2>6. CASE LogTransition(r)
    BY <2>6 DEF LogTransition
  <2>7. CASE Lookup(r)
    BY <2>7, <1>3 DEF Lookup, Candidates, Latest, Offered
  <2>8. CASE News(r)
    BY <2>8 DEF News
  <2>9. CASE LogOffer(r)
    BY <2>9 DEF LogOffer
  <2> QED
    BY <2>1, <2>2, <2>3, <2>4, <2>5, <2>6, <2>7, <2>8, <2>9, Steps
    DEF TurnAway, NothingToOffer, Answer, Leave, Fail
<1>5. CASE Dashboard
  BY <1>1, <1>5 DEF Dashboard, Register, SetEnabled, locals
<1>6. CASE Downloads
  BY <1>1, <1>6 DEF Downloads, Download, locals
<1>7. CASE UNCHANGED vars
  BY <1>1, <1>7 DEF vars, locals
<1> QED BY <1>4, <1>5, <1>6, <1>7 DEF Next

(* What check-ins and downloads put in the log are events.                 *)
MoveOf(r) == [type |-> Transition(previous[r], call[r].version), from |-> previous[r], to |-> call[r].version]
DownloadOf(i) == [type |-> "download", from |-> NoVersion, to |-> firmware[i].version]

LEMMA TransitionLogged ==
    ASSUME TypeOK, CallsKnown, Moving, NEW r \in Requests, LogTransition(r)
    PROVE  MoveOf(r) \in Events /\ MoveOf(r).type \in {"success", "rollback"}
<1>1. Transition(previous[r], call[r].version) \in {"success", "rollback"}
  BY DEF LogTransition, Moving, Transition
<1>2. call[r].version \in Versions /\ previous[r] \in Versions \cup {NoVersion}
  BY CallTyped DEF LogTransition, TypeOK
<1> QED BY <1>1, <1>2 DEF Events, MoveOf

LEMMA OfferedTyped ==
    ASSUME TypeOK, CallsKnown, OfferFits, NEW r \in Requests, pc[r] \in Offering
    PROVE  /\ call[r] \in Calls /\ Of(r) \in Devices /\ call[r].version \in Versions
           /\ offer[r] \in DOMAIN firmware /\ firmware[offer[r]].version \in Versions
<1>1. call[r] \in Calls /\ Of(r) \in Devices /\ call[r].version \in Versions
  BY CallTyped DEF Offering
<1>2. offer[r] \in DOMAIN firmware
  BY DEF OfferFits, Offering
<1>3. firmware[offer[r]] \in Rows
  BY <1>2, ElementOfSeq, LenProperties DEF TypeOK
<1> QED BY <1>1, <1>2, <1>3 DEF Rows

(* The log of d is one entry longer, and the same up to there.             *)
Appended(d, e) ==
    /\ Len(events[d]) \in Nat /\ DOMAIN events[d] = 1 .. Len(events[d])
    /\ Len(events'[d]) = Len(events[d]) + 1 /\ DOMAIN events'[d] = 1 .. Len(events[d]) + 1
    /\ \A i \in 1 .. Len(events[d]) : events'[d][i] = events[d][i]
    /\ events'[d][Len(events[d]) + 1] = e

LEMMA LogStep ==
    ASSUME TypeOK, CallsKnown, Moving, OfferFits, NEW r \in Requests
    PROVE  /\ LogTransition(r) => events' \in [Devices -> Seq(Events)] /\ Appended(Of(r), MoveOf(r))
           /\ LogOffer(r) => events' \in [Devices -> Seq(Events)] /\ Appended(Of(r), OfferOf(r))
<1>1. ASSUME LogTransition(r)
      PROVE  events' \in [Devices -> Seq(Events)] /\ Appended(Of(r), MoveOf(r))
  <2>1. Of(r) \in Devices
    BY <1>1, CallTyped DEF LogTransition
  <2>2. Log(Of(r), Transition(previous[r], call[r].version), previous[r], call[r].version)
    BY <1>1 DEF LogTransition
  <2> QED BY <1>1, <2>1, <2>2, TransitionLogged, LogGrows DEF MoveOf, Appended
<1>2. ASSUME LogOffer(r)
      PROVE  events' \in [Devices -> Seq(Events)] /\ Appended(Of(r), OfferOf(r))
  <2>1. Of(r) \in Devices
    BY <1>2, OfferedTyped DEF LogOffer, Offering
  <2>2. Log(Of(r), "check", call[r].version, firmware[offer[r]].version)
    BY <1>2 DEF LogOffer
  <2>3. OfferOf(r) \in Events
    BY <1>2, OfferedTyped DEF LogOffer, Offering, Events, OfferOf
  <2> QED BY <2>1, <2>2, <2>3, LogGrows DEF OfferOf, Appended
<1> QED BY <1>1, <1>2

LEMMA DownloadStep ==
    ASSUME TypeOK, NEW i \in links, NEW d \in Devices, Download(i, d)
    PROVE  events' \in [Devices -> Seq(Events)] /\ Appended(d, DownloadOf(i))
<1>1. firmware[i] \in Rows
  <2>1. i \in DOMAIN firmware /\ firmware \in Seq(Rows)
    BY DEF TypeOK
  <2> QED BY <2>1, ElementOfSeq, LenProperties
<1>2. DownloadOf(i) \in Events
  BY <1>1 DEF Rows, Events, DownloadOf
<1>3. Log(d, "download", NoVersion, firmware[i].version)
  BY DEF Download
<1> QED BY <1>2, <1>3, LogGrows DEF DownloadOf, Appended

LEMMA EventsTyped ==
    ASSUME TypeOK, CallsKnown, Moving, OfferFits, [Next]_vars
    PROVE  events' \in [Devices -> Seq(Events)]
BY LogStep, DownloadStep, Writers DEF TypeOK

LEMMA RowsTyped ==
    ASSUME TypeOK, CallsKnown, RowsHeld, [Next]_vars
    PROVE  /\ row' \in [Devices -> DeviceRows \cup {NoRow}]
           /\ first' \in [Devices -> Versions \cup {NoVersion}]
           /\ muddled' \subseteq Devices
<1>1. ASSUME NEW r \in Requests, Flush(r)
      PROVE  /\ row' \in [Devices -> DeviceRows \cup {NoRow}]
             /\ first' \in [Devices -> Versions \cup {NoVersion}]
  <2>1. row' \in [Devices -> DeviceRows \cup {NoRow}]
    <3> DEFINE new == [row[Of(r)] EXCEPT !.version = Recorded(r, Of(r))]
    <3>1. row' = [row EXCEPT ![Of(r)] = new] /\ new \in DeviceRows
      BY <1>1, FlushTyped
    <3> HIDE DEF new
    <3> QED BY <3>1 DEF TypeOK
  <2>2. first' \in [Devices -> Versions \cup {NoVersion}]
    <3>1. Recorded(r, Of(r)) \in Versions \cup {NoVersion}
      BY <1>1, FlushTyped
    <3>2. first' = [first EXCEPT ![Of(r)] = IF first[Of(r)] = NoVersion THEN Recorded(r, Of(r)) ELSE first[Of(r)]]
      BY <1>1 DEF Flush
    <3>3. first \in [Devices -> Versions \cup {NoVersion}]
      BY DEF TypeOK
    <3> QED BY <3>1, <3>2, <3>3
  <2> QED BY <2>1, <2>2
<1>2. ASSUME NEW new \in Registrations, Register(new)
      PROVE  row' \in [Devices -> DeviceRows \cup {NoRow}]
  <2>1. [owner |-> new.owner, model |-> new.model, enabled |-> TRUE, version |-> NoVersion] \in DeviceRows
    BY CheckInAssumption DEF DeviceRows
  <2> QED BY <1>2, <2>1 DEF Register, TypeOK
<1>3. ASSUME NEW d \in Devices, NEW owner \in Owners, NEW enabled \in BOOLEAN,
             SetEnabled(d, owner, enabled)
      PROVE  row' \in [Devices -> DeviceRows \cup {NoRow}]
  <2> DEFINE new == [row[d] EXCEPT !.enabled = enabled]
  <2>1. row' = [row EXCEPT ![d] = new]
    BY <1>3 DEF SetEnabled
  <2>2. new \in DeviceRows
    BY <1>3, SwitchTyped
  <2> HIDE DEF new
  <2> QED BY <2>1, <2>2 DEF TypeOK
<1>4. muddled' \subseteq Devices
  <2>1. ASSUME NEW r \in Requests, Fail(r) PROVE muddled' \subseteq Devices
    BY <2>1, CallTyped DEF Fail, TypeOK
  <2>2. ASSUME NEW r \in Requests, NEW c \in Calls, Send(r, c) PROVE muddled' \subseteq Devices
    BY <2>2, CheckInAssumption DEF Send, TypeOK
  <2> QED BY <2>1, <2>2, Writers DEF TypeOK
<1>5. row \in [Devices -> DeviceRows \cup {NoRow}] /\ first \in [Devices -> Versions \cup {NoVersion}]
  BY DEF TypeOK
<1>6. row' \in [Devices -> DeviceRows \cup {NoRow}]
  BY <1>1, <1>2, <1>3, <1>5, Writers
<1>7. first' \in [Devices -> Versions \cup {NoVersion}]
  BY <1>1, <1>5, Writers
<1> QED BY <1>4, <1>6, <1>7

(* A link that is handed out is the one of a row that exists.              *)
LEMMA LinksTyped ==
    ASSUME TypeOK, OfferFits, [Next]_vars
    PROVE  links' \subseteq DOMAIN firmware'
<1>1. DOMAIN firmware \subseteq DOMAIN firmware' /\ links \subseteq DOMAIN firmware
  BY FirmwareKeeps DEF TypeOK
<1>2. ASSUME NEW r \in Requests, Answer(r) PROVE links' \subseteq DOMAIN firmware
  BY <1>1, <1>2 DEF Answer, OfferFits
<1> QED BY <1>1, <1>2, Writers

LEMMA StepTyped ==
    ASSUME TypeOK, CallsKnown, RowsHeld, Moving, OfferFits, [Next]_vars
    PROVE  TypeOK'
BY FirmwareKeeps, RequestsTyped, EventsTyped, RowsTyped, LinksTyped DEF TypeOK

-----------------------------------------------------------------------------
(* How a request comes to be where it is.                                  *)
LEMMA Arrivals ==
    ASSUME TypeOK, NEW r \in Requests, Serve(r)
    PROVE  /\ pc'[r] = "sent" => \E c \in Calls : Send(r, c) /\ call'[r] = c
           /\ pc'[r] = "record" => Admit(r)
           /\ pc'[r] = "flush" => Load(r)
           /\ pc'[r] = "transition" => Flush(r)
           /\ pc'[r] = "lookup" => Flush(r) \/ LogTransition(r)
           /\ pc'[r] = "news" => Lookup(r)
           /\ pc'[r] = "log offer" => News(r)
           /\ pc'[r] = "offered" => News(r) \/ LogOffer(r)
<1>1. pc \in [Requests -> UnderWay \cup {"idle", "offered"}] /\ call \in [Requests -> Calls \cup {NoCall}]
  BY DEF TypeOK
<1> USE <1>1 DEF Goto
<1>2. ASSUME NEW c \in Calls, Send(r, c) PROVE pc'[r] = "sent" /\ call'[r] = c
  BY <1>2 DEF Send
<1>3. Ends(r) => pc'[r] = "idle"
  BY DEF Ends
<1>4. Admit(r) => pc'[r] = "record"
  BY DEF Admit
<1>5. Load(r) => pc'[r] = "flush"
  BY DEF Load
<1>6. Flush(r) => pc'[r] \in {"lookup", "transition"}
  BY DEF Flush, AfterRecording
<1>7. LogTransition(r) => pc'[r] = "lookup"
  BY DEF LogTransition
<1>8. Lookup(r) => pc'[r] = "news"
  BY DEF Lookup
<1>9. News(r) => pc'[r] \in {"offered", "log offer"}
  BY DEF News
<1>10. LogOffer(r) => pc'[r] = "offered"
  BY DEF LogOffer
<1> QED
  BY <1>2, <1>3, <1>4, <1>5, <1>6, <1>7, <1>8, <1>9, <1>10, Steps
  DEF TurnAway, NothingToOffer, Answer, Leave, Fail

LEMMA RequestsPlaced ==
    ASSUME TypeOK, [Next]_vars, NEW q \in Requests
    PROVE  pc'[q] \in UnderWay \cup {"idle", "offered"}
<1>1. CASE Same(q)
  BY <1>1 DEF Same, TypeOK
<1>2. CASE Serve(q)
  <2>1. pc \in [Requests -> UnderWay \cup {"idle", "offered"}]
    BY DEF TypeOK
  <2> QED
    BY <1>2, <2>1, Steps DEF UnderWay, Goto, Send, Ends, TurnAway, Admit, Load, Flush, AfterRecording,
       LogTransition, NothingToOffer, Lookup, News, LogOffer, Answer, Leave, Fail
<1> QED BY <1>1, <1>2, Local

(* A request that was not just sent keeps what it was sent.                *)
LEMMA CallKept ==
    ASSUME TypeOK, [Next]_vars, NEW q \in Requests, pc'[q] \notin {"idle", "sent"}
    PROVE  /\ pc[q] # "idle" /\ call'[q] = call[q] /\ Of(q)' = Of(q)
           /\ pc'[q] # "record" => pc[q] \in PastAdmission
           /\ pc'[q] # "record" => previous'[q] = previous[q]
           /\ pc'[q] \in Offering => pc'[q] = "news" \/ (pc[q] \in Offering /\ offer'[q] = offer[q])
<1>1. CASE Same(q)
  BY <1>1 DEF Same, Of, PastAdmission, Offering, TypeOK, UnderWay
<1>2. CASE Serve(q)
  <2>1. pc'[q] \in {"record", "flush", "transition", "lookup", "news", "log offer", "offered"}
    BY RequestsPlaced DEF UnderWay
  <2>2. Admit(q) \/ Load(q) \/ Flush(q) \/ LogTransition(q) \/ Lookup(q) \/ News(q) \/ LogOffer(q)
    BY <1>2, <2>1, Arrivals
  <2>3. call' = call
    BY <2>2 DEF Admit, Load, Flush, LogTransition, Lookup, News, LogOffer, locals
  <2>4. pc'[q] # "record" => ~Admit(q)
    BY DEF Admit, Goto, TypeOK
  <2>5. pc'[q] \in Offering /\ pc'[q] # "news" => News(q) \/ LogOffer(q)
    BY <1>2, Arrivals DEF Offering
  <2> QED
    BY <2>2, <2>3, <2>4, <2>5 DEF Admit, Load, Flush, LogTransition, Lookup, News, LogOffer, locals,
       Of, PastAdmission, Offering
<1> QED BY <1>1, <1>2, Local

(* A unit's version is written by its own check-ins, and so is its log but *)
(* for the downloads.                                                      *)
LEMMA WritersOf ==
    ASSUME TypeOK, CallsKnown, [Next]_vars, NEW d \in Devices
    PROVE  /\ \/ events'[d] = events[d]
              \/ \E r \in Requests : Of(r) = d /\ (LogTransition(r) \/ LogOffer(r))
              \/ \E i \in links : Download(i, d)
           /\ first'[d] = first[d] \/ \E r \in Requests : Of(r) = d /\ Flush(r)
<1>1. ASSUME NEW r \in Requests, LogTransition(r) \/ LogOffer(r), Of(r) # d
      PROVE  events'[d] = events[d]
  BY <1>1 DEF LogTransition, LogOffer, Log, TypeOK
<1>2. ASSUME NEW r \in Requests, Flush(r), Of(r) # d PROVE first'[d] = first[d]
  BY <1>2 DEF Flush, TypeOK
<1>3. ASSUME NEW i \in links, NEW c \in Devices, Download(i, c), c # d
      PROVE  events'[d] = events[d]
  BY <1>3 DEF Download, Log, TypeOK
<1> QED BY <1>1, <1>2, <1>3, Writers

(* What a flush leaves behind: a version in the row, and in the history.   *)
LEMMA FlushRecords ==
    ASSUME TypeOK, CallsKnown, RowsHeld, Recording, NEW r \in Requests, Flush(r)
    PROVE  /\ row'[Of(r)].version = Recorded(r, Of(r))
           /\ Recorded(r, Of(r)) # NoVersion
           /\ first'[Of(r)] = IF first[Of(r)] = NoVersion THEN Recorded(r, Of(r)) ELSE first[Of(r)]
<1>1. Of(r) \in Devices /\ row[Of(r)] \in DeviceRows
  BY FlushTyped
<1>2. row'[Of(r)].version = Recorded(r, Of(r))
  <2> DEFINE new == [row[Of(r)] EXCEPT !.version = Recorded(r, Of(r))]
  <2>1. row' = [row EXCEPT ![Of(r)] = new]
    BY FlushTyped
  <2>2. new.version = Recorded(r, Of(r))
    BY <1>1 DEF DeviceRows
  <2> HIDE DEF new
  <2> QED BY <1>1, <2>1, <2>2 DEF TypeOK
<1>3. Recorded(r, Of(r)) # NoVersion
  BY CallTyped DEF Recorded, Recording, Flush
<1>4. first'[Of(r)] = IF first[Of(r)] = NoVersion THEN Recorded(r, Of(r)) ELSE first[Of(r)]
  BY <1>1 DEF Flush, TypeOK
<1> QED BY <1>2, <1>3, <1>4

LEMMA StepCallsKnown ==
    ASSUME TypeOK, CallsKnown, [Next]_vars
    PROVE  CallsKnown'
<1> SUFFICES ASSUME NEW q \in Requests, pc'[q] # "idle" PROVE call'[q] \in Calls
  BY DEF CallsKnown
<1>1. CASE pc'[q] = "sent"
  BY <1>1, Local, Arrivals DEF Same, CallsKnown
<1>2. CASE pc'[q] # "sent"
  BY <1>2, CallKept DEF CallsKnown
<1> QED BY <1>1, <1>2

LEMMA StepMoving ==
    ASSUME TypeOK, Moving, [Next]_vars
    PROVE  Moving'
<1> SUFFICES ASSUME NEW q \in Requests, pc'[q] = "transition"
             PROVE  Transition(previous'[q], call'[q].version) # "none"
  BY DEF Moving, Transition
<1>1. CASE Same(q)
  BY <1>1 DEF Same, Moving
<1>2. CASE Serve(q)
  <2>1. Flush(q)
    BY <1>2, Arrivals
  <2> QED BY <2>1 DEF Flush, AfterRecording, Goto, locals, TypeOK
<1> QED BY <1>1, <1>2, Local

LEMMA StepRecording ==
    ASSUME TypeOK, CallsKnown, RowsHeld, Recording, [Next]_vars
    PROVE  Recording'
<1> SUFFICES ASSUME NEW q \in Requests
             PROVE  /\ pc'[q] = "flush" /\ loaded'[q] # NoVersion => row'[Of(q)'].version # NoVersion
                    /\ pc'[q] = "transition" => first'[Of(q)'] # NoVersion
  BY DEF Recording
<1>1. ASSUME pc'[q] = "flush", loaded'[q] # NoVersion PROVE row'[Of(q)'].version # NoVersion
  <2>1. Of(q)' = Of(q) /\ Of(q) \in Devices /\ row[Of(q)] # NoRow
    BY <1>1, CallKept, CallTyped DEF RowsHeld, PastAdmission
  <2>2. CASE Serve(q)
    <3>1. loaded' = [loaded EXCEPT ![q] = row[Of(q)].version] /\ row' = row
      BY <1>1, <2>2, Arrivals DEF Load, tables
    <3>2. loaded'[q] = row[Of(q)].version
      BY <3>1 DEF TypeOK
    <3> QED BY <1>1, <2>1, <3>1, <3>2
  <2>3. CASE Same(q)
    <3>1. row[Of(q)].version # NoVersion
      BY <1>1, <2>3 DEF Same, Recording
    <3>2. row'[Of(q)].version # NoVersion
      BY <2>1, <3>1, RowKeeps, FlushRecords
    <3> QED BY <2>1, <3>2
  <2> QED BY <2>2, <2>3, Local
<1>2. ASSUME pc'[q] = "transition" PROVE first'[Of(q)'] # NoVersion
  <2>1. Of(q)' = Of(q) /\ Of(q) \in Devices
    BY <1>2, CallKept, CallTyped
  <2>2. CASE Serve(q)
    BY <1>2, <2>1, <2>2, Arrivals, FlushRecords
  <2>3. CASE Same(q)
    BY <1>2, <2>1, <2>3, WritersOf, FlushRecords DEF Same, Recording
  <2> QED BY <2>2, <2>3, Local
<1> QED BY <1>1, <1>2

-----------------------------------------------------------------------------
(* No offer crosses accounts or goes back.                                 *)
LEMMA StepOfferFits ==
    ASSUME TypeOK, CallsKnown, RowsHeld, OfferFits, [Next]_vars
    PROVE  OfferFits'
<1> SUFFICES ASSUME NEW q \in Requests, pc'[q] \in Offering
             PROVE  /\ offer'[q] \in DOMAIN firmware'
                    /\ firmware'[offer'[q]].owner = row'[Of(q)'].owner
                    /\ firmware'[offer'[q]].model = row'[Of(q)'].model
                    /\ IsVersionNewer(firmware'[offer'[q]].version, call'[q].version)
  BY DEF OfferFits, Offering
<1>1. /\ call'[q] = call[q] /\ Of(q)' = Of(q) /\ Of(q) \in Devices
      /\ pc[q] # "idle" /\ row[Of(q)] # NoRow
  BY CallKept, CallTyped DEF RowsHeld, Offering
<1>2. CASE Lookup(q)
  <2>1. PICK i \in Candidates(q) : offer' = [offer EXCEPT ![q] = i]
    BY <1>2 DEF Lookup
  <2>2. offer'[q] = i
    BY <2>1 DEF TypeOK
  <2>3. firmware' = firmware /\ row' = row
    BY <1>2 DEF Lookup, tables
  <2>4. /\ i \in DOMAIN firmware
        /\ firmware[i].owner = row[Of(q)].owner
        /\ firmware[i].model = row[Of(q)].model
        /\ IsVersionNewer(firmware[i].version, call[q].version)
    BY <2>1 DEF Candidates, Latest, Offered
  <2> QED BY <1>1, <2>2, <2>3, <2>4
<1>3. CASE pc[q] \in Offering /\ offer'[q] = offer[q]
  <2>1. /\ offer[q] \in DOMAIN firmware
        /\ firmware[offer[q]].owner = row[Of(q)].owner
        /\ firmware[offer[q]].model = row[Of(q)].model
        /\ IsVersionNewer(firmware[offer[q]].version, call[q].version)
    BY <1>3 DEF OfferFits, Offering
  <2>2. /\ offer[q] \in DOMAIN firmware'
        /\ firmware'[offer[q]].owner = firmware[offer[q]].owner
        /\ firmware'[offer[q]].model = firmware[offer[q]].model
        /\ firmware'[offer[q]].version = firmware[offer[q]].version
    BY <2>1, FirmwareKeeps
  <2>3. row'[Of(q)].owner = row[Of(q)].owner /\ row'[Of(q)].model = row[Of(q)].model
    BY <1>1, RowKeeps
  <2> QED BY <1>1, <1>3, <2>1, <2>2, <2>3
<1>4. CASE pc'[q] = "news" /\ Same(q)
  BY <1>3, <1>4 DEF Same, Offering
<1>5. pc'[q] = "news" => Same(q) \/ Lookup(q)
  <2>1. Serve(q) => (pc'[q] = "news" => Lookup(q))
    BY Arrivals
  <2>2. Same(q) \/ Serve(q)
    BY Local
  <2> QED BY <2>1, <2>2
<1>6. pc'[q] = "news" \/ (pc[q] \in Offering /\ offer'[q] = offer[q])
  BY CallKept DEF Offering
<1> QED BY <1>2, <1>3, <1>4, <1>5, <1>6

-----------------------------------------------------------------------------
(* The log of a unit stays as it is, or a check-in of the unit adds to it, *)
(* or a download that names the unit does.                                 *)
LEMMA LogOf ==
    ASSUME TypeOK, CallsKnown, Moving, OfferFits, [Next]_vars, NEW d \in Devices
    PROVE  \/ events'[d] = events[d]
           \/ \E r \in Requests : LogTransition(r) /\ Of(r) = d /\ Appended(d, MoveOf(r))
           \/ \E r \in Requests : LogOffer(r) /\ Of(r) = d /\ Appended(d, OfferOf(r))
           \/ \E i \in links : Download(i, d) /\ Appended(d, DownloadOf(i))
BY WritersOf, LogStep, DownloadStep

(* What is in the log stays where it is.                                   *)
LEMMA LogKept ==
    ASSUME TypeOK, CallsKnown, Moving, OfferFits, [Next]_vars, NEW d \in Devices, NEW i \in DOMAIN events[d]
    PROVE  i \in DOMAIN events'[d] /\ events'[d][i] = events[d][i]
<1>1. CASE events'[d] = events[d]
  BY <1>1
<1>2. ASSUME NEW e, Appended(d, e) PROVE i \in DOMAIN events'[d] /\ events'[d][i] = events[d][i]
  BY <1>2 DEF Appended
<1> QED BY <1>1, <1>2, LogOf

(* A download moves no unit.                                               *)
LEMMA StrangersMoveNothing ==
    ASSUME NEW d \in Devices, NEW i \in links, Appended(d, DownloadOf(i))
    PROVE  Moves(d)' = Moves(d)
BY DEF Moves, Appended, DownloadOf

LEMMA StepRowsHeld ==
    ASSUME TypeOK, CallsKnown, RowsHeld, Moving, OfferFits, [Next]_vars
    PROVE  RowsHeld'
<1>1. ASSUME NEW q \in Requests, pc'[q] \in PastAdmission PROVE (row[Of(q)] # NoRow)'
  <2>1. /\ pc[q] # "idle" /\ Of(q)' = Of(q)
        /\ pc'[q] # "record" => pc[q] \in PastAdmission
    BY <1>1, CallKept DEF PastAdmission
  <2>2. Of(q) \in Devices
    BY <2>1, CallTyped
  <2>3. row[Of(q)] # NoRow
    <3>1. CASE pc'[q] # "record"
      BY <2>1, <3>1 DEF RowsHeld
    <3>2. CASE pc'[q] = "record" /\ Same(q)
      BY <3>2 DEF Same, RowsHeld, PastAdmission
    <3>3. CASE pc'[q] = "record" /\ Serve(q)
      BY <3>3, Arrivals DEF Admit, Admitted, Of
    <3> QED BY <3>1, <3>2, <3>3, Local
  <2> QED BY <2>1, <2>2, <2>3, RowKeeps
<1>2. ASSUME NEW d \in Devices, row'[d] = NoRow PROVE first'[d] = NoVersion /\ Moves(d)' = {}
  <2>1. row[d] = NoRow
    BY <1>2, RowKeeps
  <2>2. ASSUME NEW r \in Requests, pc[r] \in PastAdmission PROVE Of(r) # d
    BY <2>1, <2>2 DEF RowsHeld
  <2>3. first'[d] = first[d]
    BY <2>2, WritersOf DEF Flush, PastAdmission
  <2>4. events'[d] = events[d] \/ \E i \in links : Appended(d, DownloadOf(i))
    BY <2>2, LogOf DEF LogTransition, LogOffer, PastAdmission
  <2> QED BY <2>1, <2>3, <2>4, StrangersMoveNothing DEF RowsHeld, Moves
<1> QED BY <1>1, <1>2 DEF RowsHeld

LEMMA StepOfferLogged ==
    ASSUME TypeOK, CallsKnown, RowsHeld, Moving, OfferFits, OfferLogged, [Next]_vars
    PROVE  OfferLogged'
<1> SUFFICES ASSUME NEW q \in Requests, pc'[q] = "offered"
             PROVE  \E j \in DOMAIN events'[Of(q)'] :
                       /\ events'[Of(q)'][j].type = "check"
                       /\ events'[Of(q)'][j].to = firmware'[offer'[q]].version
  BY DEF OfferLogged
<1>1. Of(q)' = Of(q) /\ pc[q] \in Offering /\ offer'[q] = offer[q]
  BY CallKept DEF Offering
<1>2. Of(q) \in Devices /\ offer[q] \in DOMAIN firmware
  BY <1>1, OfferedTyped
<1>3. firmware'[offer[q]].version = firmware[offer[q]].version
  BY <1>2, FirmwareKeeps
<1>4. ASSUME NEW j \in DOMAIN events[Of(q)],
             events[Of(q)][j].type = "check", events[Of(q)][j].to = firmware[offer[q]].version
      PROVE  /\ j \in DOMAIN events'[Of(q)]
             /\ events'[Of(q)][j].type = "check" /\ events'[Of(q)][j].to = firmware[offer[q]].version
  BY <1>2, <1>4, LogKept
<1>5. CASE Same(q)
  BY <1>1, <1>3, <1>4, <1>5 DEF Same, OfferLogged
<1>6. CASE News(q)
  <2>1. LogEndsWithOffer(q)
    BY <1>6 DEF News, Goto, TypeOK
  <2>2. /\ events[Of(q)] \in Seq(Events) /\ events[Of(q)] # <<>>
        /\ events[Of(q)][Len(events[Of(q)])] = OfferOf(q)
    BY <1>2, <2>1 DEF LogEndsWithOffer, OfferOf, TypeOK
  <2>3. Len(events[Of(q)]) \in DOMAIN events[Of(q)]
    BY <2>2, EmptySeq, LenProperties
  <2> QED BY <1>1, <1>3, <1>4, <2>2, <2>3 DEF OfferOf
<1>7. CASE LogOffer(q)
  <2>1. Appended(Of(q), OfferOf(q))
    BY <1>7, LogStep
  <2>2. Len(events[Of(q)]) + 1 \in DOMAIN events'[Of(q)]
    BY <2>1 DEF Appended
  <2> QED BY <1>1, <1>3, <2>1, <2>2 DEF Appended, OfferOf
<1>8. Same(q) \/ News(q) \/ LogOffer(q)
  <2>1. Serve(q) => News(q) \/ LogOffer(q)
    BY Arrivals
  <2> QED BY <2>1, Local
<1> QED BY <1>5, <1>6, <1>7, <1>8

(* What is on record stays on record, and a link gets there before it is   *)
(* handed out.                                                             *)
LEMMA RecordKept ==
    ASSUME TypeOK, CallsKnown, RowsHeld, Moving, OfferFits, [Next]_vars,
           NEW i \in DOMAIN firmware, OnRecord(i)
    PROVE  OnRecord(i)'
<1>1. PICK d \in Devices : \E j \in DOMAIN events[d] :
          /\ row[d] # NoRow /\ row[d].owner = firmware[i].owner /\ row[d].model = firmware[i].model
          /\ events[d][j].type = "check" /\ events[d][j].to = firmware[i].version
  BY DEF OnRecord
<1> PICK j \in DOMAIN events[d] :
          /\ row[d] # NoRow /\ row[d].owner = firmware[i].owner /\ row[d].model = firmware[i].model
          /\ events[d][j].type = "check" /\ events[d][j].to = firmware[i].version
  BY <1>1
<1>2. j \in DOMAIN events'[d] /\ events'[d][j] = events[d][j]
  BY LogKept
<1>3. row'[d] # NoRow /\ row'[d].owner = row[d].owner /\ row'[d].model = row[d].model
  BY <1>1, RowKeeps
<1>4. /\ firmware'[i].owner = firmware[i].owner /\ firmware'[i].model = firmware[i].model
      /\ firmware'[i].version = firmware[i].version
  BY FirmwareKeeps
<1> QED BY <1>1, <1>2, <1>3, <1>4 DEF OnRecord

LEMMA AnswerOnRecord ==
    ASSUME TypeOK, CallsKnown, RowsHeld, OfferFits, OfferLogged, NEW r \in Requests, pc[r] = "offered"
    PROVE  OnRecord(offer[r])
<1>1. Of(r) \in Devices /\ row[Of(r)] # NoRow
  BY CallTyped DEF RowsHeld, PastAdmission
<1>2. /\ firmware[offer[r]].owner = row[Of(r)].owner
      /\ firmware[offer[r]].model = row[Of(r)].model
  BY DEF OfferFits
<1>3. PICK j \in DOMAIN events[Of(r)] :
          events[Of(r)][j].type = "check" /\ events[Of(r)][j].to = firmware[offer[r]].version
  BY DEF OfferLogged
<1> QED BY <1>1, <1>2, <1>3 DEF OnRecord

LEMMA StepDownloads ==
    ASSUME TypeOK, CallsKnown, RowsHeld, Moving, OfferFits, OfferLogged, DownloadsWereOffered, [Next]_vars
    PROVE  DownloadsWereOffered'
<1>1. links \subseteq links' /\ links \subseteq DOMAIN firmware
  BY Writers DEF Answer, TypeOK
<1>2. ASSUME NEW i \in links' PROVE OnRecord(i)'
  <2>1. i \in DOMAIN firmware /\ OnRecord(i)
    <3>1. CASE i \in links
      BY <1>1, <3>1 DEF DownloadsWereOffered
    <3>2. ASSUME NEW r \in Requests, Answer(r), i = offer[r] PROVE i \in DOMAIN firmware /\ OnRecord(i)
      BY <3>2, AnswerOnRecord DEF Answer, OfferFits
    <3> QED BY <1>2, <3>1, <3>2, Writers DEF Answer
  <2> QED BY <2>1, RecordKept
<1>3. ASSUME NEW d \in Devices, NEW j \in DOMAIN events'[d], events'[d][j].type = "download"
      PROVE  \E i \in links' : events'[d][j].to = firmware'[i].version
  <2>1. \A i \in links : i \in links' /\ firmware'[i].version = firmware[i].version
    BY <1>1, FirmwareKeeps
  <2>2. CASE j \in DOMAIN events[d]
    <3>1. events'[d][j] = events[d][j]
      BY <2>2, LogKept
    <3>2. PICK i \in links : events[d][j].to = firmware[i].version
      BY <1>3, <2>2, <3>1 DEF DownloadsWereOffered
    <3> QED BY <2>1, <3>1, <3>2
  <2>3. CASE j \notin DOMAIN events[d]
    <3>1. ASSUME NEW e, Appended(d, e) PROVE events'[d][j] = e
      BY <2>3, <3>1 DEF Appended
    <3>2. ASSUME NEW r \in Requests, LogTransition(r), Appended(d, MoveOf(r)) PROVE FALSE
      BY <1>3, <3>1, <3>2, TransitionLogged
    <3>3. ASSUME NEW r \in Requests, Appended(d, OfferOf(r)) PROVE FALSE
      BY <1>3, <3>1, <3>3 DEF OfferOf
    <3>4. PICK i \in links : Appended(d, DownloadOf(i))
      BY <2>3, <3>2, <3>3, LogOf
    <3>5. events'[d][j].to = firmware[i].version
      BY <3>1, <3>4 DEF DownloadOf
    <3> QED BY <2>1, <3>5
  <2> QED BY <2>2, <2>3
<1> QED BY <1>2, <1>3 DEF DownloadsWereOffered

-----------------------------------------------------------------------------
(* No more repetitions of an offer than there are requests at a time.      *)
LEMMA PendingFinite ==
    ASSUME NEW d, NEW e
    PROVE  /\ Pending(d, e) \subseteq Requests /\ IsFiniteSet(Pending(d, e))
           /\ Cardinality(Requests) \in Nat /\ Cardinality(Pending(d, e)) \in Nat
           /\ Cardinality(Pending(d, e)) <= Cardinality(Requests)
<1>1. Pending(d, e) \subseteq Requests
  BY DEF Pending
<1> QED BY <1>1, CheckInAssumption, FS_Subset, FS_CardinalityType

(* A request about to log an offer goes on being about to log that offer.  *)
LEMMA PendingKept ==
    ASSUME TypeOK, CallsKnown, OfferFits, [Next]_vars, NEW q \in Requests, pc'[q] = "log offer"
    PROVE  /\ Of(q)' = Of(q) /\ Of(q) \in Devices /\ OfferOf(q)' = OfferOf(q)
           /\ Same(q) \/ News(q)
<1>1. /\ Of(q)' = Of(q) /\ call'[q] = call[q]
      /\ pc[q] \in Offering /\ offer'[q] = offer[q]
  BY CallKept DEF Offering
<1>2. firmware'[offer[q]].version = firmware[offer[q]].version /\ Of(q) \in Devices
  BY <1>1, OfferedTyped, FirmwareKeeps
<1>3. Serve(q) => News(q)
  BY Arrivals
<1>4. Same(q) \/ News(q)
  BY <1>3, Local
<1> QED BY <1>1, <1>2, <1>4 DEF OfferOf

LEMMA StepTail ==
    ASSUME TypeOK, CallsKnown, Moving, OfferFits, TailBounded, [Next]_vars
    PROVE  TailBounded'
<1> SUFFICES ASSUME NEW d \in Devices, NEW k \in 1 .. Len(events'[d]),
                    Newest(d)'.type = "check", EndsAlike(events[d], k)'
             PROVE  k + Cardinality(Pending(d, Newest(d))') <= Cardinality(Requests)
  BY DEF TailBounded, TailWithin
<1> DEFINE N == Cardinality(Requests)
           n == Len(events[d])
           P == Pending(d, Newest(d))
           Q == Pending(d, Newest(d))'
<1>1. n \in Nat /\ Len(events'[d]) \in Nat /\ N \in Nat
  <2>1. N \in Nat
    BY CheckInAssumption, FS_CardinalityType
  <2>2. n \in Nat
    BY LenProperties DEF TypeOK
  <2> HIDE DEF N
  <2>3. Len(events'[d]) \in {n, n + 1}
    BY LogOf DEF Appended
  <2> QED BY <2>1, <2>2, <2>3
<1>2. CASE events'[d] = events[d]
  <2>0. events[d] # <<>>
    <3>1. n # 0
      BY <1>1, <1>2
    <3> QED BY <3>1, EmptySeq
  <2>1. Newest(d)' = Newest(d) /\ EndsAlike(events[d], k) /\ k \in 1 .. n
    BY <1>2 DEF Newest, EndsAlike
  <2>2. Q \subseteq P
    <3> SUFFICES ASSUME NEW q \in Requests, pc'[q] = "log offer", Of(q)' = d, OfferOf(q)' = Newest(d)'
                 PROVE  q \in P
      BY DEF Pending
    <3>1. Of(q) = d /\ OfferOf(q) = Newest(d) /\ (Same(q) \/ News(q))
      BY <2>1, PendingKept
    <3>2. ~News(q)
      <4>1. SUFFICES ASSUME News(q) PROVE LogEndsWithOffer(q)
        BY <4>1 DEF News, Goto, TypeOK
      <4> QED BY <2>0, <3>1 DEF LogEndsWithOffer, OfferOf, Newest
    <3> QED BY <3>1, <3>2 DEF Pending, Same
  <2>3. Cardinality(Q) \in Nat /\ Cardinality(P) \in Nat /\ Cardinality(Q) <= Cardinality(P)
    BY <2>2, PendingFinite, FS_Subset, FS_CardinalityType
  <2>4. k + Cardinality(P) <= N
    BY <2>1 DEF TailBounded, TailWithin
  <2> HIDE DEF N, P, Q
  <2> QED BY <1>1, <2>3, <2>4 DEF N, Q
<1>3. ASSUME NEW r \in Requests, LogTransition(r), Appended(d, MoveOf(r)) PROVE FALSE
  BY <1>3, TransitionLogged DEF Appended, Newest
<1>4. ASSUME NEW i \in links, Appended(d, DownloadOf(i)) PROVE FALSE
  BY <1>4 DEF Appended, DownloadOf, Newest
<1>5. ASSUME NEW r \in Requests, LogOffer(r), Of(r) = d, Appended(d, OfferOf(r))
      PROVE  k + Cardinality(Q) <= N
  <2> DEFINE R == Pending(d, OfferOf(r))
  <2>1. Newest(d)' = OfferOf(r) /\ Len(events'[d]) = n + 1
    BY <1>5 DEF Appended, Newest
  <2>2. r \in R
    BY <1>5 DEF Pending, LogOffer
  <2>3. pc' = [pc EXCEPT ![r] = "offered"] /\ UNCHANGED <<firmware, call, offer>>
    BY <1>5 DEF LogOffer, Goto, locals
  <2>4. Q \subseteq R \ {r}
    <3>1. \A q \in Requests : pc'[q] = "log offer" => pc[q] = "log offer" /\ q # r
      BY <2>3 DEF TypeOK
    <3>2. \A q \in Requests : Of(q)' = Of(q) /\ OfferOf(q)' = OfferOf(q)
      BY <2>3 DEF Of, OfferOf
    <3> QED BY <2>1, <3>1, <3>2 DEF Pending
  <2>5. /\ Cardinality(R) \in Nat /\ Cardinality(Q) \in Nat
        /\ Cardinality(Q) <= Cardinality(R) - 1 /\ Cardinality(R) <= N
    <3>1. IsFiniteSet(R \ {r}) /\ Cardinality(R \ {r}) = Cardinality(R) - 1
      BY <2>2, PendingFinite, FS_RemoveElement
    <3>2. IsFiniteSet(Q) /\ Cardinality(Q) <= Cardinality(R \ {r})
      BY <2>4, <3>1, FS_Subset
    <3> QED BY <3>1, <3>2, PendingFinite, FS_CardinalityType
  <2>6. k # 1 => k - 1 + Cardinality(R) <= N
    <3> SUFFICES ASSUME k # 1 PROVE k - 1 + Cardinality(R) <= N
      OBVIOUS
    <3>1. k - 1 \in 1 .. n
      BY <1>1, <2>1
    <3>2. ASSUME NEW j \in n - (k - 1) + 1 .. n
          PROVE  events'[d][j] = OfferOf(r) /\ events'[d][j] = events[d][j]
      <4>1. j \in Len(events'[d]) - k + 1 .. Len(events'[d]) /\ j \in 1 .. n
        BY <1>1, <2>1, <3>1
      <4>2. events'[d][j] = Newest(d)'
        BY <4>1 DEF EndsAlike, Newest
      <4>3. events'[d][j] = events[d][j]
        BY <1>5, <4>1 DEF Appended
      <4> QED BY <2>1, <4>2, <4>3
    <3>3. Newest(d) = OfferOf(r)
      BY <1>1, <3>1, <3>2 DEF Newest
    <3>4. EndsAlike(events[d], k - 1)
      BY <3>2, <3>3 DEF EndsAlike, Newest
    <3>5. OfferOf(r).type = "check"
      BY DEF OfferOf
    <3> QED BY <3>1, <3>3, <3>4, <3>5 DEF TailBounded, TailWithin
  <2> HIDE DEF N, Q, R, n
  <2>7. k \in Int
    BY <1>1
  <2> QED BY <1>1, <2>5, <2>6, <2>7
<1> QED BY <1>2, <1>3, <1>4, <1>5, LogOf

LEMMA StepRepeats ==
    ASSUME TypeOK, CallsKnown, Moving, OfferFits, RepeatsBounded, TailBounded', [Next]_vars
    PROVE  RepeatsBounded'
<1> DEFINE N == Cardinality(Requests)
<1>1. N \in Nat
  BY PendingFinite
<1> HIDE DEF N
<1> SUFFICES ASSUME NEW d \in Devices, NEW i \in 1 .. Len(events'[d]) - N,
                    events'[d][i].type = "check",
                    \A j \in i + 1 .. i + N : events'[d][j] = events'[d][i]
             PROVE  FALSE
  BY DEF RepeatsBounded, N
<1>2. /\ DOMAIN events[d] = 1 .. Len(events[d]) /\ Len(events[d]) \in Nat
      /\ Len(events'[d]) \in {Len(events[d]), Len(events[d]) + 1}
  BY LogOf, LenProperties DEF Appended, TypeOK
<1>3. CASE i <= Len(events[d]) - N
  <2>1. \A j \in i .. i + N : events'[d][j] = events[d][j]
    BY <1>1, <1>2, <1>3, LogKept
  <2>2. PICK j \in i + 1 .. i + N : events[d][j] # events[d][i]
    <3>1. events[d][i].type = "check" /\ i \in 1 .. Len(events[d]) - N
      BY <1>1, <1>2, <1>3, <2>1
    <3> QED BY <3>1 DEF RepeatsBounded, N
  <2> QED BY <1>1, <1>2, <2>1, <2>2
<1>4. CASE i > Len(events[d]) - N
  <2>1. i + N = Len(events'[d]) /\ N + 1 \in 1 .. Len(events'[d])
    <3>1. Len(events'[d]) \in Nat /\ Len(events'[d]) <= Len(events[d]) + 1
      BY <1>2
    <3>2. i \in Nat /\ 1 <= i /\ i <= Len(events'[d]) - N
      BY <1>1, <3>1
    <3> QED BY <1>1, <1>2, <1>4, <3>1, <3>2
  <2>2. \A j \in i .. i + N : events'[d][j] = events'[d][i]
    <3>1. i \in Nat /\ N \in Nat
      BY <1>1, <1>2
    <3>2. \A j \in i .. i + N : j = i \/ j \in i + 1 .. i + N
      BY <3>1
    <3> QED BY <1>1, <3>2
  <2>3. EndsAlike(events[d], N + 1)' /\ Newest(d)'.type = "check"
    BY <1>1, <1>2, <2>1, <2>2 DEF EndsAlike, Newest
  <2> DEFINE Q == Pending(d, Newest(d))'
  <2>4. Cardinality(Q) \in Nat
    <3>1. Q \subseteq Requests
      BY DEF Pending
    <3> QED BY <3>1, CheckInAssumption, FS_Subset, FS_CardinalityType
  <2>5. N + 1 + Cardinality(Q) <= N
    BY <2>1, <2>3 DEF TailBounded, TailWithin, N
  <2> HIDE DEF Q
  <2> QED BY <1>1, <2>4, <2>5
<1> QED BY <1>1, <1>2, <1>3, <1>4

-----------------------------------------------------------------------------
(* The history of a unit, as its log grows.                                *)
LEMMA ReachedSame ==
    ASSUME NEW d \in Devices, events'[d] = events[d], first'[d] = first[d]
    PROVE  Moves(d)' = Moves(d) /\ Reached(d)' = Reached(d)
BY DEF Moves, Reached

LEMMA ReachedOther ==
    ASSUME NEW d \in Devices, NEW e, Appended(d, e), e.type \notin {"success", "rollback"},
           first'[d] = first[d], LastMove(d)
    PROVE  Moves(d)' = Moves(d) /\ Reached(d)' = Reached(d)
<1>1. Moves(d)' = Moves(d)
  BY DEF Moves, Appended
<1>2. CASE Moves(d) = {}
  BY <1>1, <1>2 DEF Reached
<1>3. CASE Moves(d) # {}
  <2> DEFINE i == CHOOSE i \in Moves(d) : \A j \in Moves(d) : j <= i
  <2>1. i \in Moves(d)
    BY <1>3 DEF LastMove
  <2>2. i \in 1 .. Len(events[d])
    BY <2>1 DEF Moves, Appended
  <2>3. events'[d][i] = events[d][i]
    BY <2>2 DEF Appended
  <2> QED BY <1>1, <1>3, <2>3 DEF Reached
<1> QED BY <1>2, <1>3

LEMMA ReachedMove ==
    ASSUME NEW d \in Devices, NEW r \in Requests, Appended(d, MoveOf(r)),
           MoveOf(r).type \in {"success", "rollback"}
    PROVE  /\ \E i \in Moves(d)' : \A j \in Moves(d)' : j <= i
           /\ Reached(d)' = call[r].version
<1> DEFINE n == Len(events[d])
           M == Moves(d)'
<1>1. n \in Nat /\ n + 1 \in M /\ M \subseteq 1 .. n + 1
  <2>1. /\ n \in Nat /\ DOMAIN events'[d] = 1 .. n + 1
        /\ events'[d][n + 1] = MoveOf(r)
    BY DEF Appended
  <2>2. n + 1 \in DOMAIN events'[d]
    BY <2>1
  <2>3. M = {i \in DOMAIN events'[d] : events'[d][i].type \in {"success", "rollback"}}
    BY DEF Moves
  <2> HIDE DEF n, M
  <2> QED BY <2>1, <2>2, <2>3
<1>2. events'[d][n + 1].to = call[r].version
  BY DEF Appended, MoveOf
<1>3. Reached(d)' = events'[d][CHOOSE i \in M : \A j \in M : j <= i].to
  BY <1>1 DEF Reached
<1> HIDE DEF n, M
<1>4. \A j \in M : j <= n + 1
  BY <1>1
<1>5. (CHOOSE i \in M : \A j \in M : j <= i) = n + 1
  <2> DEFINE last == CHOOSE i \in M : \A j \in M : j <= i
  <2>1. last \in M /\ \A j \in M : j <= last
    BY <1>1, <1>4
  <2> HIDE DEF last
  <2>2. last = n + 1
    BY <1>1, <1>4, <2>1
  <2> QED BY <2>2 DEF last
<1> QED BY <1>1, <1>2, <1>3, <1>4, <1>5 DEF M

(* A history that has come to no version has no moves.                     *)
LEMMA ReachedNone ==
    ASSUME TypeOK, NEW d \in Devices, LastMove(d), Reached(d) = NoVersion
    PROVE  Moves(d) = {} /\ first[d] = NoVersion
<1>1. CASE Moves(d) # {}
  <2> DEFINE i == CHOOSE i \in Moves(d) : \A j \in Moves(d) : j <= i
  <2>1. i \in DOMAIN events[d]
    BY <1>1 DEF LastMove, Moves
  <2>2. events[d][i] \in Events
    BY <2>1, ElementOfSeq, LenProperties DEF TypeOK
  <2>3. events[d][i].to # NoVersion
    BY <2>2, CheckInAssumption DEF Events
  <2> QED BY <1>1, <2>3 DEF Reached
<1> QED BY <1>1 DEF Reached

LEMMA StepLastMove ==
    ASSUME TypeOK, CallsKnown, RowsHeld, Moving, Recording, OfferFits, [Next]_vars,
           NEW d \in Devices, LastMove(d)
    PROVE  LastMove(d)'
<1>1. first[d] # NoVersion => first'[d] # NoVersion
  BY WritersOf, FlushRecords
<1>2. CASE events'[d] = events[d]
  BY <1>1, <1>2 DEF LastMove, Moves
<1>3. ASSUME NEW e, Appended(d, e), e.type \notin {"success", "rollback"}
      PROVE  LastMove(d)'
  <2>1. Moves(d)' = Moves(d)
    BY <1>3 DEF Moves, Appended
  <2> QED BY <1>1, <2>1 DEF LastMove
<1>4. ASSUME NEW r \in Requests, LogTransition(r), Of(r) = d, Appended(d, MoveOf(r))
      PROVE  LastMove(d)'
  <2>1. first[d] # NoVersion
    BY <1>4 DEF Recording, LogTransition
  <2>2. MoveOf(r).type \in {"success", "rollback"}
    BY <1>4, TransitionLogged
  <2> QED BY <1>1, <1>4, <2>1, <2>2, ReachedMove DEF LastMove
<1> QED BY <1>2, <1>3, <1>4, LogOf DEF OfferOf, DownloadOf

-----------------------------------------------------------------------------
(* One check-in at a time.                                                 *)
LEMMA StillUnderWay ==
    ASSUME TypeOK, [Next]_vars, NEW q \in Requests, pc'[q] \in UnderWay
    PROVE  \/ pc[q] \in UnderWay /\ Of(q)' = Of(q)
           \/ \E c \in Calls : Send(q, c) /\ Of(q)' = c.device
<1>1. CASE Same(q)
  BY <1>1 DEF Same, Of
<1>2. CASE Serve(q) /\ pc'[q] = "sent"
  BY <1>2, Arrivals DEF Of
<1>3. CASE Serve(q) /\ pc'[q] # "sent"
  <2>1. pc[q] # "offered"
    BY <1>3, Arrivals DEF UnderWay, Admit, Load, Flush, LogTransition, Lookup, News
  <2>2. pc[q] # "idle" /\ Of(q)' = Of(q)
    BY <1>3, CallKept DEF UnderWay
  <2> QED BY <2>1, <2>2 DEF TypeOK
<1> QED BY <1>1, <1>2, <1>3, Local

LEMMA MuddledStays ==
    ASSUME [Next]_vars
    PROVE  muddled \subseteq muddled'
BY Writers DEF Fail, Send

LEMMA StepAlone ==
    ASSUME TypeOK, [Next]_vars, NEW d \in Devices \ muddled', Alone(d)
    PROVE  Alone(d)'
<1> SUFFICES ASSUME NEW q \in Requests, NEW r \in Requests,
                    pc'[q] \in UnderWay, pc'[r] \in UnderWay, Of(q)' = d, Of(r)' = d
             PROVE  q = r
  BY DEF Alone
<1>1. ASSUME NEW s \in Requests, NEW t \in Requests, NEW c \in Calls,
             Send(s, c), c.device = d, pc'[t] \in UnderWay, Of(t)' = d
      PROVE  s = t
  <2> SUFFICES ASSUME s # t PROVE FALSE
    OBVIOUS
  <2>1. Same(t)
    BY <1>1, Others DEF Serve
  <2>2. pc[t] \in UnderWay /\ Of(t) = c.device
    BY <1>1, <2>1 DEF Same, Of
  <2> QED BY <1>1, <2>2 DEF Send
<1>2. CASE \E c \in Calls : Send(q, c) /\ Of(q)' = c.device
  BY <1>1, <1>2
<1>3. CASE \E c \in Calls : Send(r, c) /\ Of(r)' = c.device
  BY <1>1, <1>3
<1>4. CASE pc[q] \in UnderWay /\ Of(q)' = Of(q) /\ pc[r] \in UnderWay /\ Of(r)' = Of(r)
  BY <1>4 DEF Alone
<1> QED BY <1>2, <1>3, <1>4, StillUnderWay

(* What the only check-in under way has read is what the row still says.   *)
LEMMA FlushAlone ==
    ASSUME TypeOK, CallsKnown, RowsHeld, Recording, NEW r \in Requests, Flush(r), UpToDate(Of(r))
    PROVE  /\ row[Of(r)].version = previous[r]
           /\ row'[Of(r)].version = call[r].version
<1>1. pc[r] = "flush" /\ row[Of(r)].version = previous[r] /\ row[Of(r)].version = loaded[r]
  BY DEF Flush, UpToDate
<1> QED BY <1>1, FlushRecords DEF Recorded

LEMMA StepUpToDate ==
    ASSUME TypeOK, CallsKnown, RowsHeld, Recording, [Next]_vars,
           NEW d \in Devices, Alone(d), UpToDate(d)
    PROVE  UpToDate(d)'
<1> SUFFICES ASSUME NEW r \in Requests, pc'[r] \in {"record", "flush", "transition"}, Of(r)' = d
             PROVE  /\ pc'[r] \in {"record", "flush"} => previous'[r] = row'[d].version
                    /\ pc'[r] = "flush" => loaded'[r] = row'[d].version
                    /\ pc'[r] = "transition" => call'[r].version = row'[d].version
  BY DEF UpToDate
<1>1. pc[r] # "idle" /\ Of(r) = d /\ call'[r] = call[r]
  BY CallKept
<1>2. CASE Same(r)
  <2>1. pc[r] \in {"record", "flush", "transition"} /\ row[d] # NoRow
    BY <1>1, <1>2 DEF Same, RowsHeld, PastAdmission
  <2>2. ASSUME NEW q \in Requests, Flush(q), Of(q) = d PROVE FALSE
    <3>1. q = r
      BY <1>1, <2>1, <2>2 DEF Alone, UnderWay, Flush
    <3> QED BY <1>2, <2>2, <3>1 DEF Same, Flush, Goto, AfterRecording, TypeOK
  <2>3. row'[d].version = row[d].version
    BY <2>1, <2>2, RowKeeps
  <2> QED BY <1>1, <1>2, <2>1, <2>3 DEF Same, UpToDate
<1>3. CASE Admit(r)
  BY <1>1, <1>3 DEF Admit, Goto, tables, TypeOK
<1>4. CASE Load(r)
  <2>1. pc'[r] = "flush" /\ loaded'[r] = row[d].version /\ previous' = previous /\ row' = row
    BY <1>1, <1>4 DEF Load, Goto, tables, TypeOK
  <2> QED BY <1>1, <1>4, <2>1 DEF Load, UpToDate
<1>5. CASE Flush(r)
  <2>1. pc'[r] = "transition"
    BY <1>5 DEF Flush, Goto, AfterRecording, TypeOK
  <2> QED BY <1>1, <1>5, <2>1, FlushAlone
<1>6. Same(r) \/ Admit(r) \/ Load(r) \/ Flush(r)
  <2>1. Serve(r) => Admit(r) \/ Load(r) \/ Flush(r)
    BY Arrivals
  <2> QED BY <2>1, Local
<1> QED BY <1>2, <1>3, <1>4, <1>5, <1>6

(* A move that was about to be logged is logged, or the unit is muddled.   *)
LEMMA LoggedBefore ==
    ASSUME TypeOK, [Next]_vars, NEW d \in Devices \ muddled', Logged(d)',
           NEW q \in Requests, pc[q] = "transition", Of(q) = d
    PROVE  LogTransition(q)
<1>1. ~Same(q)
  BY DEF Same, Logged, Of
<1>2. ~Fail(q)
  BY DEF Fail
<1>3. Serve(q)
  BY <1>1, Local
<1> QED
  BY <1>2, <1>3, Steps DEF Send, TurnAway, Admit, Load, Flush, NothingToOffer, Lookup, News, LogOffer,
     Answer, Leave

(* A unit that is registered has no version yet, and no history.           *)
LEMMA Registered ==
    ASSUME TypeOK, CallsKnown, RowsHeld, Moving, OfferFits, [Next]_vars,
           NEW d \in Devices, row[d] = NoRow, row'[d] # NoRow
    PROVE  Reached(d)' = row'[d].version
<1>1. ASSUME NEW r \in Requests, pc[r] \in PastAdmission PROVE Of(r) # d
  BY <1>1 DEF RowsHeld
<1>2. first'[d] = NoVersion /\ Moves(d)' = {}
  <2>1. first'[d] = first[d]
    BY <1>1, WritersOf DEF PastAdmission, Flush
  <2>2. events'[d] = events[d] \/ \E i \in links : Appended(d, DownloadOf(i))
    BY <1>1, LogOf DEF LogTransition, LogOffer, PastAdmission
  <2> QED BY <2>1, <2>2, StrangersMoveNothing DEF RowsHeld, Moves
<1>3. Reached(d)' = NoVersion
  BY <1>2 DEF Reached
<1>4. ASSUME NEW r \in Requests, Flush(r) PROVE FALSE
  BY <1>1, <1>4 DEF Flush, PastAdmission, TypeOK
<1>5. ASSUME NEW new \in Registrations, Register(new) PROVE row'[d].version = NoVersion
  BY <1>5 DEF Register, TypeOK
<1>6. ASSUME NEW c \in Devices, NEW owner \in Owners, NEW enabled \in BOOLEAN,
             SetEnabled(c, owner, enabled)
      PROVE  FALSE
  <2>1. c # d
    BY <1>6 DEF SetEnabled
  <2>2. row'[d] = row[d]
    BY <1>6, <2>1 DEF SetEnabled, TypeOK
  <2> QED BY <2>2
<1> QED BY <1>3, <1>4, <1>5, <1>6, Writers

(* The history follows a flush: either it is the unit's first version, or  *)
(* the version is the one the unit had.                                    *)
LEMMA FlushExplained ==
    ASSUME TypeOK, CallsKnown, RowsHeld, Recording, NEW r \in Requests, NEW d \in Devices,
           Flush(r), Of(r) = d, Alone(d), UpToDate(d), LastMove(d),
           Logged(d) => Reached(d) = row[d].version,
           Logged(d)'
    PROVE  Reached(d)' = row'[d].version
<1>1. call[r].version \in Versions
  BY CallTyped DEF Flush
<1>2. Reached(d) = row[d].version
  BY DEF Logged, Alone, UnderWay, Flush
<1>3. Transition(previous[r], call[r].version) = "none"
  <2>1. pc'[r] = AfterRecording(r) /\ Of(r)' = d
    BY DEF Flush, Goto, TypeOK, Of, locals
  <2> QED BY <2>1 DEF AfterRecording, Logged
<1>4. events' = events /\ Moves(d)' = Moves(d)
  BY DEF Flush, Moves
<1>5. row[d].version = previous[r] /\ row'[d].version = call[r].version
  <2>1. UpToDate(Of(r))
    OBVIOUS
  <2> QED BY <2>1, FlushAlone
<1>6. CASE previous[r] = NoVersion
  <2>1. Moves(d) = {} /\ first[d] = NoVersion
    BY <1>1, <1>2, <1>5, <1>6, ReachedNone
  <2>2. first'[d] = call[r].version
    <3>1. first'[d] = Recorded(r, d)
      BY <2>1, FlushRecords
    <3>2. row'[d].version = Recorded(r, d)
      BY FlushRecords
    <3> QED BY <1>5, <3>1, <3>2
  <2> QED BY <1>4, <1>5, <2>1, <2>2 DEF Reached
<1>7. CASE previous[r] # NoVersion
  <2>1. previous[r] \in ParsedVersions /\ call[r].version \in ParsedVersions
    BY <1>1, <1>7, CheckInAssumption DEF TypeOK
  <2>2. ~IsVersionNewer(call[r].version, previous[r]) /\ ~IsVersionNewer(previous[r], call[r].version)
    BY <1>3, <1>7 DEF Transition
  <2>3. call[r].version = previous[r]
    BY <2>1, <2>2, Total
  <2>4. Moves(d) = {} => first'[d] = first[d]
    BY <1>2, <1>5, <1>7, FlushRecords DEF Reached
  <2> QED BY <1>2, <1>4, <1>5, <2>3, <2>4 DEF Reached
<1> QED BY <1>6, <1>7

LEMMA StepExplicable ==
    ASSUME TypeOK, CallsKnown, RowsHeld, Moving, Recording, OfferFits, Explicable, [Next]_vars
    PROVE  Explicable'
<1>1. ASSUME NEW d \in Devices PROVE LastMove(d)'
  BY StepLastMove DEF Explicable
<1>2. ASSUME NEW d \in Devices \ muddled'
      PROVE  /\ LastMove(d) /\ Alone(d) /\ UpToDate(d)
             /\ row[d] # NoRow /\ Logged(d) => Reached(d) = row[d].version
  BY MuddledStays DEF Explicable
<1>3. ASSUME NEW d \in Devices \ muddled' PROVE Alone(d)'
  BY <1>2, StepAlone
<1>4. ASSUME NEW d \in Devices \ muddled' PROVE UpToDate(d)'
  BY <1>2, StepUpToDate
<1>5. ASSUME NEW d \in Devices \ muddled', row'[d] # NoRow, Logged(d)'
      PROVE  Reached(d)' = row'[d].version
  <2>1. CASE row[d] = NoRow
    BY <1>5, <2>1, Registered
  <2> SUFFICES ASSUME row[d] # NoRow PROVE Reached(d)' = row'[d].version
    BY <2>1
  <2>2. ASSUME NEW r \in Requests, Flush(r), Of(r) = d PROVE Reached(d)' = row'[d].version
    BY <1>2, <1>5, <2>2, FlushExplained
  <2>3. ASSUME NEW r \in Requests, LogTransition(r), Of(r) = d PROVE Reached(d)' = row'[d].version
    <3>1. Appended(d, MoveOf(r)) /\ MoveOf(r).type \in {"success", "rollback"}
      BY <2>3, LogStep, TransitionLogged
    <3>2. Reached(d)' = call[r].version
      BY <3>1, ReachedMove
    <3>3. call[r].version = row[d].version /\ row' = row
      BY <1>2, <2>3 DEF UpToDate, LogTransition
    <3> QED BY <3>2, <3>3
  <2>4. ASSUME \A r \in Requests : Of(r) = d => ~Flush(r) /\ ~LogTransition(r)
        PROVE  Reached(d)' = row'[d].version
    <3>1. first'[d] = first[d]
      BY <2>4, WritersOf
    <3>2. row'[d].version = row[d].version
      BY <2>4, RowKeeps
    <3>3. Logged(d)
      BY <1>5, <2>4, LoggedBefore DEF Logged
    <3>4. Reached(d)' = Reached(d)
      <4>1. CASE events'[d] = events[d]
        BY <3>1, <4>1, ReachedSame
      <4>2. ASSUME NEW e, Appended(d, e), e.type \in {"check", "download"} PROVE Reached(d)' = Reached(d)
        BY <1>2, <3>1, <4>2, ReachedOther
      <4>3. /\ \A r \in Requests : OfferOf(r).type = "check"
            /\ \A i \in links : DownloadOf(i).type = "download"
        BY DEF OfferOf, DownloadOf
      <4> QED BY <2>4, <4>1, <4>2, <4>3, LogOf
    <3> QED BY <1>2, <3>2, <3>3, <3>4
  <2> QED BY <2>2, <2>3, <2>4
<1> QED BY <1>1, <1>3, <1>4, <1>5 DEF Explicable

-----------------------------------------------------------------------------
(* The inductive invariant.                                                *)
LEMMA InitHolds == Init => IInv
<1> SUFFICES ASSUME Init PROVE IInv
  OBVIOUS
<1>1. /\ firmware = <<>>
      /\ row = [d \in Devices |-> NoRow]
      /\ events = [d \in Devices |-> <<>>]
      /\ pc = [r \in Requests |-> "idle"]
      /\ call = [r \in Requests |-> NoCall]
      /\ previous = [r \in Requests |-> NoVersion]
      /\ loaded = [r \in Requests |-> NoVersion]
      /\ offer = [r \in Requests |-> 0]
      /\ links = {}
      /\ first = [d \in Devices |-> NoVersion]
      /\ muddled = {}
  BY DEF Init, CatalogueInit
<1>2. TypeOK
  BY <1>1, EmptySeq DEF TypeOK
<1>3. \A d \in Devices : Len(events[d]) = 0 /\ DOMAIN events[d] = {} /\ Moves(d) = {}
  BY <1>1, EmptySeq DEF Moves
<1>4. CallsKnown /\ RowsHeld /\ Moving /\ Recording
  BY <1>1, <1>3 DEF CallsKnown, RowsHeld, Moving, Recording, PastAdmission
<1>5. OfferFits /\ OfferLogged
  BY <1>1 DEF OfferFits, OfferLogged
<1>6. DownloadsWereOffered /\ TailBounded
  BY <1>1, <1>3 DEF DownloadsWereOffered, TailBounded
<1>7. RepeatsBounded
  <2>1. Cardinality(Requests) \in Nat
    BY CheckInAssumption, FS_CardinalityType
  <2> QED BY <1>3, <2>1 DEF RepeatsBounded
<1>8. Explicable
  BY <1>1, <1>3 DEF Explicable, LastMove, Alone, UpToDate, UnderWay
<1> QED BY <1>2, <1>4, <1>5, <1>6, <1>7, <1>8 DEF IInv

LEMMA StepHolds == IInv /\ [Next]_vars => IInv'
<1> SUFFICES ASSUME IInv, [Next]_vars PROVE IInv'
  OBVIOUS
<1>1. /\ TypeOK /\ CallsKnown /\ RowsHeld /\ Moving /\ Recording
      /\ OfferFits /\ OfferLogged /\ DownloadsWereOffered
      /\ TailBounded /\ RepeatsBounded /\ Explicable
  BY DEF IInv
<1>2. TypeOK' /\ CallsKnown' /\ RowsHeld' /\ Moving' /\ Recording'
  BY <1>1, StepTyped, StepCallsKnown, StepRowsHeld, StepMoving, StepRecording
<1>3. OfferFits' /\ OfferLogged' /\ DownloadsWereOffered'
  BY <1>1, StepOfferFits, StepOfferLogged, StepDownloads
<1>4. TailBounded' /\ RepeatsBounded'
  BY <1>1, StepTail, StepRepeats
<1>5. Explicable'
  BY <1>1, StepExplicable
<1> QED BY <1>2, <1>3, <1>4, <1>5 DEF IInv

(* Whatever the interleaving of check-ins, the dashboard and failures, the *)
(* state is one of the inductive invariant.                                *)
THEOREM Invariant == Spec => []IInv
<1>1. Init => IInv
  BY InitHolds
<1>2. IInv /\ [Next]_vars => IInv'
  BY StepHolds
<1> QED BY <1>1, <1>2, PTL DEF Spec

(* The tables and the requests keep their types.                           *)
THEOREM TypeCorrect == Spec => []TypeOK
<1>1. IInv => TypeOK
  BY DEF IInv
<1> QED BY <1>1, Invariant, PTL

(* However the catalogue changes under a request, what a unit is handed is *)
(* its own account's, for its own model, and newer than what it runs.      *)
THEOREM OffersFit == Spec => []OfferFits
<1>1. IInv => OfferFits
  BY DEF IInv
<1> QED BY <1>1, Invariant, PTL

(* An offer that a unit cannot act on stands in a row in its log at most   *)
(* once for every request the server handles at a time.                    *)
THEOREM LogIsBounded == Spec => []RepeatsBounded
<1>1. IInv => RepeatsBounded
  BY DEF IInv
<1> QED BY <1>1, Invariant, PTL

(* Whatever link is out, the log says to which account and model it was    *)
(* offered, and whatever is downloaded, in whoever's name, some unit was   *)
(* offered.                                                                *)
THEOREM DownloadsFollowOffers == Spec => []DownloadsWereOffered
<1>1. IInv => DownloadsWereOffered
  BY DEF IInv
<1> QED BY <1>1, Invariant, PTL

(* A unit whose check-ins came one at a time, none breaking off between    *)
(* its two commits, has a log that explains the version in its row.        *)
THEOREM HistoryExplains == Spec => []HistoryExplainsRow
<1>1. IInv => HistoryExplainsRow
  <2> SUFFICES ASSUME IInv, NEW d \in Devices \ muddled, Quiet(d), row[d] # NoRow
               PROVE  Reached(d) = row[d].version
    BY DEF HistoryExplainsRow
  <2>1. Logged(d)
    BY DEF Quiet, Logged, UnderWay
  <2> QED BY <2>1 DEF IInv, Explicable
<1> QED BY <1>1, Invariant, PTL

(* Under a check-in the firmware table moves as the catalogue promises and *)
(* in no other way.                                                        *)
THEOREM ReadsTheCatalogue == Spec => CatalogueSpec
<1>1. Init => CatalogueInit
  BY DEF Init
<1>2. [Next]_vars => [CatalogueNext]_firmware
  <2>1. ASSUME NEW r \in Requests, Serve(r) PROVE firmware' = firmware
    BY <2>1, Steps DEF Send, TurnAway, Admit, Load, Flush, LogTransition, NothingToOffer,
       Lookup, News, LogOffer, Answer, Leave, Fail, tables
  <2>2. Dashboard \/ Downloads => CatalogueNext \/ firmware' = firmware
    BY DEF Dashboard, Register, SetEnabled, Downloads, Download
  <2> QED BY <2>1, <2>2 DEF Next, vars, tables
<1> QED BY <1>1, <1>2, PTL DEF Spec, CatalogueSpec

(* There is something to offer, and no two things: an account with active  *)
(* rows for a model has exactly one that is the latest, so that what a     *)
(* check-in answers is decided by the table alone.                         *)
OneLatest ==
    \A owner \in Owners, model \in Models :
        /\ Offered(owner, model) # {} => Latest(owner, model) # {}
        /\ \A i, j \in Latest(owner, model) : i = j

THEOREM LatestIsOne == Spec => []OneLatest
<1>1. ASSUME TypeOK, NEW owner \in Owners, NEW model \in Models
      PROVE  \A i \in Offered(owner, model) : /\ i \in Nat /\ i <= Len(firmware)
                                              /\ firmware[i].version \in ParsedVersions
  <2> SUFFICES ASSUME NEW i \in Offered(owner, model)
               PROVE  i \in Nat /\ i <= Len(firmware) /\ firmware[i].version \in ParsedVersions
    OBVIOUS
  <2>1. i \in DOMAIN firmware /\ firmware \in Seq(Rows)
    BY <1>1 DEF Offered, TypeOK
  <2>2. firmware[i] \in Rows /\ i \in Nat /\ i <= Len(firmware)
    BY <2>1, ElementOfSeq, LenProperties
  <2> QED BY <2>2, CheckInAssumption DEF Rows
<1>2. ASSUME TypeOK, NEW owner \in Owners, NEW model \in Models, Offered(owner, model) # {}
      PROVE  Latest(owner, model) # {}
  <2>1. Len(firmware) \in Nat
    BY <1>2, LenProperties DEF TypeOK
  <2>2. \E i \in Offered(owner, model) : First(firmware, Offered(owner, model), i)
    BY <1>1, <1>2, <2>1, SomeFirst
  <2> QED BY <2>2 DEF First, Latest
<1>3. ASSUME TypeOK, NEW owner \in Owners, NEW model \in Models,
             NEW i \in Latest(owner, model), NEW j \in Latest(owner, model)
      PROVE  i = j
  <2>1. /\ i \in Offered(owner, model) /\ j \in Offered(owner, model)
        /\ ~IsVersionNewer(firmware[j].version, firmware[i].version)
        /\ ~IsVersionNewer(firmware[i].version, firmware[j].version)
        /\ firmware[i].version = firmware[j].version => i <= j /\ j <= i
    BY <1>3 DEF Latest
  <2>2. /\ firmware[i].version \in ParsedVersions /\ firmware[j].version \in ParsedVersions
        /\ i \in Nat /\ j \in Nat
    BY <1>1, <1>3, <2>1
  <2>3. firmware[i].version = firmware[j].version
    BY <2>1, <2>2, Total
  <2> QED BY <2>1, <2>2, <2>3
<1>4. TypeOK => OneLatest
  BY <1>2, <1>3 DEF OneLatest
<1> QED BY <1>4, TypeCorrect, PTL
=============================================================================
