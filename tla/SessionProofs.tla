---------------------------- MODULE SessionProofs ----------------------------
(***************************************************************************)
(* The safety of the dashboard session, for any number of accounts, pages  *)
(* and handles: no login is ever renewed twice, a reset leaves nothing to  *)
(* renew, and the tab never presents a handle that it spent itself.  What  *)
(* carries it: one renewal at a time, and that no handle is held by two of *)
(* the session, the renewal and the login in flight in a way that one      *)
(* could be spent behind another's back.                                   *)
(***************************************************************************)
EXTENDS DashboardSession, SequenceTheorems, FiniteSetTheorems, TLAPS

(* Who waits, and for what: there is one renewal to wait for at a time.    *)
OneRenewal == \A r, s \in renewals : r = s

Waiting == {"renewing ahead", "renewing again"}

Waits ==
    /\ request \in [Requests -> [at : Places, on : Requests \cup {NoRequest}]]
    /\ \A c \in Requests : request[c].at \notin Waiting => request[c].on = NoRequest

(* Every handle that anybody holds was issued.                             *)
Issued ==
    /\ \A h \in 1 .. Len(granted) : granted[h].login <= Len(granted)
    /\ \A r \in renewals : r.handle <= Len(granted) /\ r.next <= Len(granted)
    /\ signIn.next <= Len(granted)
    /\ \A m \in mail : m.handle <= Len(granted)

(* What is sent and not waited for spends a handle the tab has written off.*)
MailExcused == \A m \in mail : m.handle \in excused

(* A renewal that was answered has a handle to give that is still good, or *)
(* was taken away by something else than the tab.                          *)
AnswersHold ==
    \A r \in renewals :
        /\ r.state = "sent" => r.next = 0
        /\ r.state = "answered" /\ r.next # 0 => r.next \in live \cup excused

(* So has a login, and nobody but the login holds that handle.             *)
SignInApart ==
    /\ signIn.state # "answered" => signIn.next = 0
    /\ signIn.state # "none" => signIn.account \in Accounts
    /\ signIn.state = "answered" =>
          /\ signIn.next # 0 /\ signIn.next \in live \cup excused
          /\ signIn.next # session
          /\ \A r \in renewals : r.handle # signIn.next /\ r.next # signIn.next

IInv ==
    /\ TypeOK
    /\ OneRenewal /\ Waits /\ Issued /\ MailExcused
    /\ AnswersHold /\ SignInApart
    /\ OneHandlePerLogin /\ ResetEndsSessions
    /\ NoSelfReplay /\ SessionCanBeRenewed
-----------------------------------------------------------------------------
(* What the tables of the server are to everything else: handles that are  *)
(* numbered in the order they are issued, and a history that only grows.   *)
ServerTyped ==
    /\ granted \in Seq(Grants) /\ Len(granted) <= MaxHandles
    /\ live \subseteq 1 .. Len(granted)
    /\ password \in [Accounts -> 0 .. MaxResets]
    /\ excused \subseteq 1 .. Len(granted)

LEMMA Issuing ==
    ASSUME ServerTyped, CanIssue, NEW a \in Accounts, NEW login \in Handles, NEW under \in 0 .. MaxResets,
           Issue(a, login, under)
    PROVE  /\ Len(granted) \in Nat /\ Fresh \in Handles /\ Fresh = Len(granted) + 1
           /\ granted' \in Seq(Grants) /\ Len(granted') = Fresh /\ Len(granted') <= MaxHandles
           /\ \A h \in 1 .. Len(granted) : granted'[h] = granted[h]
           /\ granted'[Fresh] = [account |-> a, login |-> login, password |-> under]
<1>1. Len(granted) \in Nat
  BY LenProperties DEF ServerTyped
<1>2. [account |-> a, login |-> login, password |-> under] \in Grants
  BY DEF Grants
<1>3. /\ granted' \in Seq(Grants) /\ Len(granted') = Len(granted) + 1
      /\ \A h \in 1 .. Len(granted) : granted'[h] = granted[h]
      /\ granted'[Len(granted) + 1] = [account |-> a, login |-> login, password |-> under]
  BY <1>2, AppendProperties DEF Issue, ServerTyped
<1>4. Len(granted) + 1 \in Handles /\ Len(granted) + 1 <= MaxHandles
  BY <1>1, SessionAssumption DEF Handles, CanIssue
<1> QED BY <1>1, <1>3, <1>4 DEF Fresh

(* A handle that is known was granted to an account, by a login.           *)
LEMMA Granted ==
    ASSUME ServerTyped, NEW h \in 1 .. Len(granted)
    PROVE  /\ granted[h].account \in Accounts /\ granted[h].login \in Handles
           /\ granted[h].password \in 0 .. MaxResets
<1>1. granted[h] \in Grants
  BY ElementOfSeq DEF ServerTyped
<1> QED BY <1>1 DEF Grants

(* A step of the server loses no handle but the one it spends, unless it   *)
(* goes into the history of what was lost.                                 *)
Keeps(spent) ==
    /\ ServerTyped'
    /\ Len(granted) \in Nat /\ Len(granted') \in {Len(granted), Len(granted) + 1}
    /\ excused \subseteq excused'
    /\ live \ {spent} \subseteq live' \cup excused'

LEMMA Renewing ==
    ASSUME ServerTyped, NEW h \in Handles, NEW next \in 0 .. MaxHandles, RenewAnswers(h, next),
           UNCHANGED password
    PROVE  /\ Keeps(h)
           /\ next = 0 => live \subseteq live' \cup excused'
           /\ next # 0 => next = Len(granted) + 1 /\ next = Len(granted') /\ next \in live'
<1>1. Len(granted) \in Nat
  BY LenProperties DEF ServerTyped
<1>2. CASE RenewUnknown(h) /\ next = 0 /\ UNCHANGED excused
  BY <1>1, <1>2 DEF RenewUnknown, Keeps, ServerTyped
<1>3. CASE RenewAged(h) /\ next = 0 /\ excused' = excused \cup {h}
  BY <1>1, <1>3 DEF RenewAged, Keeps, ServerTyped
<1>4. CASE RenewDisabled(h) /\ next = 0 /\ excused' = excused \cup OwnedBy(granted[h].account)
  BY <1>1, <1>4 DEF RenewDisabled, Keeps, ServerTyped, OwnedBy
<1>5. CASE RenewBroken(h) /\ next = 0 /\ excused' = excused \cup {h}
  BY <1>1, <1>5 DEF RenewBroken, Renewable, Keeps, ServerTyped
<1>6. CASE Rotate(h) /\ next = Fresh /\ UNCHANGED excused
  <2>1. h \in 1 .. Len(granted)
    BY <1>6 DEF Rotate, Renewable, ServerTyped
  <2>2. /\ Fresh = Len(granted) + 1 /\ granted' \in Seq(Grants)
        /\ Len(granted') = Fresh /\ Len(granted') <= MaxHandles
    BY <1>6, <2>1, Granted, Issuing DEF Rotate
  <2>3. live' = (live \ {h}) \cup {Fresh}
    BY <1>6 DEF Rotate
  <2>4. live' \subseteq 1 .. Len(granted') /\ excused' \subseteq 1 .. Len(granted')
    <3>1. 1 .. Len(granted) \subseteq 1 .. Len(granted') /\ Fresh \in 1 .. Len(granted')
      BY <1>1, <2>2
    <3> QED BY <1>6, <2>3, <3>1 DEF ServerTyped
  <2>5. ServerTyped'
    BY <2>2, <2>4 DEF ServerTyped
  <2>6. Keeps(h)
    BY <1>1, <1>6, <2>2, <2>3, <2>5 DEF Keeps
  <2> QED BY <1>1, <1>6, <2>2, <2>3, <2>6
<1> QED BY <1>2, <1>3, <1>4, <1>5, <1>6 DEF RenewAnswers

LEMMA TypedServer ==
    ASSUME TypeOK
    PROVE  ServerTyped
BY DEF TypeOK, ServerTyped

(* A step that issues nothing and ends nothing.                            *)
LEMMA KeepsAll ==
    ASSUME ServerTyped, UNCHANGED <<granted, live>>, password' \in [Accounts -> 0 .. MaxResets],
           excused \subseteq excused', excused' \subseteq 1 .. Len(granted), NEW spent
    PROVE  Keeps(spent)
<1>1. Len(granted) \in Nat
  BY LenProperties DEF ServerTyped
<1> QED BY <1>1 DEF Keeps, ServerTyped

LEMMA Held ==
    ASSUME TypeOK, Issued
    PROVE  /\ Len(granted) \in Nat
           /\ \A r \in renewals : /\ r \in Renewals /\ r.by \in Requests
                                  /\ r.handle \in 1 .. Len(granted) /\ r.handle \in Handles
                                  /\ r.next \in 0 .. Len(granted) /\ r.state \in {"sent", "answered"}
           /\ \A m \in mail : m.handle \in 1 .. Len(granted) /\ m.handle \in Handles
           /\ signIn.next \in 0 .. Len(granted)
<1>1. Len(granted) \in Nat
  BY LenProperties DEF TypeOK
<1>2. ASSUME NEW r \in renewals
      PROVE  /\ r \in Renewals /\ r.by \in Requests
             /\ r.handle \in 1 .. Len(granted) /\ r.handle \in Handles
             /\ r.next \in 0 .. Len(granted) /\ r.state \in {"sent", "answered"}
  <2>1. r \in Renewals
    BY DEF TypeOK
  <2> QED BY <1>1, <2>1, SessionAssumption DEF Renewals, Handles, Issued
<1>3. ASSUME NEW m \in mail PROVE m.handle \in 1 .. Len(granted) /\ m.handle \in Handles
  <2>1. m \in Mail
    BY DEF TypeOK
  <2> QED BY <1>1, <2>1, SessionAssumption DEF Mail, Handles, Issued
<1>4. signIn.next \in 0 .. Len(granted)
  <2>1. signIn \in SignIns
    BY DEF TypeOK
  <2> QED BY <1>1, <2>1, SessionAssumption DEF SignIns, Issued
<1> QED BY <1>1, <1>2, <1>3, <1>4

(* The steps that touch a handle's row or its history, and those that      *)
(* touch neither.                                                          *)
Quiet == UNCHANGED <<granted, live, password, torn>>

LEMMA TabQuiet ==
    ASSUME TypeOK, Issued, Tab
    PROVE  /\ Quiet /\ UNCHANGED active
           /\ excused \subseteq excused' /\ excused' \subseteq 1 .. Len(granted)
<1> USE DEF Quiet, server, history
<1>1. excused \subseteq 1 .. Len(granted)
  BY DEF TypeOK
<1>2. ASSUME NEW c \in Requests, Fetch(c) \/ FetchAhead(c) \/ FetchEnds(c) \/ FetchUnauthorized(c)
      PROVE  Quiet /\ UNCHANGED <<active, excused>>
  BY <1>2 DEF Fetch, FetchAhead, FetchEnds, FetchUnauthorized
<1>3. ASSUME NEW r \in renewals, RefreshAnswered(r)
      PROVE  Quiet /\ UNCHANGED <<active, excused>>
  BY <1>3 DEF RefreshAnswered
<1>4. ASSUME NEW r \in renewals, RefreshFails(r)
      PROVE  Quiet /\ UNCHANGED active /\ excused' = excused \cup {r.handle}
  BY <1>4 DEF RefreshFails
<1>5. CASE (\E a \in Accounts : Login(a)) \/ LoginAnswered \/ LoginFails
  BY <1>1, <1>5 DEF Login, LoginAnswered, LoginFails
<1>6. CASE Logout
  <2>1. session \in 0 .. Len(granted) /\ Len(granted) \in Nat /\ session # 0
    BY <1>6, Held DEF Logout, TypeOK
  <2>2. session \in 1 .. Len(granted)
    BY <2>1
  <2> QED BY <1>1, <1>6, <2>2 DEF Logout
<1>7. CASE Reload
  <2>1. {r.handle : r \in renewals} \subseteq 1 .. Len(granted)
    BY Held
  <2> QED BY <1>1, <1>7, <2>1 DEF Reload
<1> QED BY <1>1, <1>2, <1>3, <1>4, <1>5, <1>6, <1>7, Held DEF Tab

LEMMA MailKeeps ==
    ASSUME TypeOK, Issued, MailExcused, NEW m \in mail, ServeMail(m)
    PROVE  Keeps(0)
<1>1. ServerTyped /\ m.handle \in excused /\ m.handle \in Handles
  BY TypedServer, Held DEF MailExcused
<1>2. password' = password
  BY DEF ServeMail
<1>3. ASSUME NEW next \in 0 .. MaxHandles, RenewAnswers(m.handle, next) PROVE Keeps(0)
  <2>1. Keeps(m.handle)
    BY <1>1, <1>2, <1>3, Renewing
  <2> QED BY <1>1, <2>1 DEF Keeps
<1>4. ASSUME live' = live \ {m.handle}, UNCHANGED <<granted, excused>> PROVE Keeps(0)
  <2>1. Len(granted) \in Nat
    BY Held
  <2> QED BY <1>1, <1>2, <1>4, <2>1 DEF Keeps, ServerTyped
<1> QED BY <1>3, <1>4 DEF ServeMail

LEMMA LoginKeeps ==
    ASSUME TypeOK, Issued, SignInApart, ServeLogin
    PROVE  /\ Keeps(0) /\ signIn'.next = Len(granted) + 1 /\ Len(granted') = Len(granted) + 1
           /\ signIn'.account = signIn.account /\ signIn'.state = "answered"
           /\ signIn' \in SignIns /\ live' = live \cup {Len(granted) + 1}
           /\ \A h \in 1 .. Len(granted) : granted'[h] = granted[h]
           /\ granted'[Len(granted) + 1] = [account |-> signIn.account, login |-> Len(granted) + 1,
                                             password |-> password[signIn.account]]
<1>1. ServerTyped /\ signIn \in SignIns /\ Len(granted) \in Nat
  BY TypedServer, Held DEF TypeOK
<1>2. signIn.account \in Accounts /\ password[signIn.account] \in 0 .. MaxResets
  BY DEF ServeLogin, SignInApart, TypeOK
<1>3. Fresh \in Handles
  BY <1>1, SessionAssumption DEF ServeLogin, CanIssue, Fresh, Handles
<1>4. /\ Fresh = Len(granted) + 1
      /\ granted' \in Seq(Grants) /\ Len(granted') = Fresh /\ Len(granted') <= MaxHandles
      /\ \A h \in 1 .. Len(granted) : granted'[h] = granted[h]
      /\ granted'[Fresh] = [account |-> signIn.account, login |-> Fresh, password |-> password[signIn.account]]
  BY <1>1, <1>2, <1>3, Issuing DEF ServeLogin
<1>5. signIn' = [signIn EXCEPT !.state = "answered", !.next = Fresh]
  BY DEF ServeLogin
<1>6. /\ signIn' \in SignIns /\ signIn'.next = Fresh
      /\ signIn'.account = signIn.account /\ signIn'.state = "answered"
  <2>1. Fresh \in 0 .. MaxHandles
    BY <1>3, SessionAssumption DEF Handles
  <2> HIDE DEF Fresh
  <2> QED BY <1>1, <1>5, <2>1 DEF SignIns
<1>7. live' = live \cup {Fresh} /\ UNCHANGED <<password, excused>>
  BY DEF ServeLogin, history
<1>8. 1 .. Len(granted) \subseteq 1 .. Len(granted') /\ Fresh \in 1 .. Len(granted')
  BY <1>1, <1>4
<1>9. ServerTyped'
  BY <1>1, <1>4, <1>7, <1>8 DEF ServerTyped
<1>10. Keeps(0)
  BY <1>1, <1>4, <1>7, <1>9 DEF Keeps
<1> QED BY <1>4, <1>6, <1>7, <1>10

LEMMA ResetKeeps ==
    ASSUME TypeOK, NEW a \in Accounts, ResetPassword(a) \/ ResetBreaks(a) \/ Disable(a)
    PROVE  Keeps(0)
<1>1. ServerTyped /\ Len(granted) \in Nat
  BY TypedServer, LenProperties DEF TypeOK
<1>2. password' \in [Accounts -> 0 .. MaxResets]
  <2>1. password \in [Accounts -> 0 .. MaxResets] /\ password[a] \in 0 .. MaxResets
    BY DEF TypeOK
  <2>2. password[a] < MaxResets => password[a] + 1 \in 0 .. MaxResets
    BY <2>1, SessionAssumption
  <2>3. Disable(a) => password' = password
    BY DEF Disable
  <2>4. ~Disable(a) => password[a] < MaxResets /\ password' = [password EXCEPT ![a] = password[a] + 1]
    BY DEF ResetPassword, ResetBreaks
  <2> QED BY <2>1, <2>2, <2>3, <2>4
<1>3. /\ granted' = granted /\ live' \subseteq live /\ excused \subseteq excused'
      /\ excused' \subseteq excused \cup live /\ live \subseteq live' \cup excused'
  BY DEF ResetPassword, ResetBreaks, Disable, EndAll, OwnedBy, history
<1> QED BY <1>1, <1>2, <1>3 DEF Keeps, ServerTyped

(* Only the answer to a renewal spends a handle of which the history is    *)
(* not told.                                                               *)
LEMMA Spends ==
    ASSUME TypeOK, Issued, MailExcused, SignInApart, [Next]_vars
    PROVE  Keeps(0) \/ \E r \in renewals : ServeRefresh(r) /\ Keeps(r.handle)
<1>1. ServerTyped /\ password \in [Accounts -> 0 .. MaxResets] /\ excused \subseteq 1 .. Len(granted)
  BY TypedServer DEF TypeOK
<1>2. ASSUME NEW r \in renewals, ServeRefresh(r) PROVE Keeps(r.handle)
  <2>1. PICK next \in 0 .. MaxHandles : RenewAnswers(r.handle, next)
    BY <1>2 DEF ServeRefresh
  <2> QED BY <1>1, <1>2, <2>1, Held, Renewing DEF ServeRefresh
<1>3. CASE Tab
  BY <1>1, <1>3, TabQuiet, KeepsAll DEF Quiet
<1>4. CASE UNCHANGED vars
  BY <1>1, <1>4, KeepsAll DEF vars, server, history
<1> QED BY <1>2, <1>3, <1>4, MailKeeps, LoginKeeps, ResetKeeps DEF Next, Server

-----------------------------------------------------------------------------
(* One renewal at a time.                                                  *)
New(c) == [by |-> c, handle |-> session, state |-> "sent", next |-> 0]
Answer(r, next) == [r EXCEPT !.state = "answered", !.next = next]

(* A page starts a renewal with the handle of the session, or the one that *)
(* was in flight is over and its handle used up or written off.            *)
Started ==
    /\ renewals = {} /\ session # 0 /\ UNCHANGED <<server, session, signIn, mail, history>>
    /\ \E c \in Requests : renewals' = {New(c)}

Ended ==
    /\ renewals' = {}
    /\ (\E r \in renewals : RefreshAnswered(r)) \/ (\A r \in renewals : r.handle \in excused')

LEMMA Renewals1 ==
    ASSUME TypeOK, Issued, OneRenewal, [Next]_vars
    PROVE  \/ renewals' = renewals \/ Started \/ Ended
           \/ \E r \in renewals, next \in 0 .. MaxHandles :
                 /\ ServeRefresh(r) /\ RenewAnswers(r.handle, next)
                 /\ renewals' = {Answer(r, next)}
<1>1. ASSUME NEW c \in Requests, FetchAhead(c) \/ FetchUnauthorized(c)
      PROVE  \/ renewals' = renewals
             \/ Started
  BY <1>1 DEF FetchAhead, FetchUnauthorized, Renew, Start, Join, New, Started
<1>2. ASSUME NEW r \in renewals, ServeRefresh(r)
      PROVE  \E next \in 0 .. MaxHandles : RenewAnswers(r.handle, next) /\ renewals' = {Answer(r, next)}
  <2>1. PICK next \in 0 .. MaxHandles :
            /\ RenewAnswers(r.handle, next)
            /\ renewals' = (renewals \ {r}) \cup {[r EXCEPT !.state = "answered", !.next = next]}
    BY <1>2 DEF ServeRefresh
  <2>2. renewals \ {r} = {}
    BY DEF OneRenewal
  <2> QED BY <2>1, <2>2 DEF Answer
<1>3. ASSUME NEW r \in renewals, RefreshAnswered(r) \/ RefreshFails(r)
      PROVE  renewals' = {} /\ (RefreshAnswered(r) \/ \A s \in renewals : s.handle \in excused')
  BY <1>3 DEF RefreshAnswered, RefreshFails, OneRenewal
<1>4. Reload => renewals' = {} /\ \A r \in renewals : r.handle \in excused'
  BY DEF Reload
<1>5. ASSUME NEW c \in Requests, Fetch(c) \/ FetchEnds(c) PROVE renewals' = renewals
  BY <1>5 DEF Fetch, FetchEnds
<1>6. CASE \/ \E m \in mail : ServeMail(m)
           \/ ServeLogin
           \/ \E a \in Accounts : ResetPassword(a) \/ ResetBreaks(a) \/ Disable(a) \/ Login(a)
           \/ LoginAnswered \/ LoginFails \/ Logout \/ UNCHANGED vars
  BY <1>6 DEF ServeMail, ServeLogin, ResetPassword, ResetBreaks, Disable, Login, LoginAnswered,
     LoginFails, Logout, vars, tab
<1> QED BY <1>1, <1>2, <1>3, <1>4, <1>5, <1>6 DEF Next, Server, Tab, Ended

LEMMA Answered ==
    ASSUME NEW r \in Renewals, NEW next \in 0 .. MaxHandles
    PROVE  /\ Answer(r, next) \in Renewals
           /\ Answer(r, next).by = r.by /\ Answer(r, next).handle = r.handle
           /\ Answer(r, next).state = "answered" /\ Answer(r, next).next = next
BY DEF Answer, Renewals

LEMMA NewTyped ==
    ASSUME TypeOK, session # 0, NEW c \in Requests
    PROVE  /\ New(c) \in Renewals
           /\ New(c).by = c /\ New(c).handle = session /\ New(c).state = "sent" /\ New(c).next = 0
<1>1. session \in Handles
  <2>1. Len(granted) \in Nat /\ session \in 0 .. Len(granted) /\ Len(granted) <= MaxHandles
    BY LenProperties DEF TypeOK
  <2> QED BY <2>1, SessionAssumption DEF Handles
<1>2. 0 \in 0 .. MaxHandles
  BY SessionAssumption
<1> QED BY <1>1, <1>2 DEF New, Renewals

LEMMA StepOneRenewal ==
    ASSUME TypeOK, Issued, OneRenewal, [Next]_vars
    PROVE  /\ OneRenewal' /\ renewals' \subseteq Renewals
           /\ Cardinality(renewals') <= 1
<1>1. OneRenewal'
  BY Renewals1 DEF OneRenewal, Started, Ended
<1>2. renewals' \subseteq Renewals
  <2>1. ASSUME NEW r \in renewals, NEW next \in 0 .. MaxHandles, renewals' = {Answer(r, next)}
        PROVE  renewals' \subseteq Renewals
    BY <2>1, Answered DEF TypeOK
  <2>2. ASSUME NEW c \in Requests, session # 0, renewals' = {New(c)} PROVE renewals' \subseteq Renewals
    BY <2>2, NewTyped
  <2> QED BY <2>1, <2>2, Renewals1 DEF TypeOK, Started, Ended
<1>3. Cardinality(renewals') <= 1
  <2>1. renewals' = {} \/ \E r : renewals' = {r}
    BY <1>1 DEF OneRenewal
  <2>2. Cardinality(renewals') \in {0, 1}
    BY <2>1, FS_EmptySet, FS_Singleton
  <2> QED BY <2>2
<1> QED BY <1>1, <1>2, <1>3

(* A request waits for the renewal in flight, or waits for none.           *)
WaitsFor ==
    \A c \in Requests : request[c].at \in Waiting <=> \E r \in renewals : request[c].on = r.by

Resting(place) == [at |-> place, on |-> NoRequest]

LEMMA RestingTyped ==
    ASSUME NEW place \in Places \ Waiting
    PROVE  /\ Resting(place) \in [at : Places, on : Requests \cup {NoRequest}]
           /\ Resting(place).at = place /\ Resting(place).on = NoRequest
BY DEF Resting

LEMMA StepWaits ==
    ASSUME TypeOK, Issued, OneRenewal, Waits, WaitsFor, [Next]_vars
    PROVE  Waits' /\ WaitsFor'
<1> DEFINE Requesting == [at : Places, on : Requests \cup {NoRequest}]
<1>1. /\ request \in [Requests -> Requesting]
      /\ \A c \in Requests : request[c].at \notin Waiting => request[c].on = NoRequest
      /\ \A c \in Requests : request[c].at \in Places /\ request[c].on \in Requests \cup {NoRequest}
  BY DEF Waits
<1>2. \A r \in renewals : r.by \in Requests /\ r.by # NoRequest
  BY Held, SessionAssumption
<1>3. ASSUME NEW c \in Requests, NEW place \in Waiting, NEW r, r.by \in Requests, Await(c, place, r),
             renewals' = {r}, renewals = {} \/ renewals = {r}
      PROVE  Waits' /\ WaitsFor'
  <2>1. [at |-> place, on |-> r.by] \in Requesting
    BY <1>3 DEF Waiting, Places
  <2>2. request' = [request EXCEPT ![c] = [at |-> place, on |-> r.by]]
    BY <1>3 DEF Await
  <2>3. request' \in [Requests -> Requesting]
    BY <1>1, <2>1, <2>2
  <2>4. request'[c].at = place /\ request'[c].on = r.by
    BY <1>1, <2>2
  <2>5. \A d \in Requests \ {c} : request'[d] = request[d]
    BY <1>1, <2>2
  <2>6. Waits'
    BY <1>1, <1>3, <2>3, <2>4, <2>5 DEF Waits
  <2>7. WaitsFor'
    <3> SUFFICES ASSUME NEW d \in Requests
                 PROVE  request'[d].at \in Waiting <=> request'[d].on = r.by
      BY <1>3 DEF WaitsFor
    <3>1. CASE d = c
      BY <1>3, <2>4, <3>1
    <3>2. CASE d # c /\ renewals = {r}
      BY <2>5, <3>2 DEF WaitsFor
    <3>3. CASE d # c /\ renewals = {}
      BY <1>1, <1>3, <2>5, <3>3, SessionAssumption DEF WaitsFor
    <3> QED BY <1>3, <3>1, <3>2, <3>3
  <2> QED BY <2>6, <2>7
<1>4. ASSUME NEW c \in Requests, FetchAhead(c) \/ FetchUnauthorized(c) PROVE Waits' /\ WaitsFor'
  <2>1. PICK place \in Waiting : Renew(c, place)
    BY <1>4 DEF FetchAhead, FetchUnauthorized, Waiting
  <2>2. CASE renewals = {}
    <3>1. Start(c, place)
      BY <2>1, <2>2 DEF Renew
    <3>2. renewals' = {New(c)} /\ Await(c, place, New(c)) /\ New(c).by = c
      BY <2>2, <3>1 DEF Start, New
    <3> QED BY <1>3, <2>2, <3>2
  <2>3. CASE renewals # {}
    <3>1. PICK r \in renewals : Await(c, place, r) /\ UNCHANGED renewals
      BY <2>1, <2>3 DEF Renew, Join
    <3>2. renewals = {r} /\ r.by \in Requests
      BY <1>2 DEF OneRenewal
    <3> QED BY <1>3, <3>1, <3>2
  <2> QED BY <2>2, <2>3
<1>5. ASSUME NEW c \in Requests, Fetch(c) \/ FetchEnds(c) PROVE Waits' /\ WaitsFor'
  <2>1. PICK place \in {"idle", "sent"} : request' = [request EXCEPT ![c] = [at |-> place, on |-> NoRequest]]
    BY <1>5 DEF Fetch, FetchEnds, Idle
  <2>2. [at |-> place, on |-> NoRequest] \in Requesting /\ renewals' = renewals
    BY <1>5 DEF Places, Fetch, FetchEnds
  <2>3. request' \in [Requests -> Requesting]
    BY <1>1, <2>1, <2>2
  <2>4. request'[c].at \notin Waiting /\ request'[c].on = NoRequest
    BY <1>1, <2>1 DEF Waiting
  <2>5. \A d \in Requests \ {c} : request'[d] = request[d]
    BY <1>1, <2>1
  <2>6. Waits'
    BY <1>1, <2>3, <2>4, <2>5 DEF Waits
  <2>7. WaitsFor'
    BY <1>2, <2>2, <2>4, <2>5 DEF WaitsFor
  <2> QED BY <2>6, <2>7
<1>6. ASSUME NEW r \in renewals, NEW next, Wake(r, next), renewals' = renewals \ {r}
      PROVE  Waits' /\ WaitsFor'
  <2>1. renewals' = {} /\ renewals = {r}
    BY <1>6 DEF OneRenewal
  <2>2. ASSUME NEW c \in Requests
        PROVE  request'[c] \in Requesting /\ request'[c].at \notin Waiting /\ request'[c].on = NoRequest
    <3>1. CASE request[c].on # r.by
      <4>1. request'[c] = request[c]
        BY <1>6, <3>1 DEF Wake
      <4>2. request[c].at \notin Waiting
        BY <2>1, <3>1 DEF WaitsFor
      <4> QED BY <1>1, <4>1, <4>2
    <3>2. CASE request[c].on = r.by
      <4>1. \E place \in Places \ Waiting : request'[c] = Resting(place)
        <5>1. \/ request'[c] = Resting("sent") \/ request'[c] = Resting("sent again")
              \/ request'[c] = Resting("idle")
          BY <1>6, <3>2 DEF Wake, Idle, Resting
        <5>2. {"sent", "sent again", "idle"} \subseteq Places \ Waiting
          BY DEF Places, Waiting
        <5> QED BY <5>1, <5>2
      <4> QED BY <4>1, RestingTyped
    <3> QED BY <3>1, <3>2
  <2>3. request' \in [Requests -> Requesting]
    <3>1. request' = [c \in Requests |-> request'[c]]
      BY <1>6 DEF Wake
    <3> QED BY <2>2, <3>1
  <2> QED BY <2>1, <2>2, <2>3 DEF Waits, WaitsFor
<1>7. CASE Reload
  <2>1. request' = [c \in Requests |-> Idle] /\ renewals' = {}
    BY <1>7 DEF Reload
  <2> QED BY <2>1 DEF Waits, WaitsFor, Idle, Waiting, Places
<1>8. ASSUME NEW r \in renewals, ServeRefresh(r) PROVE Waits' /\ WaitsFor'
  <2>1. PICK next \in 0 .. MaxHandles : renewals' = (renewals \ {r}) \cup {Answer(r, next)}
    BY <1>8 DEF ServeRefresh, Answer
  <2>2. Answer(r, next).by = r.by /\ request' = request
    BY <1>8, Held, Answered DEF ServeRefresh
  <2> QED BY <2>1, <2>2 DEF Waits, WaitsFor
<1>9. CASE UNCHANGED <<renewals, request>>
  BY <1>9 DEF Waits, WaitsFor
<1>10. CASE \/ \E m \in mail : ServeMail(m)
            \/ ServeLogin
            \/ \E a \in Accounts : ResetPassword(a) \/ ResetBreaks(a) \/ Disable(a) \/ Login(a)
            \/ LoginAnswered \/ LoginFails \/ Logout \/ UNCHANGED vars
  BY <1>9, <1>10 DEF ServeMail, ServeLogin, ResetPassword, ResetBreaks, Disable, Login, LoginAnswered,
     LoginFails, Logout, vars, tab
<1>11. ASSUME NEW r \in renewals, RefreshAnswered(r) \/ RefreshFails(r) PROVE Waits' /\ WaitsFor'
  BY <1>6, <1>11 DEF RefreshAnswered, RefreshFails
<1> QED BY <1>4, <1>5, <1>7, <1>8, <1>10, <1>11 DEF Next, Server, Tab

-----------------------------------------------------------------------------
(* What becomes of the session, of a login and of what is in the mail.     *)
LEMMA SessionStep ==
    ASSUME [Next]_vars
    PROVE  session' = session \/ (\E r \in renewals : RefreshAnswered(r)) \/ LoginAnswered \/ Logout
<1>1. ASSUME NEW c \in Requests, Fetch(c) \/ FetchAhead(c) \/ FetchEnds(c) \/ FetchUnauthorized(c)
      PROVE  session' = session
  BY <1>1 DEF Fetch, FetchAhead, FetchEnds, FetchUnauthorized
<1>2. CASE Server
  BY <1>2 DEF Server, ServeRefresh, ServeMail, ServeLogin, ResetPassword, ResetBreaks, Disable, tab
<1>3. ASSUME NEW r \in renewals, RefreshFails(r) PROVE session' = session
  BY <1>3 DEF RefreshFails
<1>4. CASE (\E a \in Accounts : Login(a)) \/ LoginFails \/ Reload \/ UNCHANGED vars
  BY <1>4 DEF Login, LoginFails, Reload, vars, tab
<1> QED BY <1>1, <1>2, <1>3, <1>4 DEF Next, Tab

SignInSent(a) == [account |-> a, state |-> "sent", next |-> 0]

LEMMA SignInStep ==
    ASSUME [Next]_vars
    PROVE  \/ signIn' = signIn /\ ~LoginAnswered
           \/ signIn' = NoSignIn
           \/ \E a \in Accounts : signIn' = SignInSent(a)
           \/ ServeLogin
<1>1. LoginAnswered => signIn' = NoSignIn
  BY DEF LoginAnswered
<1>2. ASSUME NEW c \in Requests, Fetch(c) \/ FetchAhead(c) \/ FetchEnds(c) \/ FetchUnauthorized(c)
      PROVE  signIn' = signIn
  BY <1>2 DEF Fetch, FetchAhead, FetchEnds, FetchUnauthorized
<1>3. CASE Server /\ ~ServeLogin
  BY <1>1, <1>3 DEF Server, ServeRefresh, ServeMail, ResetPassword, ResetBreaks, Disable, tab
<1>4. ASSUME NEW r \in renewals, RefreshAnswered(r) \/ RefreshFails(r) PROVE signIn' = signIn
  BY <1>4 DEF RefreshAnswered, RefreshFails
<1>5. CASE (\E a \in Accounts : Login(a)) \/ LoginFails \/ Reload
  BY <1>5 DEF Login, LoginFails, Reload, SignInSent
<1>6. CASE Logout \/ UNCHANGED vars
  BY <1>1, <1>6 DEF Logout, vars, tab
<1> QED BY <1>1, <1>2, <1>3, <1>4, <1>5, <1>6 DEF Next, Tab

LEMMA StepMail ==
    ASSUME TypeOK, Issued, MailExcused, SignInApart, [Next]_vars
    PROVE  mail' \subseteq Mail /\ MailExcused'
<1>1. excused \subseteq excused'
  BY Spends DEF Keeps
<1>2. mail \subseteq Mail
  BY DEF TypeOK
<1>3. ASSUME NEW letters, mail' \subseteq mail \cup letters,
             \A m \in letters : m \in Mail /\ m.handle \in excused'
      PROVE  mail' \subseteq Mail /\ MailExcused'
  BY <1>1, <1>2, <1>3 DEF MailExcused
<1>4. ASSUME NEW r \in renewals
      PROVE  \A m \in Adrift(r) : m \in Mail /\ m.handle = r.handle
  BY Held DEF Adrift, Mail
<1>5. ASSUME NEW r \in renewals, RefreshFails(r) PROVE mail' \subseteq Mail /\ MailExcused'
  BY <1>3, <1>4, <1>5 DEF RefreshFails, Post
<1>6. CASE Reload
  <2> DEFINE letters == UNION {Adrift(r) : r \in renewals}
  <2>1. mail' \subseteq mail \cup letters
    BY <1>6 DEF Reload, Post
  <2>2. \A m \in letters : m \in Mail /\ m.handle \in excused'
    BY <1>4, <1>6 DEF Reload
  <2> QED BY <1>3, <2>1, <2>2
<1>7. CASE Logout
  <2> DEFINE m == [kind |-> "logout", handle |-> session]
  <2>1. session \in Handles
    <3>1. Len(granted) \in Nat /\ session \in 0 .. Len(granted) /\ Len(granted) <= MaxHandles /\ session # 0
      BY <1>7, Held DEF TypeOK, Logout
    <3> QED BY <3>1, SessionAssumption DEF Handles
  <2>2. m \in Mail /\ m.handle \in excused'
    BY <1>7, <2>1 DEF Mail, Logout
  <2>3. mail' \subseteq mail \cup {m}
    BY <1>7 DEF Logout, Post
  <2> DEFINE letters == {m}
  <2> HIDE DEF m
  <2>4. mail' \subseteq mail \cup letters /\ \A x \in letters : x \in Mail /\ x.handle \in excused'
    BY <2>2, <2>3
  <2> HIDE DEF letters
  <2> QED BY <1>3, <2>4
<1>8. CASE mail' \subseteq mail
  BY <1>1, <1>2, <1>8 DEF MailExcused
<1>9. ASSUME NEW m \in mail, ServeMail(m) PROVE mail' \subseteq mail
  BY <1>9 DEF ServeMail
<1>10. ASSUME NEW c \in Requests, Fetch(c) \/ FetchAhead(c) \/ FetchEnds(c) \/ FetchUnauthorized(c)
       PROVE  mail' = mail
  BY <1>10 DEF Fetch, FetchAhead, FetchEnds, FetchUnauthorized
<1>11. CASE \/ \E r \in renewals : ServeRefresh(r) \/ RefreshAnswered(r)
            \/ \E a \in Accounts : ResetPassword(a) \/ ResetBreaks(a) \/ Disable(a) \/ Login(a)
            \/ ServeLogin \/ LoginAnswered \/ LoginFails \/ UNCHANGED vars
  BY <1>8, <1>11 DEF ServeRefresh, RefreshAnswered, ResetPassword, ResetBreaks, Disable, Login,
     ServeLogin, LoginAnswered, LoginFails, vars, tab
<1> QED BY <1>5, <1>6, <1>7, <1>8, <1>9, <1>10, <1>11 DEF Next, Server, Tab

-----------------------------------------------------------------------------
(* The answer to a renewal, and every other step, as the tab is concerned. *)
LEMMA RefreshStep ==
    ASSUME TypeOK, Issued, OneRenewal, NEW r \in renewals, ServeRefresh(r)
    PROVE  /\ r.state = "sent" /\ renewals = {r}
           /\ UNCHANGED <<active, password, session, signIn, mail, torn>>
           /\ Keeps(r.handle)
           /\ \E next \in 0 .. MaxHandles :
                 /\ RenewAnswers(r.handle, next)
                 /\ renewals' = {Answer(r, next)}
                 /\ next = 0 => live \subseteq live' \cup excused'
                 /\ next # 0 => next = Len(granted) + 1 /\ next = Len(granted') /\ next \in live'
<1>1. renewals = {r}
  BY DEF OneRenewal
<1>2. PICK next \in 0 .. MaxHandles :
          /\ RenewAnswers(r.handle, next)
          /\ renewals' = {Answer(r, next)}
  BY <1>1 DEF ServeRefresh, Answer
<1>3. r.state = "sent" /\ UNCHANGED <<active, password, session, signIn, mail, torn>>
  BY DEF ServeRefresh
<1>4. /\ Keeps(r.handle)
      /\ next = 0 => live \subseteq live' \cup excused'
      /\ next # 0 => next = Len(granted) + 1 /\ next = Len(granted') /\ next \in live'
  BY <1>2, <1>3, Held, TypedServer, Renewing
<1> QED BY <1>1, <1>2, <1>3, <1>4

LEMMA OtherStep ==
    ASSUME TypeOK, Issued, OneRenewal, MailExcused, SignInApart, [Next]_vars,
           \A r \in renewals : ~ServeRefresh(r)
    PROVE  /\ Keeps(0) /\ live \subseteq live' \cup excused'
           /\ renewals' = renewals \/ Started \/ Ended
<1>1. Keeps(0)
  BY Spends
<1>2. 0 \notin live
  <2>1. Len(granted) \in Nat /\ live \subseteq 1 .. Len(granted)
    BY Held DEF TypeOK
  <2> QED BY <2>1
<1>3. live \subseteq live' \cup excused'
  BY <1>1, <1>2 DEF Keeps
<1> QED BY <1>1, <1>3, Renewals1

(* Nobody holds a handle that was not issued.                              *)
LEMMA StepRenewals ==
    ASSUME TypeOK, OneRenewal, Issued, MailExcused, AnswersHold, SignInApart,
           NoSelfReplay, SessionCanBeRenewed, [Next]_vars
    PROVE  /\ \A r \in renewals' : r.handle <= Len(granted') /\ r.next <= Len(granted')
           /\ AnswersHold' /\ NoSelfReplay'
<1> SUFFICES ASSUME NEW s \in renewals'
             PROVE  /\ s.handle <= Len(granted') /\ s.next <= Len(granted')
                    /\ s.state = "sent" => s.next = 0 /\ s.handle \in live' \cup excused'
                    /\ s.state = "answered" /\ s.next # 0 => s.next \in live' \cup excused'
  BY DEF AnswersHold, NoSelfReplay
<1>1. ASSUME NEW r \in renewals, ServeRefresh(r)
      PROVE  /\ s.handle <= Len(granted') /\ s.next <= Len(granted')
             /\ s.state = "answered" /\ (s.next # 0 => s.next \in live')
  <2>1. PICK next \in 0 .. MaxHandles :
            /\ renewals' = {Answer(r, next)}
            /\ next # 0 => next = Len(granted') /\ next \in live'
    BY <1>1, RefreshStep
  <2>2. s.handle = r.handle /\ s.next = next /\ s.state = "answered"
    BY <2>1, Held, Answered
  <2>3. Len(granted) \in Nat /\ Len(granted') \in Nat /\ Len(granted) <= Len(granted')
    BY <1>1, RefreshStep DEF Keeps
  <2>4. r.handle \in 1 .. Len(granted)
    BY Held
  <2> QED BY <2>1, <2>2, <2>3, <2>4
<1>2. ASSUME \A r \in renewals : ~ServeRefresh(r)
      PROVE  /\ s.handle <= Len(granted') /\ s.next <= Len(granted')
             /\ s.state = "sent" => s.next = 0 /\ s.handle \in live' \cup excused'
             /\ s.state = "answered" /\ s.next # 0 => s.next \in live' \cup excused'
  <2>1. /\ Len(granted) \in Nat /\ Len(granted') \in Nat /\ Len(granted) <= Len(granted')
        /\ live \cup excused \subseteq live' \cup excused'
    BY <1>2, OtherStep DEF Keeps
  <2>2. CASE s \in renewals
    <3>1. s.handle \in 1 .. Len(granted) /\ s.next \in 0 .. Len(granted)
      BY <2>2, Held
    <3>2. s.handle <= Len(granted') /\ s.next <= Len(granted')
      BY <2>1, <3>1
    <3> QED BY <2>1, <2>2, <3>2 DEF AnswersHold, NoSelfReplay
  <2>3. CASE Started
    <3>1. PICK c \in Requests : renewals' = {New(c)}
      BY <2>3 DEF Started
    <3>2. /\ s.handle = session /\ s.state = "sent" /\ s.next = 0
          /\ session # 0 /\ renewals = {}
      BY <2>3, <3>1, NewTyped DEF Started
    <3>3. session \in live' \cup excused'
      BY <2>1, <3>2 DEF SessionCanBeRenewed
    <3>4. session \in 0 .. Len(granted)
      BY DEF TypeOK
    <3> QED BY <2>1, <3>2, <3>3, <3>4
  <2>4. s \in renewals \/ Started
    BY <1>2, OtherStep DEF Ended
  <2> QED BY <2>2, <2>3, <2>4
<1> QED BY <1>1, <1>2

LEMMA StepSession ==
    ASSUME TypeOK, OneRenewal, Issued, MailExcused, AnswersHold, SignInApart,
           SessionCanBeRenewed, [Next]_vars
    PROVE  session' \in 0 .. Len(granted') /\ SessionCanBeRenewed'
<1>1. session \in 0 .. Len(granted)
  BY DEF TypeOK
<1>2. ASSUME NEW r \in renewals, ServeRefresh(r)
      PROVE  session' \in 0 .. Len(granted') /\ SessionCanBeRenewed'
  <2>1. /\ session' = session /\ renewals = {r} /\ r.state = "sent"
        /\ Len(granted) \in Nat /\ Len(granted') \in Nat /\ Len(granted) <= Len(granted')
        /\ excused \subseteq excused' /\ live \ {r.handle} \subseteq live' \cup excused'
    BY <1>2, RefreshStep DEF Keeps
  <2>2. \E s \in renewals' : s.handle = r.handle /\ s.state = "answered"
    BY <1>2, RefreshStep, Held, Answered
  <2>3. SessionCanBeRenewed'
    BY <2>1, <2>2 DEF SessionCanBeRenewed
  <2> QED BY <1>1, <2>1, <2>3
<1>3. ASSUME \A r \in renewals : ~ServeRefresh(r)
      PROVE  session' \in 0 .. Len(granted') /\ SessionCanBeRenewed'
  <2>1. /\ Len(granted) \in Nat /\ Len(granted') \in Nat /\ Len(granted) <= Len(granted')
        /\ live \cup excused \subseteq live' \cup excused'
    BY <1>3, OtherStep DEF Keeps
  <2>2. ASSUME NEW r \in renewals, RefreshAnswered(r)
        PROVE  session' \in 0 .. Len(granted') /\ SessionCanBeRenewed'
    <3>1. session' = r.next /\ r.next \in 0 .. Len(granted) /\ r.state = "answered"
      BY <2>2, Held DEF RefreshAnswered
    <3>2. r.next # 0 => r.next \in live \cup excused
      BY <3>1 DEF AnswersHold
    <3>3. session' \in 0 .. Len(granted')
      BY <2>1, <3>1
    <3> QED BY <2>1, <3>1, <3>2, <3>3 DEF SessionCanBeRenewed
  <2>3. CASE LoginAnswered
    <3>1. session' = signIn.next /\ signIn.next \in 0 .. Len(granted) /\ signIn.state = "answered"
      BY <2>3, Held DEF LoginAnswered
    <3>2. signIn.next \in live \cup excused
      BY <3>1 DEF SignInApart
    <3>3. session' \in 0 .. Len(granted')
      BY <2>1, <3>1
    <3> QED BY <2>1, <3>1, <3>2, <3>3 DEF SessionCanBeRenewed
  <2>4. CASE Logout
    <3>1. session' = 0
      BY <2>4 DEF Logout
    <3> QED BY <2>1, <3>1 DEF SessionCanBeRenewed
  <2>5. CASE session' = session /\ \A r \in renewals : ~RefreshAnswered(r)
    <3>1. session' \in 0 .. Len(granted')
      BY <1>1, <2>1, <2>5
    <3>2. ASSUME NEW r \in renewals, r.handle = session, r.state = "answered"
          PROVE  r \in renewals' \/ session \in excused'
      BY <1>3, <2>5, <3>2, OtherStep DEF Started, Ended
    <3>3. SessionCanBeRenewed'
      BY <2>1, <2>5, <3>2 DEF SessionCanBeRenewed
    <3> QED BY <3>1, <3>3
  <2> QED BY <2>2, <2>3, <2>4, <2>5, SessionStep
<1> QED BY <1>2, <1>3

LEMMA StepSignIn ==
    ASSUME TypeOK, OneRenewal, Issued, MailExcused, AnswersHold, SignInApart, [Next]_vars
    PROVE  signIn' \in SignIns /\ signIn'.next <= Len(granted') /\ SignInApart'
<1>1. /\ signIn \in SignIns /\ session \in 0 .. Len(granted) /\ Len(granted) \in Nat
      /\ signIn.next \in 0 .. Len(granted)
  BY Held DEF TypeOK
<1>2. Len(granted') \in Nat /\ Len(granted) <= Len(granted')
  BY Spends DEF Keeps
<1>3. ASSUME NEW a \in Accounts \cup {NoAccount}, NEW state \in {"none", "sent"},
             state = "sent" => a \in Accounts,
             signIn' = [account |-> a, state |-> state, next |-> 0]
      PROVE  signIn' \in SignIns /\ signIn'.next <= Len(granted') /\ SignInApart'
  <2>1. 0 \in 0 .. MaxHandles
    BY SessionAssumption
  <2>2. signIn' \in SignIns
    BY <1>3, <2>1 DEF SignIns
  <2>3. signIn'.next = 0 /\ signIn'.state = state /\ signIn'.account = a
    BY <1>3
  <2> QED BY <1>2, <1>3, <2>2, <2>3 DEF SignInApart
<1>4. CASE signIn' = NoSignIn
  BY <1>3, <1>4 DEF NoSignIn
<1>5. CASE \E a \in Accounts : signIn' = SignInSent(a)
  BY <1>3, <1>5 DEF SignInSent
<1>6. CASE ServeLogin
  <2>1. /\ signIn'.next = Len(granted) + 1 /\ Len(granted') = Len(granted) + 1
        /\ signIn'.account = signIn.account /\ signIn'.state = "answered"
        /\ signIn' \in SignIns /\ Len(granted) + 1 \in live'
    BY <1>6, LoginKeeps
  <2>2. signIn.account \in Accounts /\ session' = session /\ renewals' = renewals
    BY <1>6 DEF ServeLogin, SignInApart
  <2>3. \A r \in renewals : r.handle # Len(granted) + 1 /\ r.next # Len(granted) + 1
    BY <1>1, Held
  <2> QED BY <1>1, <2>1, <2>2, <2>3 DEF SignInApart
<1>7. CASE signIn' = signIn /\ ~LoginAnswered
  <2>1. signIn'.next <= Len(granted')
    BY <1>1, <1>2, <1>7
  <2>2. SignInApart'
    <3>1. CASE signIn.state # "answered"
      BY <1>7, <3>1 DEF SignInApart
    <3> SUFFICES ASSUME signIn.state = "answered"
                 PROVE  /\ signIn.next \in live' \cup excused' /\ signIn.next # session'
                        /\ \A s \in renewals' : s.handle # signIn.next /\ s.next # signIn.next
      BY <1>7, <3>1 DEF SignInApart
    <3>2. /\ signIn.next # 0 /\ signIn.next \in live \cup excused /\ signIn.next # session
          /\ \A r \in renewals : r.handle # signIn.next /\ r.next # signIn.next
      BY DEF SignInApart
    <3>3. ASSUME NEW r \in renewals, ServeRefresh(r)
          PROVE  /\ signIn.next \in live' \cup excused' /\ signIn.next # session'
                 /\ \A s \in renewals' : s.handle # signIn.next /\ s.next # signIn.next
      <4>1. /\ session' = session /\ excused \subseteq excused'
            /\ live \ {r.handle} \subseteq live' \cup excused'
        BY <3>3, RefreshStep DEF Keeps
      <4>2. PICK next \in 0 .. MaxHandles :
                renewals' = {Answer(r, next)} /\ (next # 0 => next = Len(granted) + 1)
        BY <3>3, RefreshStep
      <4>3. \A s \in renewals' : s.handle = r.handle /\ s.next = next
        BY <4>2, Held, Answered
      <4>4. next # signIn.next
        BY <1>1, <3>2, <4>2
      <4> QED BY <3>2, <4>1, <4>3, <4>4
    <3>4. ASSUME \A r \in renewals : ~ServeRefresh(r)
          PROVE  /\ signIn.next \in live' \cup excused' /\ signIn.next # session'
                 /\ \A s \in renewals' : s.handle # signIn.next /\ s.next # signIn.next
      <4>1. live \cup excused \subseteq live' \cup excused'
        BY <3>4, OtherStep DEF Keeps
      <4>2. signIn.next # session'
        BY <1>7, <3>2, SessionStep DEF RefreshAnswered, Logout
      <4>3. ASSUME NEW s \in renewals' PROVE s.handle # signIn.next /\ s.next # signIn.next
        <5>1. CASE s \in renewals
          BY <3>2, <5>1
        <5>2. CASE Started
          BY <3>2, <5>2, NewTyped DEF Started
        <5> QED BY <3>4, <5>1, <5>2, OtherStep DEF Ended
      <4> QED BY <3>2, <4>1, <4>2, <4>3
    <3> QED BY <3>3, <3>4
  <2> QED BY <1>1, <1>7, <2>1, <2>2
<1> QED BY <1>4, <1>5, <1>6, <1>7, SignInStep

-----------------------------------------------------------------------------
(* The server: one live handle of a login, and none of an old password.    *)
LoginsIssued == \A h \in 1 .. Len(granted) : granted[h].login <= Len(granted)

Singly == LoginsIssued /\ OneHandlePerLogin /\ ResetEndsSessions

LEMMA Fewer ==
    ASSUME TypeOK, Singly, granted' = granted, live' \subseteq live, UNCHANGED <<password, torn>>
    PROVE  Singly'
BY DEF Singly, LoginsIssued, OneHandlePerLogin, ResetEndsSessions

LEMMA RotateSingly ==
    ASSUME TypeOK, Singly, NEW h \in Handles, Rotate(h), UNCHANGED <<password, torn>>
    PROVE  Singly'
<1> DEFINE n == Len(granted)
<1>1. /\ ServerTyped /\ h \in live /\ live \subseteq 1 .. n
      /\ granted[h].account \in Accounts /\ granted[h].login \in Handles
      /\ granted[h].password \in 0 .. MaxResets
  <2>1. ServerTyped /\ h \in live /\ live \subseteq 1 .. n
    BY TypedServer DEF Rotate, Renewable, TypeOK
  <2> QED BY <2>1, Granted
<1>2. /\ n \in Nat /\ Fresh = n + 1 /\ Len(granted') = n + 1
      /\ \A k \in 1 .. n : granted'[k] = granted[k]
      /\ granted'[n + 1] = [account |-> granted[h].account, login |-> granted[h].login,
                            password |-> granted[h].password]
  BY <1>1, Issuing DEF Rotate
<1>3. live' = (live \ {h}) \cup {n + 1}
  BY <1>2 DEF Rotate
<1>4. granted[h].login <= n
  BY <1>1 DEF Singly, LoginsIssued
<1>5. /\ granted'[n + 1].login = granted[h].login
      /\ granted'[n + 1].account = granted[h].account
      /\ granted'[n + 1].password = granted[h].password
  BY <1>2
<1>6. LoginsIssued'
  <2> SUFFICES ASSUME NEW k \in 1 .. n + 1 PROVE granted'[k].login <= n + 1
    BY <1>2 DEF LoginsIssued
  <2>1. CASE k = n + 1
    <3>1. granted[h].login \in Int
      BY <1>1 DEF Handles
    <3> QED BY <1>2, <1>4, <1>5, <2>1, <3>1
  <2>2. CASE k # n + 1
    <3>1. k \in 1 .. n
      BY <1>2, <2>2
    <3>2. granted[k].login <= n /\ granted[k].login \in Int
      BY <1>1, <3>1, Granted DEF Singly, LoginsIssued, Handles
    <3> QED BY <1>2, <3>1, <3>2
  <2> QED BY <2>1, <2>2
<1>7. OneHandlePerLogin'
  BY <1>1, <1>2, <1>3, <1>5 DEF Singly, OneHandlePerLogin
<1>8. ResetEndsSessions'
  BY <1>1, <1>2, <1>3, <1>5 DEF Singly, ResetEndsSessions
<1> QED BY <1>6, <1>7, <1>8 DEF Singly

LEMMA RenewSingly ==
    ASSUME TypeOK, Singly, NEW h \in Handles, NEW next, RenewAnswers(h, next), UNCHANGED <<password, torn>>
    PROVE  Singly'
<1>1. CASE Rotate(h)
  BY <1>1, RotateSingly
<1>2. CASE ~Rotate(h)
  <2>1. granted' = granted /\ live' \subseteq live
    BY <1>2 DEF RenewAnswers, RenewUnknown, RenewAged, RenewDisabled, RenewBroken
  <2> QED BY <2>1, Fewer
<1> QED BY <1>1, <1>2

LEMMA LoginSingly ==
    ASSUME TypeOK, Singly, Issued, SignInApart, ServeLogin
    PROVE  Singly'
<1> DEFINE n == Len(granted)
           a == signIn.account
<1>1. /\ Len(granted') = n + 1 /\ live' = live \cup {n + 1}
      /\ \A k \in 1 .. n : granted'[k] = granted[k]
      /\ granted'[n + 1] = [account |-> a, login |-> n + 1, password |-> password[a]]
  BY LoginKeeps
<1>2. /\ n \in Nat /\ live \subseteq 1 .. n /\ password' = password /\ torn' = torn
      /\ \A k \in 1 .. n : granted[k].login \in Int /\ granted[k].login <= n
  <2>1. n \in Nat /\ live \subseteq 1 .. n /\ ServerTyped
    BY Held, TypedServer DEF TypeOK
  <2>2. password' = password /\ torn' = torn
    BY DEF ServeLogin, history
  <2>3. \A k \in 1 .. n : granted[k].login \in Int /\ granted[k].login <= n
    BY <2>1, Granted DEF Singly, LoginsIssued, Handles
  <2> QED BY <2>1, <2>2, <2>3
<1>3. /\ granted'[n + 1].login = n + 1 /\ granted'[n + 1].account = a
      /\ granted'[n + 1].password = password[a]
  BY <1>1
<1>4. LoginsIssued'
  <2> SUFFICES ASSUME NEW k \in 1 .. n + 1 PROVE granted'[k].login <= n + 1
    BY <1>1 DEF LoginsIssued
  <2>1. k \in 1 .. n \/ k = n + 1
    BY <1>2
  <2> QED BY <1>1, <1>2, <1>3, <2>1
<1>5. OneHandlePerLogin'
  <2>1. \A k \in live : granted'[k].login # n + 1 /\ granted'[k] = granted[k]
    BY <1>1, <1>2
  <2> QED BY <1>1, <1>3, <2>1 DEF Singly, OneHandlePerLogin
<1>6. ResetEndsSessions'
  BY <1>1, <1>2, <1>3 DEF Singly, ResetEndsSessions
<1> QED BY <1>4, <1>5, <1>6 DEF Singly

LEMMA ResetSingly ==
    ASSUME TypeOK, Singly, NEW a \in Accounts, ResetPassword(a) \/ ResetBreaks(a)
    PROVE  Singly'
<1>1. granted' = granted /\ live' \subseteq live
  BY DEF ResetPassword, ResetBreaks, EndAll
<1>2. \A b \in Accounts \ {a} : password'[b] = password[b] /\ (b \in torn <=> b \in torn')
  BY DEF ResetPassword, ResetBreaks, TypeOK
<1>3. \A h \in live' : granted[h].account \in Accounts
  BY <1>1, TypedServer, Granted DEF TypeOK
<1>4. \A h \in live' : granted[h].account = a => a \in torn'
  BY DEF ResetPassword, ResetBreaks, EndAll, OwnedBy
<1>5. ResetEndsSessions'
  BY <1>1, <1>2, <1>3, <1>4 DEF Singly, ResetEndsSessions
<1> QED BY <1>1, <1>5 DEF Singly, LoginsIssued, OneHandlePerLogin

LEMMA StepSingly ==
    ASSUME TypeOK, Singly, OneRenewal, Issued, SignInApart, [Next]_vars
    PROVE  Singly'
<1>1. CASE Quiet
  BY <1>1, Fewer DEF Quiet
<1>2. ASSUME NEW r \in renewals, ServeRefresh(r) PROVE Singly'
  BY <1>2, RefreshStep, Held, RenewSingly
<1>3. ASSUME NEW m \in mail, ServeMail(m) PROVE Singly'
  <2>1. UNCHANGED <<password, torn>> /\ m.handle \in Handles
    BY <1>3, Held DEF ServeMail
  <2>2. \/ \E next : RenewAnswers(m.handle, next)
        \/ live' = live \ {m.handle} /\ granted' = granted
    BY <1>3 DEF ServeMail
  <2> QED BY <2>1, <2>2, RenewSingly, Fewer
<1>4. ASSUME NEW a \in Accounts, Disable(a) PROVE Singly'
  BY <1>1, <1>4 DEF Disable, Quiet, history
<1>5. CASE UNCHANGED vars
  BY <1>1, <1>5 DEF vars, server, history, Quiet
<1> QED BY <1>1, <1>2, <1>3, <1>4, <1>5, TabQuiet, LoginSingly, ResetSingly DEF Next, Server

LEMMA StepAccounts ==
    ASSUME TypeOK, Issued, [Next]_vars
    PROVE  active' \subseteq Accounts /\ torn' \subseteq Accounts
<1>1. CASE Tab \/ UNCHANGED vars
  BY <1>1, TabQuiet DEF Quiet, vars, server, history, TypeOK
<1>2. CASE Server
  BY <1>2 DEF Server, ServeRefresh, ServeMail, ServeLogin, ResetPassword, ResetBreaks, Disable, history, TypeOK
<1> QED BY <1>1, <1>2 DEF Next

-----------------------------------------------------------------------------
(* The inductive invariant.                                                *)
LEMMA InitHolds == Init => IInv
<1> SUFFICES ASSUME Init PROVE IInv
  OBVIOUS
<1>1. /\ granted = <<>> /\ live = {} /\ active = Accounts /\ password = [a \in Accounts |-> 0]
      /\ session = 0 /\ renewals = {} /\ signIn = [account |-> NoAccount, state |-> "none", next |-> 0]
      /\ request = [c \in Requests |-> [at |-> "idle", on |-> NoRequest]]
      /\ mail = {} /\ excused = {} /\ torn = {}
  BY DEF Init, NoSignIn, Idle
<1>2. granted \in Seq(Grants) /\ Len(granted) = 0
  BY <1>1, EmptySeq
<1>3. Cardinality(renewals) = 0
  BY <1>1, FS_EmptySet
<1>4. 0 \in 0 .. MaxHandles /\ 0 \in 0 .. MaxResets /\ 0 <= MaxHandles /\ 0 <= 1 /\ 0 \in 0 .. 0 /\ 1 .. 0 = {}
  BY SessionAssumption
<1>5. signIn \in SignIns
  BY <1>1, <1>4 DEF SignIns
<1>6. Waits /\ WaitsFor
  BY <1>1 DEF Waits, WaitsFor, Waiting, Places
<1>7. TypeOK
  <2>1. Cardinality(renewals) <= 1 /\ Len(granted) <= MaxHandles
    BY <1>2, <1>3, <1>4
  <2>2. \A c \in Requests : request[c].at \in Places
    BY <1>6 DEF Waits
  <2>3. password \in [Accounts -> 0 .. MaxResets]
    BY <1>1, <1>4
  <2>4. session \in 0 .. Len(granted)
    BY <1>1, <1>2, <1>4
  <2> QED BY <1>1, <1>2, <1>5, <1>6, <2>1, <2>2, <2>3, <2>4 DEF TypeOK, WaitsFor, Waiting
<1>8. Issued /\ SignInApart
  BY <1>1, <1>2, <1>4 DEF Issued, SignInApart
<1>9. /\ OneRenewal /\ MailExcused /\ AnswersHold /\ OneHandlePerLogin /\ ResetEndsSessions
      /\ NoSelfReplay /\ SessionCanBeRenewed
  BY <1>1 DEF OneRenewal, MailExcused, AnswersHold, OneHandlePerLogin, ResetEndsSessions,
     NoSelfReplay, SessionCanBeRenewed
<1> QED BY <1>6, <1>7, <1>8, <1>9 DEF IInv

LEMMA StepHolds == IInv /\ [Next]_vars => IInv'
<1> SUFFICES ASSUME IInv, [Next]_vars PROVE IInv'
  OBVIOUS
<1>1. /\ TypeOK /\ OneRenewal /\ Waits /\ Issued /\ MailExcused /\ AnswersHold /\ SignInApart
      /\ OneHandlePerLogin /\ ResetEndsSessions /\ NoSelfReplay /\ SessionCanBeRenewed
  BY DEF IInv
<1>2. WaitsFor /\ Singly
  BY <1>1 DEF TypeOK, WaitsFor, Waiting, Singly, Issued, LoginsIssued
<1>3. OneRenewal' /\ renewals' \subseteq Renewals /\ Cardinality(renewals') <= 1
  BY <1>1, StepOneRenewal
<1>4. Waits' /\ WaitsFor'
  BY <1>1, <1>2, StepWaits
<1>5. mail' \subseteq Mail /\ MailExcused'
  BY <1>1, StepMail
<1>6. /\ \A r \in renewals' : r.handle <= Len(granted') /\ r.next <= Len(granted')
      /\ AnswersHold' /\ NoSelfReplay'
  BY <1>1, StepRenewals
<1>7. session' \in 0 .. Len(granted') /\ SessionCanBeRenewed'
  BY <1>1, StepSession
<1>8. signIn' \in SignIns /\ signIn'.next <= Len(granted') /\ SignInApart'
  BY <1>1, StepSignIn
<1>9. Singly'
  BY <1>1, <1>2, StepSingly
<1>10. ServerTyped' /\ Len(granted') \in Nat
  BY <1>1, Spends DEF Keeps
<1>11. active' \subseteq Accounts /\ torn' \subseteq Accounts
  BY <1>1, StepAccounts
<1>12. TypeOK'
  <2>1. \A c \in Requests : request'[c].at \in Places
    BY <1>4 DEF Waits
  <2> QED BY <1>3, <1>4, <1>5, <1>7, <1>8, <1>10, <1>11, <2>1
      DEF TypeOK, ServerTyped, WaitsFor, Waiting
<1>13. Issued'
  <2>1. ASSUME NEW m \in mail' PROVE m.handle <= Len(granted')
    <3>1. m.handle \in 1 .. Len(granted')
      BY <1>5, <1>10 DEF MailExcused, ServerTyped
    <3> QED BY <1>10, <3>1
  <2> QED BY <1>6, <1>8, <1>9, <2>1 DEF Issued, Singly, LoginsIssued
<1> QED BY <1>3, <1>4, <1>5, <1>6, <1>7, <1>8, <1>9, <1>12, <1>13 DEF IInv, Singly

(* Whatever the tab, the server, the network and the mail do, the state is *)
(* one of the inductive invariant.                                         *)
THEOREM Invariant == Spec => []IInv
<1>1. Init => IInv
  BY InitHolds
<1>2. IInv /\ [Next]_vars => IInv'
  BY StepHolds
<1> QED BY <1>1, <1>2, PTL DEF Spec

(* The variables have their types, there is one renewal in flight at most, *)
(* and a request that waits does so for that one.                          *)
THEOREM TypeCorrect == Spec => []TypeOK
<1>1. IInv => TypeOK
  BY DEF IInv
<1> QED BY <1>1, Invariant, PTL

(* However often a login is renewed, one handle of it is live.             *)
THEOREM LoginIsSingle == Spec => []OneHandlePerLogin
<1>1. IInv => OneHandlePerLogin
  BY DEF IInv
<1> QED BY <1>1, Invariant, PTL

(* A password reset that was not cut short leaves no earlier login.        *)
THEOREM ResetEndsThem == Spec => []ResetEndsSessions
<1>1. IInv => ResetEndsSessions
  BY DEF IInv
<1> QED BY <1>1, Invariant, PTL

(* The tab never presents a handle that its own requests have spent.       *)
THEOREM TabNeverReplays == Spec => []NoSelfReplay
<1>1. IInv => NoSelfReplay
  BY DEF IInv
<1> QED BY <1>1, Invariant, PTL

(* The tab is signed in with a handle that can be renewed, or whose        *)
(* replacement is on its way, or that something outside the tab took away. *)
THEOREM SessionIsGood == Spec => []SessionCanBeRenewed
<1>1. IInv => SessionCanBeRenewed
  BY DEF IInv
<1> QED BY <1>1, Invariant, PTL
=============================================================================
