-------------------------- MODULE DashboardSession --------------------------
(***************************************************************************)
(* A dashboard tab and the refresh handles it lives on.                    *)
(*                                                                         *)
(* On the server, a table of single-use handles: login and refresh issue   *)
(* one, refresh spends the one it is given, logout and a password reset    *)
(* destroy them.  These routes are coroutines with no await that suspends, *)
(* so each runs to its end on the event loop, or breaks off between two of *)
(* its commits.                                                            *)
(*                                                                         *)
(* In the tab, AuthProvider: the session it shows, the one renewal it may  *)
(* have in flight, and the requests of the pages, each of which can wait   *)
(* for that renewal.  Everything that follows an answer without awaiting   *)
(* another one is a single step, for the tab has one thread.               *)
(*                                                                         *)
(* Handles are numbered in the order they are issued; 0 is no handle, and  *)
(* as the tab's session it means signed out.                               *)
(***************************************************************************)
EXTENDS Naturals, Sequences, FiniteSets

CONSTANTS
    Accounts,
    Requests,       \* the requests of the pages that may be under way at once
    NoAccount, NoRequest,
    MaxHandles,     \* bound: logins and renewals stop here
    MaxResets,      \* bound: password resets per account
    MaxMail         \* bound: requests nobody waits for that may yet be served

ASSUME SessionAssumption ==
    /\ NoAccount \notin Accounts
    /\ NoRequest \notin Requests
    /\ MaxHandles \in Nat
    /\ MaxResets \in Nat
    /\ MaxMail \in Nat

VARIABLES
    granted,    \* every handle ever issued
    live,       \* refresh_tokens: the handles that have a row
    active,     \* accounts with is_active
    password,   \* how often an account's password has been reset
    session,    \* sessionRef, the stored session and the rendered one
    renewals,   \* renewalRef: the renewals in flight
    signIn,     \* the login in flight
    request,    \* what each request is waiting for
    mail,       \* requests nobody waits for the answer of
    excused,    \* history: handles lost to something other than the tab
    torn        \* history: accounts whose last reset broke off half way

server == <<granted, live, active, password>>
tab == <<session, renewals, signIn, request, mail>>
history == <<excused, torn>>
vars == <<server, tab, history>>

Handles == 1..MaxHandles
Grants == [account : Accounts, login : Handles, password : 0..MaxResets]
Renewals == [by : Requests, handle : Handles, state : {"sent", "answered"}, next : 0..MaxHandles]
SignIns == [account : Accounts \cup {NoAccount}, state : {"none", "sent", "answered"}, next : 0..MaxHandles]
Places == {"idle", "renewing ahead", "sent", "renewing again", "sent again"}
Mail == [kind : {"refresh", "logout"}, handle : Handles]

NoSignIn == [account |-> NoAccount, state |-> "none", next |-> 0]
Idle == [at |-> "idle", on |-> NoRequest]

OwnedBy(a) == {h \in live : granted[h].account = a}

-----------------------------------------------------------------------------
(* The server.  Issue records which login a handle descends from, and the  *)
(* password that login was made with.                                      *)
Issue(a, login, under) ==
    granted' = Append(granted, [account |-> a, login |-> login, password |-> under])

CanIssue == Len(granted) < MaxHandles
Fresh == Len(granted) + 1

(* Session.renew, by what it answers: 0 is any refusal.  A handle's age is *)
(* looked at only here, and an aged one is deleted, so whether it is older *)
(* than refresh_expires_days is settled when it is presented.              *)
RenewUnknown(h) ==
    /\ h \notin live
    /\ UNCHANGED <<granted, live>>

RenewAged(h) ==
    /\ h \in live
    /\ live' = live \ {h}
    /\ UNCHANGED granted

RenewDisabled(h) ==
    /\ h \in live
    /\ granted[h].account \notin active
    /\ live' = live \ OwnedBy(granted[h].account)
    /\ UNCHANGED granted

Renewable(h) == h \in live /\ granted[h].account \in active

(* Mutant: the replacement is issued before the handle is deleted.         *)
RenewBrokenIssuingFirst(h) ==
    /\ Renewable(h)
    /\ CanIssue
    /\ Issue(granted[h].account, granted[h].login, granted[h].password)
    /\ live' = live \cup {Fresh}

(* Deleted before the replacement is issued: what a failure between the    *)
(* two commits leaves is no handle at all.                                 *)
RenewBroken(h) ==
    /\ Renewable(h)
    /\ live' = live \ {h}
    /\ UNCHANGED granted

Rotate(h) ==
    /\ Renewable(h)
    /\ CanIssue
    /\ Issue(granted[h].account, granted[h].login, granted[h].password)
    /\ live' = (live \ {h}) \cup {Fresh}

RenewAnswers(h, next) ==
    \/ RenewUnknown(h) /\ next = 0 /\ UNCHANGED excused
    \/ RenewAged(h) /\ next = 0 /\ excused' = excused \cup {h}
    \/ RenewDisabled(h) /\ next = 0 /\ excused' = excused \cup OwnedBy(granted[h].account)
    \/ RenewBroken(h) /\ next = 0 /\ excused' = excused \cup {h}
    \/ Rotate(h) /\ next = Fresh /\ UNCHANGED excused

\* mutant: the reset drops one handle, as a logout does
EndNewest(a) == live \ {h \in OwnedBy(a) : \A k \in OwnedBy(a) : k <= h}

(* The library's reset commits the new password, then on_after_reset drops *)
(* every handle of the account: end_all.                                   *)
EndAll(a) == live \ OwnedBy(a)

ResetPassword(a) ==
    /\ a \in active
    /\ password[a] < MaxResets
    /\ password' = [password EXCEPT ![a] = @ + 1]
    /\ live' = EndAll(a)
    /\ excused' = excused \cup OwnedBy(a)
    /\ torn' = torn \ {a}
    /\ UNCHANGED <<granted, active, tab>>

ResetBreaks(a) ==
    /\ a \in active
    /\ password[a] < MaxResets
    /\ password' = [password EXCEPT ![a] = @ + 1]
    /\ torn' = torn \cup {a}
    /\ UNCHANGED <<granted, live, active, tab, excused>>

(* is_active is cleared in the database, which no route does.              *)
Disable(a) ==
    /\ a \in active
    /\ active' = active \ {a}
    /\ UNCHANGED <<granted, live, password, tab, history>>

-----------------------------------------------------------------------------
(* The tab.  A request that needs a renewal joins the one in flight, or    *)
(* starts one with the handle of the session, or has nothing to wait for.  *)
Await(c, place, r) ==
    request' = [request EXCEPT ![c] = [at |-> place, on |-> r.by]]

Start(c, place) ==
    LET r == [by |-> c, handle |-> session, state |-> "sent", next |-> 0]
    IN  renewals' = renewals \cup {r} /\ Await(c, place, r)

Join(c, place) == \E r \in renewals : Await(c, place, r) /\ UNCHANGED renewals

\* mutant: no renewalRef, every request renews for itself
RenewForItself(c, place) == Start(c, place)

Renew(c, place) == IF renewals # {} THEN Join(c, place) ELSE Start(c, place)

(* authFetch, with a token that has time left or with one that has not.    *)
Fetch(c) ==
    /\ request[c] = Idle
    /\ session # 0
    /\ request' = [request EXCEPT ![c] = [at |-> "sent", on |-> NoRequest]]
    /\ UNCHANGED <<server, session, renewals, signIn, mail, history>>

FetchAhead(c) ==
    /\ request[c] = Idle
    /\ session # 0
    /\ Renew(c, "renewing ahead")
    /\ UNCHANGED <<server, session, signIn, mail, history>>

(* Answered with anything but a 401, or not answered.                      *)
FetchEnds(c) ==
    /\ request[c].at \in {"sent", "sent again"}
    /\ request' = [request EXCEPT ![c] = Idle]
    /\ UNCHANGED <<server, session, renewals, signIn, mail, history>>

(* The first 401 is worth one more renewal, unless there is neither one in *)
(* flight nor a session to renew; the second is let through (FetchEnds).   *)
FetchUnauthorized(c) ==
    /\ request[c].at = "sent"
    /\ renewals # {} \/ session # 0
    /\ Renew(c, "renewing again")
    /\ UNCHANGED <<server, session, signIn, mail, history>>

(* The promise of renewal r settles and all who awaited it go on at once:  *)
(* those ahead of their request send it, with the old token if need be;    *)
(* those after a 401 send it again if there is a token to send it with.    *)
\* mutant: those who joined the renewal are forgotten
WakeStarterOnly(r, next) ==
    request' = [request EXCEPT ![r.by] = Idle]

Wake(r, next) ==
    request' = [c \in Requests |->
        LET q == request[c]
        IN  IF q.on # r.by THEN q
            ELSE IF q.at = "renewing ahead"
            THEN [at |-> "sent", on |-> NoRequest]
            ELSE IF next # 0 THEN [at |-> "sent again", on |-> NoRequest] ELSE Idle]

ServeRefresh(r) ==
    /\ r.state = "sent"
    /\ \E next \in 0..MaxHandles :
          /\ RenewAnswers(r.handle, next)
          /\ renewals' = (renewals \ {r}) \cup {[r EXCEPT !.state = "answered", !.next = next]}
    /\ UNCHANGED <<active, password, session, signIn, request, mail, torn>>

(* Mutant: the replacement is used for the request and never stored.       *)
RefreshNotStored(r) ==
    /\ r.state = "answered"
    /\ renewals' = renewals \ {r}
    /\ Wake(r, r.next)
    /\ UNCHANGED <<server, session, signIn, mail, history>>

(* The answer replaces the session, whatever the session is by now.        *)
RefreshAnswered(r) ==
    /\ r.state = "answered"
    /\ session' = r.next
    /\ renewals' = renewals \ {r}
    /\ Wake(r, r.next)
    /\ UNCHANGED <<server, signIn, mail, history>>

(* What is sent and not waited for is lost, or is served some time later.  *)
Post(letters) ==
    \/ mail' = mail
    \/ Cardinality(mail \cup letters) <= MaxMail /\ mail' = mail \cup letters

Adrift(r) == IF r.state = "sent" THEN {[kind |-> "refresh", handle |-> r.handle]} ELSE {}

(* A network failure leaves the session as it was, with a handle that the  *)
(* server may have spent, or may yet spend.                                *)

RefreshFails(r) ==
    /\ renewals' = renewals \ {r}
    /\ Wake(r, 0)
    /\ Post(Adrift(r))
    /\ excused' = excused \cup {r.handle}
    /\ UNCHANGED <<server, session, signIn, torn>>

ServeMail(m) ==
    /\ \/ m.kind = "refresh" /\ \E next \in 0..MaxHandles : RenewAnswers(m.handle, next)
       \/ m.kind = "logout" /\ live' = live \ {m.handle} /\ UNCHANGED <<granted, excused>>
    /\ mail' = mail \ {m}
    /\ UNCHANGED <<active, password, session, renewals, signIn, request, torn>>

-----------------------------------------------------------------------------
(* The login form can be reached with a session, and with a renewal in     *)
(* flight.                                                                 *)
Login(a) ==
    /\ signIn = NoSignIn
    /\ signIn' = [account |-> a, state |-> "sent", next |-> 0]
    /\ UNCHANGED <<server, session, renewals, request, mail, history>>

ServeLogin ==
    /\ signIn.state = "sent"
    /\ signIn.account \in active
    /\ CanIssue
    /\ Issue(signIn.account, Fresh, password[signIn.account])
    /\ live' = live \cup {Fresh}
    /\ signIn' = [signIn EXCEPT !.state = "answered", !.next = Fresh]
    /\ UNCHANGED <<active, password, session, renewals, request, mail, history>>

LoginAnswered ==
    /\ signIn.state = "answered"
    /\ session' = signIn.next
    /\ signIn' = NoSignIn
    /\ UNCHANGED <<server, renewals, request, mail, history>>

(* A wrong password, a disabled account, a request or an answer lost.      *)
LoginFails ==
    /\ signIn # NoSignIn
    /\ signIn' = NoSignIn
    /\ UNCHANGED <<server, session, renewals, request, mail, history>>

(* logout clears the tab first and then sends the handle off.              *)
Logout ==
    /\ session # 0
    /\ session' = 0
    /\ Post({[kind |-> "logout", handle |-> session]})
    /\ excused' = excused \cup {session}
    /\ UNCHANGED <<server, renewals, signIn, request, torn>>

(* The tab is reloaded: only the stored session is left of it.  A login    *)
(* under way is either served before that or not at all.                   *)
Reload ==
    /\ signIn' = NoSignIn
    /\ request' = [c \in Requests |-> Idle]
    /\ renewals' = {}
    /\ Post(UNION {Adrift(r) : r \in renewals})
    /\ excused' = excused \cup {r.handle : r \in renewals}
    /\ UNCHANGED <<server, session, torn>>

-----------------------------------------------------------------------------
Init ==
    /\ granted = <<>> /\ live = {}
    /\ active = Accounts
    /\ password = [a \in Accounts |-> 0]
    /\ session = 0 /\ renewals = {} /\ signIn = NoSignIn
    /\ request = [c \in Requests |-> Idle]
    /\ mail = {}
    /\ excused = {} /\ torn = {}

Server ==
    \/ \E r \in renewals : ServeRefresh(r)
    \/ \E m \in mail : ServeMail(m)
    \/ ServeLogin
    \/ \E a \in Accounts : ResetPassword(a) \/ ResetBreaks(a) \/ Disable(a)

Tab ==
    \/ \E c \in Requests : Fetch(c) \/ FetchAhead(c) \/ FetchEnds(c) \/ FetchUnauthorized(c)
    \/ \E r \in renewals : RefreshAnswered(r) \/ RefreshFails(r)
    \/ \E a \in Accounts : Login(a)
    \/ LoginAnswered \/ LoginFails \/ Logout \/ Reload

Next == Server \/ Tab

(* The browser ends every fetch, with an answer or with an error.          *)
Fairness ==
    /\ WF_renewals(\E r \in renewals : RefreshAnswered(r) \/ RefreshFails(r))
    /\ \A c \in Requests : WF_request(FetchEnds(c))

Spec == Init /\ [][Next]_vars /\ Fairness

-----------------------------------------------------------------------------
(* The variables have their types, a request that waits does so for a      *)
(* renewal in flight, and there is at most one of those.                   *)
TypeOK ==
    /\ granted \in Seq(Grants) /\ Len(granted) <= MaxHandles
    /\ live \subseteq 1..Len(granted)
    /\ active \subseteq Accounts
    /\ password \in [Accounts -> 0..MaxResets]
    /\ session \in 0..Len(granted)
    /\ renewals \subseteq Renewals /\ Cardinality(renewals) <= 1
    /\ signIn \in SignIns
    /\ \A c \in Requests :
          /\ request[c].at \in Places
          /\ request[c].at \in {"renewing ahead", "renewing again"} <=>
                \E r \in renewals : request[c].on = r.by
    /\ mail \subseteq Mail
    /\ excused \subseteq 1..Len(granted) /\ torn \subseteq Accounts

(* Session.renew: however often a login is renewed, with answers lost and  *)
(* the server failing between its commits, one handle of it is live.       *)
OneHandlePerLogin ==
    \A h, k \in live : granted[h].login = granted[k].login => h = k

(* UserManager.on_after_reset_password: no login made with an earlier      *)
(* password can still be renewed, unless the server stopped between the    *)
(* two commits of the reset.                                               *)
ResetEndsSessions ==
    \A h \in live :
        LET a == granted[h].account
        IN  granted[h].password # password[a] => a \in torn

(* AuthProvider's renew: the handle a tab presents is one the server will  *)
(* still know, or was lost to something else than the tab's own requests.  *)
NoSelfReplay ==
    \A r \in renewals :
        r.state = "sent" => r.handle \in live \cup excused

(* AuthProvider's setSession: what the tab is signed in with is a live     *)
(* handle, or one whose replacement is on its way, or one that something   *)
(* outside the tab took away.                                              *)
SessionCanBeRenewed ==
    session # 0 =>
        \/ session \in live \cup excused
        \/ \E r \in renewals : r.handle = session /\ r.state = "answered"

(* authFetch: a request that waits for a renewal, its own or another's,    *)
(* goes on when that renewal has ended, in whatever way.                   *)
RequestsReturn ==
    \A c \in Requests : request[c].at # "idle" ~> request[c].at = "idle"

(* AuthProvider.tsx: "someone who pressed logout" is not "still looking at *)
(* the dashboard": a tab that is signed out comes back by a login only.    *)
LogoutHolds == [][session = 0 /\ session' # 0 => signIn.state = "answered"]_vars
=============================================================================
