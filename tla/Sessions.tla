------------------------------- MODULE Sessions --------------------------------
(***************************************************************************)
(* Who is logged in at a till: the token pairs the server gives out, the   *)
(* session the tablet keeps in memory and in IndexedDB, the requests that  *)
(* run into an expired access token and share one refresh, and the orders  *)
(* that are queued by one cashier and may be sent under another.           *)
(*                                                                         *)
(* An access token and the refresh token given out with it are one pair,   *)
(* known by its number; 0 is no token.  Orders are numbered as they are    *)
(* taken; what is in them does not matter here.                            *)
(***************************************************************************)
EXTENDS Integers, Sequences, FiniteSets

CONSTANTS
    Users,       \* cashiers
    NoUser,
    MaxOrders,   \* bound: orders taken
    MaxLogins,   \* bound: logins
    MaxExpiries, \* bound: access tokens that expire
    MaxTroubles  \* bound: messages lost, crashes during a refresh, reloads of the
                 \* page, passwords an admin sets anew and refresh tokens that
                 \* lapse, taken together

ASSUME SessionAssumption ==
    /\ NoUser \notin Users
    /\ {MaxOrders, MaxLogins, MaxExpiries, MaxTroubles} \subseteq Nat

VARIABLES
    owner,     \* whom each pair was given to, in the order of giving out
    live,      \* the pairs whose refresh token is not revoked
    fresh,     \* the pairs whose access token has not expired
    lapsed,    \* the refresh tokens of the pairs up to this one are too old
    recorded,  \* whom the server has each order from
    session,   \* the session the tablet shows
    saved,     \* the session in IndexedDB
    fallback,  \* the pair of the last login, which configureApi closed over
    requests,  \* the calls of api()
    refresh,   \* the one refresh in flight
    orders,    \* the queue of the tablet: who took each order, and its state
    logins, expiries, troubles,
    hasty,     \* history: this login came while a refresh was under way
    shaken,    \* history: something happened that may cost this session
    handed     \* history: orders that were someone else's at a login, or of a hasty one

server == <<owner, live, fresh, lapsed, recorded>>
tablet == <<session, saved, fallback, requests, refresh, orders>>
counts == <<logins, expiries, troubles>>
history == <<hasty, shaken, handed>>
vars == <<server, tablet, counts, history>>

Callers == {"sync", "screen"}
OrderIds == 1..MaxOrders
Pairs == DOMAIN owner

LoggedOut == [user |-> NoUser, pair |-> 0]
NoRequest == [at |-> "none", pair |-> 0, order |-> 0]
NoRefresh == [at |-> "none", pair |-> 0, given |-> 0]

Init ==
    /\ owner = <<>> /\ live = {} /\ fresh = {} /\ lapsed = 0
    /\ recorded = [o \in OrderIds |-> NoUser]
    /\ session = LoggedOut /\ saved = LoggedOut /\ fallback = 0
    /\ requests = [c \in Callers |-> NoRequest]
    /\ refresh = NoRefresh
    /\ orders = <<>>
    /\ logins = 0 /\ expiries = 0 /\ troubles = 0
    /\ hasty = FALSE /\ shaken = FALSE /\ handed = {}

\* Something that MaxTroubles counts.
Trouble == troubles < MaxTroubles /\ troubles' = troubles + 1

-------------------------------------------------------------------------------
(* The cashiers *)

\* signAccessToken, signRefreshToken: the pair given out next.
NextPair == Len(owner) + 1

GiveOut(u) ==
    /\ owner' = Append(owner, u)
    /\ fresh' = fresh \cup {NextPair}

\* Mutation: an order that was answered with 401 is not sent again.
QueuedPending == {o \in DOMAIN orders : orders[o].state = "pending"}

\* The rows a sync pass reads.
Queued == {o \in DOMAIN orders : orders[o].state \in {"pending", "failed"}}

\* POST /auth/login, and setSession with what it answers.  The login screen is
\* there when nobody is logged in.  Requests the tablet has under way go on.
Login(u) ==
    /\ session = LoggedOut /\ logins < MaxLogins
    /\ logins' = logins + 1
    /\ GiveOut(u)
    /\ live' = live \cup {NextPair}
    /\ session' = [user |-> u, pair |-> NextPair]
    /\ saved' = session'
    /\ fallback' = NextPair
    /\ hasty' = (refresh.at # "none" /\ refresh.pair = fallback)
    /\ shaken' = hasty'
    /\ handed' = handed \cup {o \in Queued : orders[o].by # u /\ recorded[o] = NoUser}
    /\ UNCHANGED <<lapsed, recorded, requests, refresh, orders, expiries, troubles>>

\* Mutation: the page is not loaded anew, what is under way goes on.
LogoutInPlace ==
    /\ session # LoggedOut
    /\ session' = LoggedOut /\ saved' = LoggedOut
    /\ UNCHANGED <<server, fallback, requests, refresh, orders, counts, history>>

\* A page that starts has the session of IndexedDB and nothing under way.
Boot(s) ==
    /\ session' = s /\ fallback' = s.pair
    /\ requests' = [c \in Callers |-> NoRequest]
    /\ refresh' = NoRefresh

\* The logout button: IndexedDB is cleared and the page loaded anew.
Logout ==
    /\ session # LoggedOut
    /\ saved' = LoggedOut
    /\ Boot(LoggedOut)
    /\ UNCHANGED <<server, orders, counts, history>>

\* The page is loaded anew with the pair IndexedDB has, which is the one of the
\* login: onRefreshed does not store what it gets.
Reload ==
    /\ Trouble
    /\ Boot(saved)
    /\ shaken' = (shaken \/ saved.pair \notin live)
    /\ UNCHANGED <<server, saved, orders, logins, expiries, hasty, handed>>

\* submitOrder: the order goes to the queue; who takes it is not part of it.
TakeOrder ==
    /\ session # LoggedOut /\ Len(orders) < MaxOrders
    /\ orders' = Append(orders, [by |-> session.user, state |-> "pending"])
    /\ handed' = IF hasty THEN handed \cup {Len(orders) + 1} ELSE handed
    /\ UNCHANGED <<server, session, saved, fallback, requests, refresh, counts, hasty, shaken>>

\* PUT /users/:id with a password: the user's refresh tokens are revoked.
SetPassword(u) ==
    /\ Trouble
    /\ live' = {p \in live : owner[p] # u}
    /\ shaken' = (shaken \/ session.user = u \/ (session # LoggedOut /\ owner[session.pair] = u))
    /\ UNCHANGED <<owner, fresh, lapsed, recorded, tablet, logins, expiries, hasty, handed>>

\* An access token lasts a quarter of an hour.
Expire(p) ==
    /\ expiries < MaxExpiries /\ p \in fresh
    /\ expiries' = expiries + 1
    /\ fresh' = fresh \ {p}
    /\ UNCHANGED <<owner, live, lapsed, recorded, tablet, logins, troubles, history>>

\* A refresh token lasts a fortnight from the day it was given out: they lapse in
\* the order of giving out, and their access tokens have expired long before.
Lapse ==
    /\ Trouble
    /\ lapsed < Len(owner) /\ lapsed + 1 \notin fresh
    /\ lapsed' = lapsed + 1
    /\ UNCHANGED <<owner, live, fresh, recorded, tablet, logins, expiries, history>>

-------------------------------------------------------------------------------
(* A call of api() *)

\* The sync pass sends the orders of the queue, under whoever is logged in or
\* nobody; a screen asks for something that does not matter here.
ToSend(c) == IF c = "sync" THEN Queued ELSE {0}

Send(c, o) ==
    /\ requests[c].at = "none" /\ o \in ToSend(c)
    /\ c = "screen" => session # LoggedOut
    /\ requests' = [requests EXCEPT ![c] = [at |-> "sent", pair |-> session.pair, order |-> o]]
    /\ UNCHANGED <<server, session, saved, fallback, refresh, orders, counts, history>>

\* Mutation: the cashier of an order is the one who sent it last.
RecordAgain(o, u) == recorded' = [recorded EXCEPT ![o] = u]

\* createOrder for the user of the access token; an order that is there already
\* stays as it is.
Record(o, u) == recorded' = [recorded EXCEPT ![o] = IF @ = NoUser THEN u ELSE @]

\* The server lets the call in.
Accepted(c) ==
    LET r == requests[c] IN
    /\ r.at \in {"sent", "again"} /\ r.pair \in fresh
    /\ IF r.order = 0 THEN UNCHANGED <<recorded, orders>>
       ELSE /\ Record(r.order, owner[r.pair])
            /\ orders' = [orders EXCEPT ![r.order].state = "acked"]
    /\ requests' = [requests EXCEPT ![c] = NoRequest]
    /\ UNCHANGED <<owner, live, fresh, lapsed, session, saved, fallback, refresh, counts, history>>

\* The refresh token of the session, or of the last login when there is none.
RefreshPair == IF session # LoggedOut THEN session.pair ELSE fallback

\* The rows whose calls end with 401 are failed.
FailRows(calls) ==
    orders' = [o \in DOMAIN orders |->
      IF \E c \in calls : requests[c].order = o THEN [orders[o] EXCEPT !.state = "failed"]
      ELSE orders[o]]

\* 401: the call waits for the refresh in flight or starts one.  A call that was
\* sent again, or a page nobody has logged in on, gives up.
Unauthorized(c) ==
    LET r == requests[c] IN
    /\ r.at \in {"sent", "again"} /\ r.pair \notin fresh
    /\ \/ /\ r.at = "again" \/ fallback = 0
          /\ requests' = [requests EXCEPT ![c] = NoRequest]
          /\ FailRows({c})
          /\ UNCHANGED refresh
       \/ /\ r.at = "sent" /\ fallback # 0
          /\ requests' = [requests EXCEPT ![c].at = "waiting"]
          /\ refresh' = IF refresh # NoRefresh THEN refresh
                        ELSE [at |-> "asked", pair |-> RefreshPair, given |-> 0]
          /\ UNCHANGED orders
    /\ UNCHANGED <<server, session, saved, fallback, counts, history>>

\* The network fails, before or after the server has done its part: the call
\* ends as offline, and the session stays.
CallLost(c) ==
    LET r == requests[c] IN
    /\ r.at \in {"sent", "again"}
    /\ Trouble
    /\ \/ UNCHANGED recorded
       \/ r.order # 0 /\ r.pair \in fresh /\ Record(r.order, owner[r.pair])
    /\ requests' = [requests EXCEPT ![c] = NoRequest]
    /\ UNCHANGED <<owner, live, fresh, lapsed, session, saved, fallback, refresh, orders, logins,
                   expiries, history>>

-------------------------------------------------------------------------------
(* The refresh *)

\* A refresh token that is neither revoked nor too old.
Accepts(p) == p \in live /\ p > lapsed

\* POST /auth/refresh: a refresh token that is accepted is revoked, and the user
\* gets another pair.
RefreshServed ==
    /\ refresh.at = "asked"
    /\ \/ /\ Accepts(refresh.pair)
          /\ GiveOut(owner[refresh.pair])
          /\ live' = (live \ {refresh.pair}) \cup {NextPair}
          /\ refresh' = [at |-> "granted", pair |-> refresh.pair, given |-> NextPair]
       \/ /\ ~Accepts(refresh.pair)
          /\ refresh' = [refresh EXCEPT !.at = "denied"]
          /\ UNCHANGED <<owner, live, fresh>>
    /\ UNCHANGED <<lapsed, recorded, session, saved, fallback, requests, orders, counts, history>>

\* The question or its answer gets lost, or the server dies after it revoked the
\* old token and before it stored the new one.
RefreshLost ==
    /\ refresh.at \in {"asked", "granted"}
    /\ Trouble
    /\ refresh' = [refresh EXCEPT !.at = "denied"]
    /\ live' \in IF refresh.at = "asked" THEN {live, live \ {refresh.pair}} ELSE {live}
    /\ shaken' = TRUE
    /\ UNCHANGED <<owner, fresh, lapsed, recorded, session, saved, fallback, requests, orders,
                   logins, expiries, hasty, handed>>

\* Mutation: a pair that comes when nobody is logged in opens a session.
OnRefreshedAlways == [session EXCEPT !.pair = refresh.given]

\* Mutation: the session keeps the pair it had.
OnRefreshedForgets == session

OnRefreshed == IF session = LoggedOut THEN session ELSE [session EXCEPT !.pair = refresh.given]

\* All calls that waited are sent again with what the session has now.
RefreshGranted ==
    /\ refresh.at = "granted"
    /\ session' = OnRefreshed
    /\ requests' = [c \in Callers |->
         IF requests[c].at = "waiting"
         THEN [at |-> "again", pair |-> session'.pair, order |-> requests[c].order]
         ELSE requests[c]]
    /\ refresh' = NoRefresh
    /\ UNCHANGED <<server, saved, fallback, orders, counts, history>>

\* All calls that waited fail, and whoever is logged in by now is logged out.
RefreshDenied ==
    /\ refresh.at = "denied"
    /\ session' = LoggedOut /\ saved' = LoggedOut
    /\ requests' = [c \in Callers |->
         IF requests[c].at = "waiting" THEN NoRequest ELSE requests[c]]
    /\ FailRows({c \in Callers : requests[c].at = "waiting"})
    /\ refresh' = NoRefresh
    /\ UNCHANGED <<server, fallback, counts, history>>

Answered(c) == Accepted(c) \/ Unauthorized(c)
Refreshed == RefreshServed \/ RefreshGranted \/ RefreshDenied

Next ==
    \/ \E u \in Users : Login(u) \/ SetPassword(u)
    \/ Logout \/ Reload \/ TakeOrder
    \/ \E p \in Pairs : Expire(p)
    \/ Lapse
    \/ \E c \in Callers, o \in OrderIds \cup {0} : Send(c, o)
    \/ \E c \in Callers : Answered(c) \/ CallLost(c)
    \/ Refreshed \/ RefreshLost

\* A pass goes through all rows of the queue and there is always another one;
\* calls and refreshes are answered.
Fairness ==
    /\ \A o \in OrderIds : SF_vars(Send("sync", o))
    /\ \A c \in Callers : WF_vars(Answered(c))
    /\ WF_vars(Refreshed)

Spec == Init /\ [][Next]_vars
FairSpec == Spec /\ Fairness

-------------------------------------------------------------------------------
(* Properties *)

Session == [user : Users, pair : Pairs] \cup {LoggedOut}

\* The state has its shape; nobody has a session without a pair, and only calls
\* that wait have a refresh under way.
TypeOK ==
    /\ owner \in Seq(Users) /\ live \subseteq Pairs /\ fresh \subseteq Pairs
    /\ lapsed \in 0..Len(owner)
    /\ recorded \in [OrderIds -> Users \cup {NoUser}]
    /\ session \in Session /\ saved \in Session /\ fallback \in Pairs \cup {0}
    /\ \A c \in Callers :
         /\ requests[c].at \in {"none", "sent", "waiting", "again"}
         /\ requests[c].pair \in Pairs \cup {0}
         /\ requests[c].order \in DOMAIN orders \cup {0}
    /\ refresh.at \in {"none", "asked", "granted", "denied"}
    /\ refresh = NoRefresh <=> \A c \in Callers : requests[c].at # "waiting"
    /\ refresh # NoRefresh => refresh.pair \in Pairs
    /\ orders \in Seq([by : Users, state : {"pending", "failed", "acked"}])
    /\ logins \in 0..MaxLogins /\ expiries \in 0..MaxExpiries /\ troubles \in 0..MaxTroubles

\* A session works with its own user's tokens, through refreshes, reloads and
\* changes of cashier; unless the sync pass was refreshing the pair of the
\* previous session while this user logged in.
OwnTokens ==
    session # LoggedOut /\ owner[session.pair] # session.user => hasty

\* The server has an order from the cashier who took it, unless it had not
\* reached the server when another one logged in.  An order the server has
\* keeps its cashier, whoever replays it.
RecordedForTaker ==
    \A o \in DOMAIN orders :
      recorded[o] \notin {NoUser, orders[o].by} => o \in handed

\* Nobody is thrown out of a session because access tokens expire, however many
\* calls meet the expired one at a time: it takes a refresh that got lost, a new
\* password, a reload that brings a used pair back, a login during a refresh, or
\* that the session's own refresh token is a fortnight old, and not another's.
StaysLoggedIn ==
    [][session # LoggedOut /\ session' = LoggedOut =>
         Logout \/ shaken \/ session.pair <= lapsed]_session

\* While someone is logged in, whoever, every queued order reaches the server, be
\* tokens expired or calls lost: a row that was answered with 401 is tried again.
QueueDelivered ==
    <>[](session # LoggedOut) =>
      \A o \in OrderIds : o \in DOMAIN orders ~> o \in DOMAIN orders /\ orders[o].state = "acked"
===============================================================================
