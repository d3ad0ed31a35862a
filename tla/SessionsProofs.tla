---------------------------- MODULE SessionsProofs -----------------------------
(***************************************************************************)
(* Theorems about the sessions of a till, for any number of cashiers,      *)
(* logins, orders, expired tokens and lost calls.                          *)
(***************************************************************************)
EXTENDS Sessions, SequenceTheorems, TLAPS

-------------------------------------------------------------------------------
(* The inductive invariant *)

Request == [at : {"none", "sent", "waiting", "again"}, pair : Pairs \cup {0},
            order : DOMAIN orders \cup {0}]

Refresh == [at : {"asked", "granted", "denied"}, pair : Pairs, given : Pairs \cup {0}]
             \cup {NoRefresh}

\* TypeOK with the records spelled out.
Shape ==
    /\ owner \in Seq(Users) /\ live \subseteq Pairs /\ fresh \subseteq Pairs
    /\ lapsed \in 0..Len(owner)
    /\ recorded \in [OrderIds -> Users \cup {NoUser}]
    /\ session \in Session /\ saved \in Session /\ fallback \in Pairs \cup {0}
    /\ requests \in [Callers -> Request]
    /\ refresh \in Refresh
    /\ orders \in Seq([by : Users, state : {"pending", "failed", "acked"}])
    /\ Len(orders) <= MaxOrders
    /\ hasty \in BOOLEAN /\ shaken \in BOOLEAN

Counts ==
    /\ logins \in 0..MaxLogins /\ expiries \in 0..MaxExpiries /\ troubles \in 0..MaxTroubles

Waits == refresh = NoRefresh <=> \A c \in Callers : requests[c].at # "waiting"

InFlight == refresh # NoRefresh
LoggedIn == session # LoggedOut

\* Pair p is of the user of the session, or may not be.
Speaks(p) == owner[p] = session.user \/ hasty

\* Sent with pair p, no order goes to another cashier's account unforeseen.
Serves(p) ==
    \A o \in DOMAIN orders :
      recorded[o] = NoUser => orders[o].by = owner[p] \/ o \in handed

\* What is stored is of the user who is logged in, and is the last login.
Stored ==
    /\ LoggedIn => /\ saved # LoggedOut /\ saved.user = session.user
                   /\ fallback = saved.pair /\ owner[fallback] = session.user
    /\ ~LoggedIn => saved = LoggedOut

\* The pair of the session is its user's, and so is the one being refreshed,
\* which nobody could have asked for but the session or the login before it.
Tokens ==
    /\ LoggedIn => Speaks(session.pair) /\ (InFlight => Speaks(refresh.pair))
    /\ ~LoggedIn /\ InFlight => refresh.pair = fallback
    /\ refresh.at = "granted" => refresh.given # 0 /\ owner[refresh.given] = owner[refresh.pair]

\* An order that is not at the server yet goes there in its cashier's name.
Names ==
    /\ LoggedIn => Serves(session.pair) /\ (InFlight => Serves(refresh.pair))
    /\ fallback # 0 => Serves(fallback)
    /\ \A c \in Callers :
         LET r == requests[c] IN
         r.order # 0 /\ r.pair # 0 /\ recorded[r.order] = NoUser =>
           owner[r.pair] = orders[r.order].by \/ r.order \in handed
    /\ RecordedForTaker
    /\ \A o \in OrderIds \ DOMAIN orders : recorded[o] = NoUser
    /\ \A o \in DOMAIN orders : orders[o].state = "acked" => recorded[o] # NoUser

\* A session whose refresh token does not work any more has been shaken, or the
\* token is too old.
Alive ==
    /\ hasty => shaken
    /\ LoggedIn =>
         /\ session.pair \notin live => shaken \/ refresh.at = "granted"
         /\ InFlight => refresh.pair = session.pair \/ shaken
         /\ refresh.at = "granted" => refresh.given \in live \/ shaken
         /\ refresh.at = "denied" => shaken \/ session.pair <= lapsed

IInv == Shape /\ Counts /\ Waits /\ Stored /\ Tokens /\ Names /\ Alive

\* The definitions the steps expand.
USE DEF IInv, LoggedIn, InFlight

-------------------------------------------------------------------------------
(* Rows and pairs *)

\* A pair that was given out has a number, an owner, and is not 0.
LEMMA PairNumbers ==
    ASSUME Shape
    PROVE  /\ Len(owner) \in Nat /\ Pairs = 1..Len(owner) /\ 0 \notin Pairs
           /\ \A p \in Pairs : owner[p] \in Users
           /\ \A p \in Pairs : owner[p] # NoUser
           /\ NextPair \in Nat /\ NextPair # 0 /\ NextPair \notin Pairs
BY LenProperties, ElementOfSeq, SessionAssumption DEF Shape, Pairs, NextPair

\* An order that was taken has a number, and a row of its type.
LEMMA OrderNumbers ==
    ASSUME Shape
    PROVE  /\ Len(orders) \in Nat /\ DOMAIN orders = 1..Len(orders) /\ 0 \notin DOMAIN orders
           /\ DOMAIN orders \subseteq OrderIds
           /\ \A o \in DOMAIN orders :
                orders[o] \in [by : Users, state : {"pending", "failed", "acked"}]
<1> DEFINE Rows == [by : Users, state : {"pending", "failed", "acked"}]
<1>1. orders \in Seq(Rows) /\ Len(orders) <= MaxOrders
  BY DEF Shape
<1> HIDE DEF Rows
<1>2. Len(orders) \in Nat /\ DOMAIN orders = 1..Len(orders)
  BY <1>1, LenProperties
<1>3. \A o \in DOMAIN orders : orders[o] \in Rows
  BY <1>1, <1>2, ElementOfSeq
<1>4. 0 \notin DOMAIN orders /\ DOMAIN orders \subseteq OrderIds
  BY <1>1, <1>2, SessionAssumption DEF OrderIds
<1> QED
  BY <1>2, <1>3, <1>4 DEF Rows

\* What the server does not have is in the queue.
LEMMA Unheard ==
    ASSUME Shape, Names
    PROVE  \A o \in DOMAIN orders : recorded[o] = NoUser => o \in Queued
<1> TAKE o \in DOMAIN orders
<1>1. orders[o].state \in {"pending", "failed", "acked"}
  BY OrderNumbers
<1> QED
  BY <1>1 DEF Names, Queued

\* Giving out a pair adds one and takes none from anyone.
LEMMA NewPair ==
    ASSUME Shape, NEW u \in Users, GiveOut(u)
    PROVE  /\ owner' \in Seq(Users) /\ Pairs' = Pairs \cup {NextPair}
           /\ Len(owner') = Len(owner) + 1 /\ 0..Len(owner) \subseteq 0..Len(owner')
           /\ owner'[NextPair] = u
           /\ \A p \in Pairs : owner'[p] = owner[p]
           /\ fresh' = fresh \cup {NextPair}
<1>1. owner \in Seq(Users) /\ Len(owner) \in Nat /\ Pairs = 1..Len(owner)
  BY PairNumbers DEF Shape
<1>2. owner' = Append(owner, u) /\ fresh' = fresh \cup {NextPair}
  BY DEF GiveOut
<1>3. /\ Len(owner') = Len(owner) + 1
      /\ \A p \in 1..Len(owner) : owner'[p] = owner[p]
      /\ owner'[Len(owner) + 1] = u
      /\ owner' \in Seq(Users)
  BY <1>1, <1>2, AppendProperties
<1>4. Pairs' = 1..(Len(owner) + 1)
  BY <1>3, LenProperties DEF Pairs
<1> QED
  BY <1>1, <1>2, <1>3, <1>4 DEF NextPair

-------------------------------------------------------------------------------
(* The steps *)

\* An access token that expires is no one's business but its caller's.
LEMMA StepExpire ==
    ASSUME IInv, NEW p \in Pairs, Expire(p)
    PROVE  IInv'
<1> USE DEF Expire, tablet, history
<1>1. Shape'
  BY DEF Shape, Pairs, Request, Refresh, Session
<1>2. Counts'
  BY SessionAssumption DEF Counts, Trouble
<1>3. Waits' /\ Stored' /\ Tokens' /\ Alive'
  BY DEF Waits, Stored, Tokens, Speaks, Alive
<1>4. Names'
  BY DEF Names, Serves, RecordedForTaker
<1> QED
  BY <1>1, <1>2, <1>3, <1>4

\* A refresh token that lapses revokes none, and shakes nobody.
LEMMA StepLapse ==
    ASSUME IInv, Lapse
    PROVE  IInv'
<1> USE DEF Lapse, tablet, history
<1>1. Len(owner) \in Nat /\ lapsed \in 0..Len(owner) /\ lapsed' = lapsed + 1 /\ lapsed < Len(owner)
  BY PairNumbers DEF Shape
<1>2. lapsed' \in 0..Len(owner)
  BY <1>1
<1>3. Shape'
  BY <1>2 DEF Shape, Pairs, Request, Refresh, Session
<1>4. Counts'
  BY SessionAssumption DEF Counts, Trouble
<1>5. Waits' /\ Stored' /\ Tokens'
  BY DEF Waits, Stored, Tokens, Speaks
<1>6. LoggedIn => session.pair \in Nat
  BY <1>1, PairNumbers DEF Shape, Session
<1>7. LoggedIn /\ session.pair <= lapsed => session.pair <= lapsed'
  BY <1>1, <1>6
<1>8. Alive'
  BY <1>7 DEF Alive
<1>9. Names'
  BY DEF Names, Serves, RecordedForTaker
<1> QED
  BY <1>3, <1>4, <1>5, <1>8, <1>9

\* A new password revokes pairs of one user, whose session is shaken with them.
LEMMA StepSetPassword ==
    ASSUME IInv, NEW u \in Users, SetPassword(u)
    PROVE  IInv'
<1> USE DEF SetPassword, tablet
<1>1. Shape'
  BY DEF Shape, Pairs, Request, Refresh, Session
<1>2. Counts'
  BY SessionAssumption DEF Counts, Trouble
<1>3. Waits' /\ Stored' /\ Tokens'
  BY DEF Waits, Stored, Tokens, Speaks
<1>4. Names'
  BY DEF Names, Serves, RecordedForTaker
<1>5. /\ shaken => shaken'
      /\ LoggedIn /\ (session.user = u \/ owner[session.pair] = u) => shaken'
      /\ \A p \in live : p \notin live' => owner[p] = u
  BY DEF Shape
<1>6. LoggedIn /\ refresh.at = "granted" /\ refresh.given \notin live' => shaken'
  <2> SUFFICES ASSUME LoggedIn, refresh.at = "granted", refresh.given \notin live'
               PROVE  shaken'
    OBVIOUS
  <2>1. CASE refresh.given \notin live
    BY <2>1, <1>5 DEF Alive
  <2>2. CASE refresh.given \in live
    <3>1. InFlight
      BY DEF NoRefresh
    <3>2. owner[refresh.pair] = u
      BY <2>2, <1>5 DEF Tokens
    <3> QED
      BY <3>1, <3>2, <1>5 DEF Tokens, Speaks, Alive
  <2> QED
    BY <2>1, <2>2
<1>7. Alive'
  BY <1>5, <1>6 DEF Alive
<1> QED
  BY <1>1, <1>2, <1>3, <1>4, <1>7

\* An order is taken by who is logged in, whose pair will carry it.
LEMMA StepTakeOrder ==
    ASSUME IInv, TakeOrder
    PROVE  IInv'
<1> USE DEF TakeOrder, server, counts
<1> DEFINE new == [by |-> session.user, state |-> "pending"]
<1>1. /\ orders' = Append(orders, new)
      /\ new \in [by : Users, state : {"pending", "failed", "acked"}]
      /\ new.by = session.user
  BY DEF Shape, Session
<1> HIDE DEF new
<1>2. /\ orders' \in Seq([by : Users, state : {"pending", "failed", "acked"}])
      /\ Len(orders') = Len(orders) + 1
      /\ \A o \in 1..Len(orders) : orders'[o] = orders[o]
      /\ orders'[Len(orders) + 1] = new
      /\ DOMAIN orders' = DOMAIN orders \cup {Len(orders) + 1}
  BY <1>1, AppendProperties, LenProperties, OrderNumbers DEF Shape
<1>3. Shape'
  BY <1>2, OrderNumbers, SessionAssumption DEF Shape, Pairs, Request, Refresh, Session
<1>4. Counts' /\ Waits' /\ Stored' /\ Tokens' /\ Alive'
  BY DEF Counts, Waits, Stored, Tokens, Speaks, Alive
<1>5. /\ \A o \in DOMAIN orders : o \in DOMAIN orders' /\ orders'[o] = orders[o]
      /\ handed \subseteq handed'
      /\ \A o \in DOMAIN orders' : o \in DOMAIN orders \/ o = Len(orders) + 1
      /\ hasty => Len(orders) + 1 \in handed'
      /\ orders'[Len(orders) + 1].by = session.user
  BY <1>1, <1>2, OrderNumbers
<1>6. \A p \in Pairs : Serves(p) /\ Speaks(p) => Serves(p)'
  BY <1>5 DEF Serves, Speaks
<1>7. session.pair \in Pairs /\ (InFlight => refresh.pair \in Pairs) /\ fallback \in Pairs \cup {0}
  BY DEF Shape, Session, Refresh
<1>8. Len(orders) + 1 \in OrderIds \ DOMAIN orders
  BY OrderNumbers, SessionAssumption DEF OrderIds
<1>9. Names'
  <2>1. LoggedIn /\ session' = session /\ refresh' = refresh /\ fallback' = fallback
    OBVIOUS
  <2>2. Serves(session.pair)' /\ (InFlight => Serves(refresh.pair)')
    BY <1>6, <1>7, <2>1 DEF Names, Tokens
  <2>3. fallback # 0 => Serves(fallback)'
    BY <1>6, <1>7, <2>1 DEF Names, Stored, Speaks
  <2>4. \A c \in Callers : requests[c].order # 0 => requests[c].order \in DOMAIN orders
    BY DEF Shape, Request
  <2>5. RecordedForTaker'
    <3>1. recorded'[Len(orders) + 1] = NoUser
      BY <1>8 DEF Names
    <3> QED
      BY <1>5, <3>1 DEF Names, RecordedForTaker
  <2>6. \A o \in (OrderIds \ DOMAIN orders)' : recorded'[o] = NoUser
    BY <1>5 DEF Names, OrderIds
  <2>7. new.state = "pending"
    BY DEF new
  <2>8. \A o \in DOMAIN orders' : orders'[o].state = "acked" => recorded'[o] # NoUser
    BY <1>2, <1>5, <2>7 DEF Names
  <2> QED
    BY <1>5, <2>1, <2>2, <2>3, <2>4, <2>5, <2>6, <2>8 DEF Names
<1> QED
  BY <1>3, <1>4, <1>9
\* A logout leaves nothing under way.
LEMMA StepLogout ==
    ASSUME IInv, Logout
    PROVE  IInv'
<1> USE DEF Logout, Boot, server, counts, history
<1>1. Shape'
  BY DEF Shape, Pairs, Request, Refresh, Session, LoggedOut, NoRequest
<1>2. Counts' /\ Waits' /\ Stored' /\ Tokens' /\ Alive'
  BY DEF Counts, Waits, Stored, Tokens, Alive, NoRequest, NoRefresh
<1>3. Names'
  BY DEF Names, RecordedForTaker, NoRequest, LoggedOut
<1> QED
  BY <1>1, <1>2, <1>3

\* A page that starts has the pair of the last login, of the same user.
LEMMA StepReload ==
    ASSUME IInv, Reload
    PROVE  IInv'
<1> USE DEF Reload, Boot, server
<1>1. Shape'
  BY DEF Shape, Pairs, Request, Refresh, Session, LoggedOut, NoRequest
<1>2. LoggedIn <=> saved # LoggedOut
  BY DEF Stored
<1>3. saved # LoggedOut => saved.pair # 0
  BY PairNumbers DEF Shape, Session
<1>4. Counts' /\ Waits'
  BY SessionAssumption DEF Counts, Trouble, Waits, NoRequest, NoRefresh
<1>5. Stored' /\ Tokens'
  BY <1>2 DEF Stored, Tokens, Speaks, NoRefresh
<1>6. Alive'
  BY <1>2 DEF Alive, NoRefresh, Shape
<1>7. Names'
  BY <1>2, <1>3 DEF Names, Serves, RecordedForTaker, NoRequest, LoggedOut, Stored
<1> QED
  BY <1>1, <1>4, <1>5, <1>6, <1>7

\* A login takes over the queue: what is not at the server is handed over, and
\* the refresh of the session before it makes it hasty.
LEMMA StepLogin ==
    ASSUME IInv, NEW u \in Users, Login(u)
    PROVE  IInv'
<1> USE DEF Login
<1>1. GiveOut(u) /\ Shape
  OBVIOUS
<1>2. /\ owner' \in Seq(Users) /\ Pairs' = Pairs \cup {NextPair}
      /\ owner'[NextPair] = u
      /\ \A p \in Pairs : owner'[p] = owner[p]
      /\ fresh' = fresh \cup {NextPair} /\ lapsed' \in 0..Len(owner')
  BY <1>1, NewPair DEF Shape
<1>3. NextPair # 0 /\ NextPair \notin Pairs /\ 0 \notin Pairs
  BY <1>1, PairNumbers
<1>4. /\ ~LoggedIn /\ InFlight => refresh.pair = fallback /\ refresh.pair \in Pairs
      /\ InFlight => refresh.at # "none"
      /\ refresh.at = "granted" => InFlight /\ refresh.given \in Pairs
      /\ refresh.at = "denied" => InFlight
  BY DEF Tokens, Shape, Refresh, NoRefresh
<1>5. InFlight => hasty' /\ shaken'
  BY <1>4
<1>6. session' = [user |-> u, pair |-> NextPair] /\ session' # LoggedOut
  BY <1>3 DEF LoggedOut
<1>7. Shape'
  BY <1>2, <1>6 DEF Shape, Request, Refresh, Session
<1>8. Counts' /\ Waits'
  BY SessionAssumption DEF Counts, Trouble, Waits
<1>9. Stored' /\ Tokens' /\ Alive'
  BY <1>2, <1>4, <1>5, <1>6 DEF Stored, Tokens, Speaks, Alive
<1>10. /\ handed \subseteq handed'
       /\ \A p \in Pairs : Serves(p) => Serves(p)'
  BY <1>2 DEF Serves
<1>11. \A o \in DOMAIN orders : recorded[o] = NoUser => orders[o].by = u \/ o \in handed'
  BY <1>1, Unheard
<1>12. Names'
  <2>1. InFlight => Serves(refresh.pair)'
    BY <1>3, <1>4, <1>10 DEF Names
  <2>2. \A c \in Callers : requests[c].pair \in Pairs \cup {0}
    BY DEF Shape, Request
  <2>3. Serves(session.pair)' /\ Serves(fallback)'
    BY <1>2, <1>6, <1>11 DEF Serves
  <2>4. \A c \in Callers :
          LET r == requests[c] IN
          r.order # 0 /\ r.pair # 0 /\ recorded[r.order] = NoUser =>
            owner'[r.pair] = orders[r.order].by \/ r.order \in handed'
    BY <1>2, <1>10, <2>2 DEF Names
  <2>5. RecordedForTaker'
    BY <1>10 DEF Names, RecordedForTaker
  <2> QED
    BY <2>1, <2>3, <2>4, <2>5 DEF Names
<1> QED
  BY <1>7, <1>8, <1>9, <1>12

\* A call goes out with the pair of the session.
LEMMA StepSend ==
    ASSUME IInv, NEW c \in Callers, NEW o \in OrderIds \cup {0}, Send(c, o)
    PROVE  IInv'
<1> USE DEF Send, server, counts, history
<1> DEFINE call == [at |-> "sent", pair |-> session.pair, order |-> o]
<1>1. /\ requests' = [requests EXCEPT ![c] = call]
      /\ call.at = "sent" /\ call.pair = session.pair /\ call.order = o
  OBVIOUS
<1>2. call \in Request
  BY DEF ToSend, Queued, Request, Shape, Session, LoggedOut
<1> HIDE DEF call
<1>3. /\ requests' \in [Callers -> Request] /\ requests'[c] = call
      /\ \A d \in Callers : d # c => requests'[d] = requests[d]
  BY <1>1, <1>2 DEF Shape
<1>4. Shape'
  BY <1>3 DEF Shape, Pairs, Request, Refresh, Session
<1>5. Counts' /\ Stored' /\ Tokens' /\ Alive'
  BY DEF Counts, Stored, Tokens, Speaks, Alive
<1>6. Waits'
  BY <1>1, <1>3 DEF Waits
<1>7. o # 0 => o \in DOMAIN orders
  BY DEF ToSend, Queued
<1>8. Names'
  <2>1. \A p \in Pairs : Serves(p) => Serves(p)'
    BY DEF Serves
  <2>2. o # 0 /\ session.pair # 0 /\ recorded[o] = NoUser =>
          owner[session.pair] = orders[o].by \/ o \in handed
    BY <1>7 DEF Names, Serves, LoggedOut
  <2> QED
    BY <1>1, <1>3, <2>1, <2>2 DEF Names, RecordedForTaker, Serves
<1> QED
  BY <1>4, <1>5, <1>6, <1>8

\* What the calls that end with 401 leave of the queue.
LEMMA RowsFail ==
    ASSUME Shape, NEW calls, FailRows(calls)
    PROVE  /\ orders' \in Seq([by : Users, state : {"pending", "failed", "acked"}])
           /\ DOMAIN orders' = DOMAIN orders /\ Len(orders') = Len(orders)
           /\ \A o \in DOMAIN orders : /\ orders'[o].by = orders[o].by
                                       /\ orders'[o].state = "acked" => orders[o].state = "acked"
<1> DEFINE Rows == [by : Users, state : {"pending", "failed", "acked"}]
<1>1. /\ Len(orders) \in Nat /\ DOMAIN orders = 1..Len(orders)
      /\ \A o \in DOMAIN orders : orders[o] \in Rows
  BY OrderNumbers
<1>2. /\ orders' = [o \in 1..Len(orders) |-> orders'[o]]
      /\ \A o \in 1..Len(orders) :
           orders'[o] = orders[o] \/ orders'[o] = [orders[o] EXCEPT !.state = "failed"]
  BY <1>1 DEF FailRows
<1>3. \A o \in 1..Len(orders) :
        /\ orders'[o] \in Rows
        /\ orders'[o].by = orders[o].by
        /\ orders'[o].state = "acked" => orders[o].state = "acked"
  BY <1>1, <1>2
<1> HIDE DEF Rows
<1>4. orders' \in [1..Len(orders) -> Rows]
  BY <1>2, <1>3
<1>5. orders' \in Seq(Rows)
  BY <1>1, <1>4, SeqDef
<1>6. DOMAIN orders' = DOMAIN orders /\ Len(orders') = Len(orders)
  BY <1>1, <1>4, <1>5, LenProperties
<1> QED
  BY <1>1, <1>3, <1>5, <1>6 DEF Rows

\* What reaches the server with call c is recorded, if at all, for its cashier.
LEMMA Heard ==
    ASSUME IInv, NEW c \in Callers, requests[c].order # 0, requests[c].pair \in fresh,
           Record(requests[c].order, owner[requests[c].pair])
    PROVE  LET o == requests[c].order IN
           /\ o \in DOMAIN orders
           /\ recorded' \in [OrderIds -> Users \cup {NoUser}]
           /\ recorded'[o] # NoUser
           /\ recorded'[o] = recorded[o] \/ recorded'[o] = orders[o].by \/ o \in handed
           /\ \A q \in OrderIds : q # o => recorded'[q] = recorded[q]
           /\ \A q \in OrderIds : recorded'[q] = NoUser => recorded[q] = NoUser
<1> DEFINE o == requests[c].order
           u == owner[requests[c].pair]
<1>1. o \in DOMAIN orders /\ o \in OrderIds
  BY OrderNumbers DEF Shape, Request
<1>2. u \in Users /\ u # NoUser /\ requests[c].pair # 0
  BY PairNumbers DEF Shape
<1>3. recorded[o] = NoUser => u = orders[o].by \/ o \in handed
  BY <1>2 DEF Names
<1>4. recorded' = [recorded EXCEPT ![o] = IF recorded[o] = NoUser THEN u ELSE recorded[o]]
  BY DEF Record
<1> HIDE DEF o, u
<1>5. recorded \in [OrderIds -> Users \cup {NoUser}]
  BY DEF Shape
<1> QED
  BY ONLY <1>1, <1>2, <1>3, <1>4, <1>5 DEF o

\* A step that gives no one another pair and calls no order by another name.
LEMMA NamesKept ==
    ASSUME Shape, Names, UNCHANGED <<owner, session, fallback, handed>>,
           InFlight' => InFlight /\ refresh'.pair = refresh.pair,
           DOMAIN orders' = DOMAIN orders,
           \A q \in DOMAIN orders :
             /\ orders'[q].by = orders[q].by
             /\ orders'[q].state = "acked" => recorded'[q] # NoUser
             /\ recorded'[q] = NoUser => recorded[q] = NoUser
             /\ recorded'[q] = recorded[q] \/ recorded'[q] = orders[q].by \/ q \in handed,
           \A q \in OrderIds \ DOMAIN orders : recorded'[q] = NoUser,
           \A d \in Callers :
             \/ requests'[d].order = 0
             \/ requests'[d].order = requests[d].order /\ requests'[d].pair = requests[d].pair
    PROVE  Names'
<1>1. \A d \in Callers : requests[d].order \in DOMAIN orders \cup {0}
  BY DEF Shape, Request
<1>2. /\ LoggedIn => Serves(session.pair)' /\ (InFlight' => Serves(refresh.pair)')
      /\ fallback # 0 => Serves(fallback)'
  BY DEF Names, Serves
<1>3. \A d \in Callers :
        LET r == requests'[d] IN
        r.order # 0 /\ r.pair # 0 /\ recorded'[r.order] = NoUser =>
          owner[r.pair] = orders'[r.order].by \/ r.order \in handed
  BY <1>1 DEF Names
<1>4. RecordedForTaker'
  BY DEF Names, RecordedForTaker
<1> QED
  BY <1>2, <1>3, <1>4 DEF Names, OrderIds

\* A lost call may have been heard.
LEMMA StepCallLost ==
    ASSUME IInv, NEW c \in Callers, CallLost(c)
    PROVE  IInv'
<1> USE DEF CallLost, history
<1>1. /\ requests' = [requests EXCEPT ![c] = NoRequest]
      /\ requests[c].at \notin {"none", "waiting"}
      /\ requests \in [Callers -> Request]
  BY DEF Shape
<1>2. /\ requests' \in [Callers -> Request]
      /\ requests'[c] = NoRequest
      /\ \A d \in Callers : d # c => requests'[d] = requests[d]
  BY <1>1 DEF Request, NoRequest
<1>3. /\ recorded' \in [OrderIds -> Users \cup {NoUser}]
      /\ \A q \in OrderIds : recorded'[q] = NoUser => recorded[q] = NoUser
      /\ \A q \in OrderIds \ DOMAIN orders : recorded'[q] = NoUser
      /\ \A q \in DOMAIN orders :
           recorded'[q] = recorded[q] \/ recorded'[q] = orders[q].by \/ q \in handed
  <2>1. CASE UNCHANGED recorded
    BY <2>1 DEF Shape, Names
  <2>2. CASE requests[c].order # 0 /\ requests[c].pair \in fresh
               /\ Record(requests[c].order, owner[requests[c].pair])
    BY <2>2, Heard, OrderNumbers DEF Names
  <2> QED
    BY <2>1, <2>2
<1>4. Shape'
  BY <1>2, <1>3 DEF Shape, Pairs, Request, Refresh, Session
<1>5. Counts' /\ Stored' /\ Tokens' /\ Alive'
  BY SessionAssumption DEF Counts, Trouble, Stored, Tokens, Speaks, Alive
<1>6. Waits'
  BY <1>1, <1>2 DEF Waits, NoRequest
<1>7. Names'
  <2>1. \A q \in DOMAIN orders : orders[q].state = "acked" => recorded'[q] # NoUser
    BY <1>3, OrderNumbers DEF Names
  <2> QED
    BY <1>2, <1>3, <2>1, OrderNumbers, NamesKept DEF NoRequest
<1> QED
  BY <1>4, <1>5, <1>6, <1>7

\* The server records an order for the owner of the pair it came with.
LEMMA StepAccepted ==
    ASSUME IInv, NEW c \in Callers, Accepted(c)
    PROVE  IInv'
<1> USE DEF Accepted, counts, history
<1> DEFINE Rows == [by : Users, state : {"pending", "failed", "acked"}]
<1>1. /\ requests' = [requests EXCEPT ![c] = NoRequest]
      /\ requests[c].at \notin {"none", "waiting"}
      /\ requests \in [Callers -> Request]
  BY DEF Shape
<1>2. /\ requests' \in [Callers -> Request]
      /\ requests'[c] = NoRequest
      /\ \A d \in Callers : d # c => requests'[d] = requests[d]
  BY <1>1 DEF Request, NoRequest
<1>3. /\ recorded' \in [OrderIds -> Users \cup {NoUser}]
      /\ \A q \in OrderIds : recorded'[q] = NoUser => recorded[q] = NoUser
      /\ \A q \in OrderIds \ DOMAIN orders : recorded'[q] = NoUser
      /\ \A q \in DOMAIN orders :
           recorded'[q] = recorded[q] \/ recorded'[q] = orders[q].by \/ q \in handed
  <2>1. CASE requests[c].order = 0
    BY <2>1 DEF Shape, Names
  <2>2. CASE requests[c].order # 0
    BY <2>2, Heard, OrderNumbers DEF Names
  <2> QED
    BY <2>1, <2>2
<1>4. /\ orders' \in Seq(Rows)
      /\ DOMAIN orders' = DOMAIN orders /\ Len(orders') = Len(orders)
      /\ \A q \in DOMAIN orders : /\ orders'[q].by = orders[q].by
                                  /\ orders'[q].state = "acked" => recorded'[q] # NoUser
  <2>1. CASE requests[c].order = 0
    BY <2>1 DEF Shape, Names
  <2>2. CASE requests[c].order # 0
    <3> DEFINE o == requests[c].order
               row == [orders[o] EXCEPT !.state = "acked"]
    <3>1. o \in DOMAIN orders /\ recorded'[o] # NoUser
      BY <2>2, Heard
    <3>2. /\ \A q \in DOMAIN orders : orders[q] \in Rows
          /\ Len(orders) \in Nat /\ DOMAIN orders = 1..Len(orders)
          /\ orders \in Seq(Rows)
      BY OrderNumbers DEF Shape
    <3>3. orders' = [orders EXCEPT ![o] = row]
      BY <2>2
    <3>4. row \in Rows /\ row.by = orders[o].by
      BY <3>1, <3>2
    <3>5. \A q \in OrderIds : q # o => recorded'[q] = recorded[q]
      BY <2>2, Heard
    <3>6. \A q \in DOMAIN orders : orders[q].state = "acked" => recorded[q] # NoUser
      BY DEF Names
    <3> HIDE DEF o, row, Rows
    <3>7. /\ orders' \in Seq(Rows) /\ Len(orders') = Len(orders)
      BY <3>1, <3>2, <3>3, <3>4, ExceptSeq
    <3>8. DOMAIN orders' = DOMAIN orders
      BY <3>3
    <3>9. \A q \in DOMAIN orders : /\ orders'[q].by = orders[q].by
                                   /\ orders'[q].state = "acked" => recorded'[q] # NoUser
      BY <3>1, <3>3, <3>4, <3>5, <3>6, OrderNumbers
    <3> QED
      BY <3>7, <3>8, <3>9
  <2> QED
    BY <2>1, <2>2
<1>5. Shape'
  BY <1>2, <1>3, <1>4 DEF Shape, Pairs, Request, Refresh, Session
<1>6. Counts' /\ Stored' /\ Tokens' /\ Alive'
  BY DEF Counts, Stored, Tokens, Speaks, Alive
<1>7. Waits'
  BY <1>1, <1>2 DEF Waits, NoRequest
<1>8. Names'
  BY <1>2, <1>3, <1>4, OrderNumbers, NamesKept DEF NoRequest
<1> QED
  BY <1>5, <1>6, <1>7, <1>8

\* A refresh that starts asks with the pair of the session or the last login.
LEMMA StepUnauthorized ==
    ASSUME IInv, NEW c \in Callers, Unauthorized(c)
    PROVE  IInv'
<1> USE DEF Unauthorized, server, counts, history
<1>1. requests \in [Callers -> Request] /\ requests[c].at \in {"sent", "again"}
  BY DEF Shape
<1>2. /\ Shape /\ Names
      /\ \A q \in DOMAIN orders : orders[q].state = "acked" => recorded[q] # NoUser
      /\ \A q \in OrderIds \ DOMAIN orders : recorded[q] = NoUser
      /\ UNCHANGED <<owner, recorded, session, fallback, handed>>
  BY DEF Names
<1>3. CASE /\ requests[c].at = "again" \/ fallback = 0
           /\ requests' = [requests EXCEPT ![c] = NoRequest]
           /\ FailRows({c}) /\ UNCHANGED refresh
  <2>1. /\ orders' \in Seq([by : Users, state : {"pending", "failed", "acked"}])
        /\ DOMAIN orders' = DOMAIN orders /\ Len(orders') = Len(orders)
        /\ \A o \in DOMAIN orders : /\ orders'[o].by = orders[o].by
                                    /\ orders'[o].state = "acked" => orders[o].state = "acked"
    BY <1>3, RowsFail
  <2>2. /\ requests' \in [Callers -> Request]
        /\ requests'[c] = NoRequest
        /\ \A d \in Callers : d # c => requests'[d] = requests[d]
    BY <1>1, <1>3 DEF Request, NoRequest
  <2>3. Shape'
    BY <1>3, <2>1, <2>2 DEF Shape, Pairs, Request, Refresh, Session
  <2>4. Counts' /\ Stored' /\ Tokens' /\ Alive'
    BY <1>3 DEF Counts, Stored, Tokens, Speaks, Alive
  <2>5. Waits'
    BY <1>1, <1>3, <2>2 DEF Waits, NoRequest
  <2>6. \A q \in DOMAIN orders : orders'[q].state = "acked" => recorded[q] # NoUser
    BY ONLY <1>2, <2>1
  <2>7. Names'
    <3>1. UNCHANGED refresh
      BY <1>3
    <3> QED
      BY ONLY <1>2, <2>1, <2>2, <2>6, <3>1, NamesKept DEF NoRequest, InFlight
  <2> QED
    BY <2>3, <2>4, <2>5, <2>7
<1>4. CASE /\ requests[c].at = "sent" /\ fallback # 0
           /\ requests' = [requests EXCEPT ![c].at = "waiting"]
           /\ refresh' = IF refresh # NoRefresh THEN refresh
                         ELSE [at |-> "asked", pair |-> RefreshPair, given |-> 0]
           /\ UNCHANGED orders
  <2>1. /\ requests' \in [Callers -> Request]
        /\ requests'[c].at = "waiting" /\ requests'[c].pair = requests[c].pair
        /\ requests'[c].order = requests[c].order
        /\ \A d \in Callers : d # c => requests'[d] = requests[d]
    BY <1>1, <1>4 DEF Request
  <2>2. RefreshPair \in Pairs
    BY <1>4 DEF RefreshPair, Shape, Session
  <2>3. \/ InFlight /\ refresh' = refresh
        \/ /\ ~InFlight /\ refresh'.at = "asked" /\ refresh'.pair = RefreshPair
           /\ refresh' \in Refresh /\ refresh' # NoRefresh
    BY <1>4, <2>2 DEF Refresh, NoRefresh
  <2>4. Shape'
    BY <1>4, <2>1, <2>3 DEF Shape, Pairs, Request, Refresh, Session
  <2>5. Waits'
    BY <2>1, <2>3 DEF Waits
  <2>6. Counts' /\ Stored'
    BY DEF Counts, Stored
  <2>7. Tokens'
    BY <2>3 DEF Tokens, Speaks, RefreshPair
  <2>8. Alive'
    <3>1. refresh'.at = "granted" => refresh' = refresh
      BY <2>3
    <3>2. refresh'.at = "denied" => refresh' = refresh
      BY <2>3
    <3>3. LoggedIn /\ InFlight' => refresh'.pair = session.pair \/ shaken
      BY <2>3 DEF Alive, RefreshPair
    <3>4. LoggedIn /\ session.pair \notin live => shaken \/ refresh'.at = "granted"
      BY <2>3 DEF Alive, NoRefresh
    <3> QED
      BY <3>1, <3>2, <3>3, <3>4 DEF Alive
  <2>9. Names'
    <3>1. /\ LoggedIn => Serves(session.pair)' /\ (InFlight' => Serves(refresh.pair)')
          /\ fallback # 0 => Serves(fallback)'
      BY <1>4, <2>3 DEF Names, Serves, RefreshPair
    <3>2. \A d \in Callers : requests'[d].order = requests[d].order
                            /\ requests'[d].pair = requests[d].pair
      BY <2>1
    <3> QED
      BY <1>4, <3>1, <3>2 DEF Names, RecordedForTaker
  <2> QED
    BY <2>4, <2>5, <2>6, <2>7, <2>8, <2>9
<1> QED
  BY <1>3, <1>4

\* The pair that is granted belongs to the owner of the one that was asked with;
\* a refusal means that the session had been shaken before.
LEMMA StepRefreshServed ==
    ASSUME IInv, RefreshServed
    PROVE  IInv'
<1> USE DEF RefreshServed, counts, history
<1>1. /\ InFlight /\ refresh.at = "asked" /\ refresh.pair \in Pairs
      /\ refresh \in [at : {"asked", "granted", "denied"}, pair : Pairs, given : Pairs \cup {0}]
      /\ Shape
  BY DEF Shape, Refresh, NoRefresh
<1>2. CASE /\ Accepts(refresh.pair)
           /\ GiveOut(owner[refresh.pair])
           /\ live' = (live \ {refresh.pair}) \cup {NextPair}
           /\ refresh' = [at |-> "granted", pair |-> refresh.pair, given |-> NextPair]
  <2>1. owner[refresh.pair] \in Users
    BY <1>1, PairNumbers
  <2>2. /\ owner' \in Seq(Users) /\ Pairs' = Pairs \cup {NextPair}
        /\ owner'[NextPair] = owner[refresh.pair]
        /\ \A p \in Pairs : owner'[p] = owner[p]
        /\ fresh' = fresh \cup {NextPair} /\ lapsed' \in 0..Len(owner')
    BY <1>1, <1>2, <2>1, NewPair DEF Shape
  <2>3. /\ NextPair # 0
        /\ LoggedIn => session.pair \in Pairs /\ fallback \in Pairs
        /\ fallback \in Pairs \cup {0} /\ 0 \notin Pairs
        /\ \A c \in Callers : requests[c].pair \in Pairs \cup {0}
    BY <1>1, PairNumbers DEF Shape, Session, Request, Stored
  <2>4. /\ refresh'.at = "granted" /\ refresh'.pair = refresh.pair /\ refresh'.given = NextPair
        /\ refresh' # NoRefresh
    BY <1>2 DEF NoRefresh
  <2>5. refresh' \in Refresh'
    BY <1>1, <1>2, <2>2 DEF Refresh
  <2>6. Shape'
    BY <1>2, <2>2, <2>5 DEF Shape, Request, Session
  <2>7. Counts' /\ Waits' /\ Alive'
    BY <1>1, <1>2, <2>4 DEF Counts, Waits, Alive
  <2>8. Stored' /\ Tokens'
    <3>1. Stored'
      BY <2>2, <2>3 DEF Stored
    <3>2. Tokens'
      BY <1>1, <2>2, <2>3, <2>4 DEF Tokens, Speaks
    <3> QED
      BY <3>1, <3>2
  <2>9. Names'
    <3>1. /\ LoggedIn => Serves(session.pair)' /\ Serves(refresh.pair)'
          /\ fallback # 0 => Serves(fallback)'
      BY <1>1, <2>2, <2>3, <2>4 DEF Names, Serves
    <3>2. \A c \in Callers :
            LET r == requests[c] IN
            r.order # 0 /\ r.pair # 0 /\ recorded[r.order] = NoUser =>
              owner'[r.pair] = orders[r.order].by \/ r.order \in handed
      BY <2>2, <2>3 DEF Names
    <3> QED
      BY <3>1, <3>2 DEF Names, RecordedForTaker
  <2> QED
    BY <2>6, <2>7, <2>8, <2>9
<1>3. CASE /\ ~Accepts(refresh.pair)
           /\ refresh' = [refresh EXCEPT !.at = "denied"]
           /\ UNCHANGED <<owner, live, fresh>>
  <2>1. /\ refresh'.at = "denied" /\ refresh'.pair = refresh.pair /\ refresh' \in Refresh
        /\ InFlight'
    BY <1>1, <1>3 DEF Refresh, NoRefresh
  <2>2. Shape'
    BY <1>3, <2>1 DEF Shape, Pairs, Request, Refresh, Session
  <2>3. Counts' /\ Waits' /\ Stored' /\ Tokens'
    BY <1>1, <1>3, <2>1 DEF Counts, Waits, Stored, Tokens, Speaks
  <2>4. Alive'
    <3>1. LoggedIn => session.pair \in Nat /\ lapsed \in Nat
      BY <1>1, PairNumbers DEF Shape, Session
    <3>2. LoggedIn => shaken \/ session.pair <= lapsed
      BY <1>1, <1>3, <3>1 DEF Alive, Accepts
    <3> QED
      BY <1>1, <1>3, <2>1, <3>2 DEF Alive
  <2>5. Names'
    BY <1>1, <1>3, <2>1 DEF Names, Serves, RecordedForTaker
  <2> QED
    BY <2>2, <2>3, <2>4, <2>5
<1> QED
  BY <1>2, <1>3

\* A lost refresh shakes the session.
LEMMA StepRefreshLost ==
    ASSUME IInv, RefreshLost
    PROVE  IInv'
<1> USE DEF RefreshLost
<1>1. /\ InFlight /\ refresh.pair \in Pairs
      /\ refresh \in [at : {"asked", "granted", "denied"}, pair : Pairs, given : Pairs \cup {0}]
  BY DEF Shape, Refresh, NoRefresh
<1>2. /\ refresh'.at = "denied" /\ refresh'.pair = refresh.pair /\ refresh' \in Refresh
      /\ InFlight' /\ live' \subseteq live /\ shaken' = TRUE
  BY <1>1 DEF Refresh, NoRefresh
<1>3. Shape'
  BY <1>2 DEF Shape, Pairs, Request, Refresh, Session
<1>4. Counts' /\ Waits' /\ Stored' /\ Tokens' /\ Alive'
  BY <1>1, <1>2, SessionAssumption DEF Counts, Trouble, Waits, Stored, Tokens, Speaks, Alive
<1>5. Names'
  BY <1>1, <1>2 DEF Names, Serves, RecordedForTaker
<1> QED
  BY <1>3, <1>4, <1>5

\* A denied refresh ends the session and everything that waited for it.
LEMMA StepRefreshDenied ==
    ASSUME IInv, RefreshDenied
    PROVE  IInv'
<1> USE DEF RefreshDenied, server, counts, history
<1>1. /\ orders' \in Seq([by : Users, state : {"pending", "failed", "acked"}])
      /\ DOMAIN orders' = DOMAIN orders /\ Len(orders') = Len(orders)
      /\ \A o \in DOMAIN orders : /\ orders'[o].by = orders[o].by
                                  /\ orders'[o].state = "acked" => orders[o].state = "acked"
  BY RowsFail
<1>2. /\ requests' \in [Callers -> Request]
      /\ \A c \in Callers : requests'[c] = NoRequest \/ requests'[c] = requests[c]
      /\ \A c \in Callers : requests'[c].at # "waiting"
  BY DEF Shape, Request, NoRequest
<1>3. Shape'
  BY <1>1, <1>2 DEF Shape, Pairs, Request, Refresh, Session
<1>4. Counts' /\ Waits' /\ Stored' /\ Tokens' /\ Alive'
  BY <1>2 DEF Counts, Waits, Stored, Tokens, Alive, NoRefresh
<1>5. Names'
  <2>1. \A c \in Callers : requests'[c].order # 0 => requests'[c].order \in DOMAIN orders
    BY <1>2 DEF Request
  <2>2. \A c \in Callers :
          LET r == requests'[c] IN
          r.order # 0 /\ r.pair # 0 /\ recorded[r.order] = NoUser =>
            owner[r.pair] = orders'[r.order].by \/ r.order \in handed
    BY <1>1, <1>2, <2>1 DEF Names, NoRequest
  <2>3. fallback # 0 => Serves(fallback)'
    BY <1>1 DEF Names, Serves
  <2> QED
    BY <1>1, <2>2, <2>3 DEF Names, RecordedForTaker
<1> QED
  BY <1>3, <1>4, <1>5

\* The session and the calls that waited go on with the pair that was granted.
LEMMA StepRefreshGranted ==
    ASSUME IInv, RefreshGranted
    PROVE  IInv'
<1> USE DEF RefreshGranted, server, counts, history
<1>1. /\ InFlight /\ refresh.pair \in Pairs /\ refresh.given \in Pairs
      /\ owner[refresh.given] = owner[refresh.pair]
  BY DEF Shape, Refresh, NoRefresh, Tokens
<1>2. CASE ~LoggedIn
  <2>1. session' = session
    BY <1>2 DEF OnRefreshed
  <2>2. /\ requests' \in [Callers -> Request]
        /\ \A c \in Callers : /\ requests'[c].at # "waiting"
                              /\ requests'[c].order = requests[c].order
                              /\ requests'[c].pair = requests[c].pair \/ requests'[c].pair = 0
    BY <1>2, <2>1 DEF Shape, Request, LoggedOut
  <2>3. Shape'
    BY <2>1, <2>2 DEF Shape, Pairs, Request, Refresh, Session
  <2>4. Counts' /\ Waits' /\ Stored' /\ Tokens' /\ Alive'
    BY <1>2, <2>1, <2>2 DEF Counts, Waits, Stored, Tokens, Alive, NoRefresh
  <2>5. Names'
    BY <1>2, <2>1, <2>2 DEF Names, Serves, RecordedForTaker
  <2> QED
    BY <2>3, <2>4, <2>5
<1>3. CASE LoggedIn
  <2>1. session \in [user : Users, pair : Pairs]
    BY <1>3 DEF Shape, Session
  <2>2. /\ session' \in [user : Users, pair : Pairs]
        /\ session'.user = session.user /\ session'.pair = refresh.given
    BY <1>1, <1>3, <2>1 DEF OnRefreshed
  <2>3. session' # LoggedOut
    BY <2>2, SessionAssumption DEF LoggedOut
  <2>4. /\ requests' \in [Callers -> Request]
        /\ \A c \in Callers :
             /\ requests'[c].at # "waiting"
             /\ requests'[c].order = requests[c].order
             /\ requests'[c].pair = requests[c].pair \/ requests'[c].pair = refresh.given
    BY <1>1, <2>2 DEF Shape, Request
  <2>5. Shape'
    BY <2>2, <2>4 DEF Shape, Pairs, Request, Refresh, Session
  <2>6. Counts' /\ Waits' /\ Stored'
    BY <1>3, <2>2, <2>3, <2>4 DEF Counts, Waits, Stored
  <2>7. Tokens' /\ Alive'
    BY <1>1, <1>3, <2>2, <2>3 DEF Tokens, Speaks, Alive, NoRefresh
  <2>8. \A o \in DOMAIN orders :
          recorded[o] = NoUser => orders[o].by = owner[refresh.given] \/ o \in handed
    BY <1>1, <1>3 DEF Names, Serves
  <2>9. \A c \in Callers : requests[c].order # 0 => requests[c].order \in DOMAIN orders
    BY DEF Shape, Request
  <2>10. \A c \in Callers :
           LET r == requests'[c] IN
           r.order # 0 /\ r.pair # 0 /\ recorded[r.order] = NoUser =>
             owner[r.pair] = orders[r.order].by \/ r.order \in handed
    BY <2>4, <2>8, <2>9 DEF Names
  <2>11. Names'
    BY <2>2, <2>8, <2>10 DEF Names, Serves, RecordedForTaker
  <2> QED
    BY <2>5, <2>6, <2>7, <2>11
<1> QED
  BY <1>2, <1>3

-------------------------------------------------------------------------------
(* Theorems *)

\* A till nobody has logged in on.
LEMMA Starts ==
    ASSUME Init
    PROVE  IInv
<1> USE DEF Init
<1>1. owner = <<>> /\ orders = <<>> /\ Pairs = {} /\ DOMAIN orders = {} /\ Len(orders) = 0 /\ Len(owner) = 0
  BY EmptySeq DEF Pairs
<1>2. Shape
  <2>1. /\ owner \in Seq(Users)
        /\ orders \in Seq([by : Users, state : {"pending", "failed", "acked"}])
    BY EmptySeq
  <2>2. requests \in [Callers -> Request] /\ refresh \in Refresh
    BY <1>1 DEF Request, Refresh, NoRequest
  <2>3. recorded \in [OrderIds -> Users \cup {NoUser}] /\ Len(orders) <= MaxOrders
    BY <1>1, SessionAssumption
  <2>4. lapsed \in 0..Len(owner)
    BY <1>1
  <2> QED
    BY <2>1, <2>2, <2>3, <2>4 DEF Shape, Session
<1>3. Counts
  BY SessionAssumption DEF Counts
<1>4. Waits /\ Stored /\ Tokens /\ Alive
  BY DEF Waits, Stored, Tokens, Alive, NoRequest, NoRefresh
<1>5. Names
  BY <1>1 DEF Names, RecordedForTaker, NoRequest
<1> QED
  BY <1>2, <1>3, <1>4, <1>5

\* The inductive invariant: what the tablet stores and shows is of one user, the
\* pair of a session and the one being refreshed are that user's, and an order
\* the server does not have yet goes out with its cashier's pair or is handed.
THEOREM Invariance == Spec => []IInv
<1>1. Init => IInv
  BY Starts
<1>2. IInv /\ [Next]_vars => IInv'
  <2> SUFFICES ASSUME IInv, [Next]_vars PROVE IInv'
    OBVIOUS
  <2>1. CASE \E u \in Users : Login(u) \/ SetPassword(u)
    BY <2>1, StepLogin, StepSetPassword
  <2>2. CASE Logout \/ Reload \/ TakeOrder
    BY <2>2, StepLogout, StepReload, StepTakeOrder
  <2>3. CASE Lapse \/ \E p \in Pairs : Expire(p)
    BY <2>3, StepExpire, StepLapse
  <2>4. CASE \E c \in Callers, o \in OrderIds \cup {0} : Send(c, o)
    BY <2>4, StepSend
  <2>5. CASE \E c \in Callers : Answered(c) \/ CallLost(c)
    BY <2>5, StepAccepted, StepUnauthorized, StepCallLost DEF Answered
  <2>6. CASE Refreshed \/ RefreshLost
    BY <2>6, StepRefreshServed, StepRefreshGranted, StepRefreshDenied, StepRefreshLost
       DEF Refreshed
  <2>7. CASE UNCHANGED vars
    <3> USE <2>7 DEF vars, server, tablet, counts, history
    <3>1. Shape' /\ Counts' /\ Waits'
      BY DEF Shape, Pairs, Request, Refresh, Session, Counts, Waits
    <3>2. Stored' /\ Tokens' /\ Alive'
      BY DEF Stored, Tokens, Speaks, Alive
    <3>3. Names'
      BY DEF Names, Serves, RecordedForTaker
    <3> QED
      BY <3>1, <3>2, <3>3
  <2> QED
    BY <2>1, <2>2, <2>3, <2>4, <2>5, <2>6, <2>7 DEF Next
<1> QED
  BY <1>1, <1>2, PTL DEF Spec

\* The tables, the session and the calls keep their types, and a refresh is
\* under way exactly while calls wait for it.
THEOREM TypeCorrect == Spec => []TypeOK
<1>1. IInv => TypeOK
  BY DEF Shape, Counts, Waits, TypeOK, Request, Refresh, NoRefresh
<1> QED
  BY <1>1, Invariance, PTL

\* A till works with its own cashier's tokens, through refreshes, reloads and
\* changes of cashier, but after a login in the middle of a refresh.
THEOREM TokensAreOwn == Spec => []OwnTokens
<1>1. IInv => OwnTokens
  BY DEF Tokens, Speaks, OwnTokens
<1> QED
  BY <1>1, Invariance, PTL

\* The server has an order from the cashier who took it, unless another one
\* logged in before it got there.
THEOREM CashierKept == Spec => []RecordedForTaker
<1>1. IInv => RecordedForTaker
  BY DEF Names
<1> QED
  BY <1>1, Invariance, PTL

\* Access tokens that expire throw nobody out, however many calls meet them,
\* until the session's own refresh token is too old.
THEOREM SessionStays == Spec => StaysLoggedIn
<1>1. IInv /\ [Next]_vars =>
        [session # LoggedOut /\ session' = LoggedOut =>
           Logout \/ shaken \/ session.pair <= lapsed]_session
  <2> SUFFICES ASSUME IInv, [Next]_vars, LoggedIn, session' = LoggedOut, ~Logout
               PROVE  shaken \/ session.pair <= lapsed
    OBVIOUS
  <2>1. CASE \E u \in Users : Login(u) \/ SetPassword(u)
    BY <2>1 DEF Login, SetPassword, tablet
  <2>2. CASE Reload
    BY <2>2 DEF Reload, Boot, Stored
  <2>3. CASE TakeOrder \/ Lapse \/ \E p \in Pairs : Expire(p)
    BY <2>3 DEF TakeOrder, Lapse, Expire, tablet
  <2>4. CASE \E c \in Callers, o \in OrderIds \cup {0} : Send(c, o)
    BY <2>4 DEF Send
  <2>5. CASE \E c \in Callers : Answered(c) \/ CallLost(c)
    BY <2>5 DEF Answered, Accepted, Unauthorized, CallLost
  <2>6. CASE RefreshServed \/ RefreshLost
    BY <2>6 DEF RefreshServed, RefreshLost
  <2>7. CASE RefreshGranted
    <3>1. refresh.given \in Pairs /\ session \in [user : Users, pair : Pairs]
      BY <2>7 DEF RefreshGranted, Tokens, Shape, Refresh, Session, NoRefresh
    <3>2. session' = [session EXCEPT !.pair = refresh.given]
      BY <2>7 DEF RefreshGranted, OnRefreshed
    <3> QED
      BY <3>1, <3>2, SessionAssumption DEF LoggedOut
  <2>8. CASE RefreshDenied
    BY <2>8 DEF RefreshDenied, Alive
  <2>9. CASE UNCHANGED vars
    BY <2>9 DEF vars, tablet
  <2> QED
    BY <2>1, <2>2, <2>3, <2>4, <2>5, <2>6, <2>7, <2>8, <2>9 DEF Next, Refreshed
<1> QED
  BY <1>1, Invariance, PTL DEF Spec, StaysLoggedIn

===============================================================================
