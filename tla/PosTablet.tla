------------------------------ MODULE PosTablet -------------------------------
(***************************************************************************)
(* One till: the payment dialog of the tablet, the queue of orders it      *)
(* keeps in IndexedDB, the sync pass that replays the queue, and the       *)
(* server and the network as the tablet meets them.                        *)
(*                                                                         *)
(* What is in a cart does not matter here: a cart is the sale it is for.   *)
(* An order on the server is known by the id the tablet gave it.           *)
(***************************************************************************)
EXTENDS Integers, Sequences, FiniteSets, FiniteSetsExt, SequencesExt

CONSTANTS
    Sales,        \* customers served at this till
    NoSale,       \* the empty cart
    Hopeless,     \* sales whose order the server never accepts
    MaxCharges,   \* bound: times the charge button is pressed
    MaxLosses,    \* bound: handlers and messages that fail while the server is up
    MaxTroubles   \* bound: orders refused that might have been accepted, and reloads

ASSUME TabletAssumption ==
    /\ NoSale \notin Sales
    /\ Hopeless \subseteq Sales
    /\ MaxCharges \in Nat /\ MaxLosses \in Nat /\ MaxTroubles \in Nat

VARIABLES
    cart,     \* the sale on the screen
    begun,    \* the sales that were ever on it
    dialog,   \* 0: closed; else what it shows: "ready" or the charge it runs
    charges,  \* the calls of charge(), by the order they queued
    left,     \* history: the charges that ran when their dialog was left
    rows,     \* pendingOrders, oldest first: state of each queued order
    online,   \* what the tablet believes
    sync,     \* the sync pass: where it is and the rows it has left to send
    up,       \* whether the server answers
    created,  \* the server's orders, by the id of the tablet, in order_no order
    paid,     \* per order, its payments at the server
    kitchen,  \* per order, how often its kitchen and bar tickets were queued
    losses, troubles

tablet == <<cart, begun, dialog, charges, left, rows, online, sync>>
server == <<up, created, paid, kitchen>>
vars == <<tablet, server, losses, troubles>>

Ids == 1..MaxCharges
Closed == [open |-> FALSE, charge |-> 0]
Resting == [at |-> "idle", rest |-> {}]
Starting == [at |-> "health", rest |-> {}]
Running == {"queueing", "polling", "paying"}
Ended == {"failed", "done", "offline", "gone"}

Init ==
    /\ cart = NoSale
    /\ begun = {}
    /\ dialog = Closed
    /\ charges = <<>>
    /\ left = {}
    /\ rows = <<>>
    /\ online = TRUE
    /\ sync = Starting
    /\ up \in BOOLEAN
    /\ created = <<>>
    /\ paid = [i \in Ids |-> 0]
    /\ kitchen = [i \in Ids |-> 0]
    /\ losses = 0
    /\ troubles = 0

-------------------------------------------------------------------------------
(* The sync pass *)

\* The rows a pass reads: pending and failed ones.  They are numbered by
\* createdAt, and a pass takes the oldest of them first.
ToReplay == {i \in DOMAIN rows : rows[i].state \in {"pending", "failed"}}

\* syncNow as far as its first await; while a pass is under way it does nothing.
SyncNow == sync' = IF sync.at = "idle" THEN Starting ELSE sync

\* The interval, the 'online' event of the browser, the chip in the top bar.
SyncTick ==
    /\ sync.at = "idle"
    /\ SyncNow
    /\ UNCHANGED <<cart, begun, dialog, charges, left, rows, online, server, losses, troubles>>

\* refreshOnlineState, then the read of the queue.  A lost request counts as
\* a server that is not there.
SyncHealth(lost) ==
    /\ sync.at = "health"
    /\ lost => up /\ losses < MaxLosses
    /\ losses' = IF lost THEN losses + 1 ELSE losses
    /\ online' = (up /\ ~lost)
    /\ sync' = IF up /\ ~lost THEN [at |-> "replay", rest |-> ToReplay] ELSE Resting
    /\ UNCHANGED <<cart, begun, dialog, charges, left, rows, server, troubles>>

\* Mutation: the server does not look the id up.
CreateAlways(i) == created' = Append(created, i)

\* The server's createOrder for a device id: see the module Orders.
CreateOnce(i) == created' = IF Contains(created, i) THEN created ELSE Append(created, i)

\* Mutation: tickets are printed for new orders only.
PrintTicketsIfNew(i) ==
    kitchen' = [kitchen EXCEPT ![i] = IF Contains(created, i) THEN @ ELSE @ + 1]

\* printKitchenTicketsForOrder: whether or not the order is new.
PrintTickets(i) == kitchen' = [kitchen EXCEPT ![i] = @ + 1]

\* db.pendingOrders.update
UpdateRow(i, state) == rows' = [rows EXCEPT ![i].state = state]

AfterNoAnswer == Resting

\* On to the next row.
AfterRow(i) == [at |-> "replay", rest |-> sync.rest \ {i}]

\* Mutation: a pass stops at an order the server refuses.
AfterRefusalStop(i) == Resting

AfterRefusal(i) == AfterRow(i)

\* POST /orders for the next row of the pass.
\* ok: the server has the order, and the row is acked.
\* refused: any answer but a good one, be it the token, the server's own
\* trouble or the order's products; the row is failed, and sent again by the
\* next pass.  A known order is found before its products are looked at.
\* broke: the handler fails after it has stored the order.
\* No answer, with or without the server having done its work, and the server
\* that dies between the order and its tickets: the pass stops.
SyncPost(outcome) ==
    LET i == Min(sync.rest)
        accepted == rows[i].sale \notin Hopeless
    IN
    /\ sync.at = "replay" /\ sync.rest # {}
    /\ \/ /\ outcome = "ok" /\ up /\ accepted
          /\ CreateOnce(i)
          /\ PrintTickets(i)
          /\ UpdateRow(i, "acked")
          /\ sync' = AfterRow(i)
          /\ UNCHANGED <<online, losses, troubles, up>>
       \/ /\ outcome = "refused" /\ up
          /\ accepted => troubles < MaxTroubles
          /\ troubles' = IF accepted THEN troubles + 1 ELSE troubles
          /\ UpdateRow(i, "failed")
          /\ sync' = AfterRefusal(i)
          /\ UNCHANGED <<created, kitchen, online, losses, up>>
       \/ /\ outcome = "broke" /\ up /\ losses < MaxLosses /\ accepted
          /\ losses' = losses + 1
          /\ CreateOnce(i)
          /\ UpdateRow(i, "failed")
          /\ sync' = AfterRefusal(i)
          /\ UNCHANGED <<kitchen, online, troubles, up>>
       \/ /\ outcome = "down" /\ ~up
          /\ online' = FALSE
          /\ sync' = AfterNoAnswer
          /\ UNCHANGED <<rows, created, kitchen, losses, troubles, up>>
       \/ /\ outcome = "answer lost" /\ up /\ losses < MaxLosses
          /\ losses' = losses + 1
          /\ IF accepted THEN CreateOnce(i) /\ PrintTickets(i) ELSE UNCHANGED <<created, kitchen>>
          /\ online' = FALSE
          /\ sync' = AfterNoAnswer
          /\ UNCHANGED <<rows, troubles, up>>
       \/ /\ outcome = "server died" /\ up /\ losses < MaxLosses /\ accepted
          /\ losses' = losses + 1
          /\ up' = FALSE
          /\ CreateOnce(i)
          /\ online' = FALSE
          /\ sync' = AfterNoAnswer
          /\ UNCHANGED <<rows, kitchen, troubles>>
    /\ UNCHANGED <<cart, begun, dialog, charges, left, paid>>

\* All rows sent: the catalog is fetched, the pass ends.  An answer that is not
\* good counts as lost.
SyncCatalog(lost) ==
    /\ sync.at = "replay" /\ sync.rest = {}
    /\ lost => up /\ losses < MaxLosses
    /\ losses' = IF lost THEN losses + 1 ELSE losses
    /\ online' = (up /\ ~lost)
    /\ sync' = Resting
    /\ UNCHANGED <<cart, begun, dialog, charges, left, rows, server, troubles>>

-------------------------------------------------------------------------------
(* The till *)

\* A customer's first product is tapped.
StartSale(s) ==
    /\ ~dialog.open /\ cart = NoSale /\ s \notin begun
    /\ cart' = s
    /\ begun' = begun \cup {s}
    /\ UNCHANGED <<dialog, charges, left, rows, online, sync, server, losses, troubles>>

\* The cart is cancelled, after a question.
CancelCart ==
    /\ ~dialog.open /\ cart # NoSale
    /\ cart' = NoSale
    /\ UNCHANGED <<begun, dialog, charges, left, rows, online, sync, server, losses, troubles>>

OpenDialog ==
    /\ ~dialog.open /\ cart # NoSale
    /\ dialog' = [open |-> TRUE, charge |-> 0]
    /\ UNCHANGED <<cart, begun, charges, left, rows, online, sync, server, losses, troubles>>

Busy == dialog.charge # 0 /\ charges[dialog.charge].at \notin Ended

\* "Back", a tap beside the dialog, "New order", or the session is over.  The
\* first two work while a charge runs: it goes on, and nothing shows it.
CloseDialog ==
    /\ dialog.open
    /\ dialog' = Closed
    /\ left' = IF Busy THEN left \cup {dialog.charge} ELSE left
    /\ UNCHANGED <<cart, begun, charges, rows, online, sync, server, losses, troubles>>

\* The dialog's button: it takes another charge unless the last one is running
\* or has ended well.
Ready ==
    /\ dialog.open
    /\ dialog.charge \in {0} \cup {i \in DOMAIN charges : charges[i].at = "failed"}

\* Mutation: an order taken online is queued as sent.
NewRowSent(s) == [sale |-> s, state |-> IF online THEN "sent" ELSE "pending"]

NewRow(s) == [sale |-> s, state |-> "pending"]

\* charge up to its first wait: submitOrder queues the order under a new id and
\* calls syncNow if the tablet is online; then the charge polls for the answer.
Charge ==
    /\ Ready /\ cart # NoSale /\ Len(charges) < MaxCharges
    /\ rows' = Append(rows, NewRow(cart))
    /\ charges' = Append(charges, [sale |-> cart, at |-> IF online THEN "polling" ELSE "queueing"])
    /\ dialog' = [open |-> TRUE, charge |-> Len(charges) + 1]
    /\ IF online THEN SyncNow ELSE UNCHANGED sync
    /\ UNCHANGED <<cart, begun, left, online, server, losses, troubles>>

\* Offline the charge is over when the order is in IndexedDB, and clears the
\* cart, whichever it is now: the payment is shown, and neither stored nor sent.
SaleRecorded(i) ==
    /\ i \in DOMAIN charges /\ charges[i].at = "queueing"
    /\ charges' = [charges EXCEPT ![i].at = "offline"]
    /\ cart' = NoSale
    /\ UNCHANGED <<begun, dialog, left, rows, online, sync, server, losses, troubles>>

\* Mutation: the charge takes the order for sent as soon as it is queued.
IsAckedWhenQueued(i) == i \in DOMAIN rows

IsAcked(i) == rows[i].state = "acked"

\* getAckedOrder finds the order: the payment is sent.
Acked(i) ==
    /\ i \in DOMAIN charges /\ charges[i].at = "polling"
    /\ IsAcked(i)
    /\ charges' = [charges EXCEPT ![i].at = "paying"]
    /\ UNCHANGED <<cart, begun, dialog, left, rows, online, sync, server, losses, troubles>>

\* Mutation: the cart is cleared when the charge fails, too.
CartAfterFailureCleared == NoSale

CartAfterFailure == cart

\* Three seconds without it: "Server did not acknowledge the order in time".
\* The answer may have come after the last of the twenty looks.
PollTimeout(i) ==
    /\ i \in DOMAIN charges /\ charges[i].at = "polling"
    /\ charges' = [charges EXCEPT ![i].at = "failed"]
    /\ cart' = CartAfterFailure
    /\ UNCHANGED <<begun, dialog, left, rows, online, sync, server, losses, troubles>>

\* Mutation: the cart stays on the screen.
CartAfterPaidKept == cart

CartAfterPaid == NoSale

\* The server's payOrder, with the idempotency key of the order's id.
PayOnce(i) == paid' = [paid EXCEPT ![i] = IF @ = 0 /\ Contains(created, i) THEN 1 ELSE @]

\* POST /orders/:id/pay.  Answered: the cart is cleared, whichever it is now.
\* Refused, as when a price has changed, or no answer, with or without the
\* payment taken: the charge has failed.
PaySent(i, outcome) ==
    /\ i \in DOMAIN charges /\ charges[i].at = "paying"
    /\ \/ /\ outcome = "ok" /\ up
          /\ PayOnce(i)
          /\ charges' = [charges EXCEPT ![i].at = "done"]
          /\ cart' = CartAfterPaid
          /\ UNCHANGED losses
       \/ /\ \/ outcome = "down" /\ ~up
             \/ outcome = "refused" /\ up
          /\ charges' = [charges EXCEPT ![i].at = "failed"]
          /\ UNCHANGED <<paid, cart, losses>>
       \/ /\ outcome = "answer lost" /\ up /\ losses < MaxLosses
          /\ losses' = losses + 1
          /\ PayOnce(i)
          /\ charges' = [charges EXCEPT ![i].at = "failed"]
          /\ UNCHANGED cart
    /\ UNCHANGED <<begun, dialog, left, rows, online, sync, up, created, kitchen, troubles>>

-------------------------------------------------------------------------------
(* Around the till *)

\* The server, or the way to it, goes and comes back.
Outage ==
    /\ up' = ~up
    /\ UNCHANGED <<tablet, created, paid, kitchen, losses, troubles>>

\* The browser's 'offline' event.
WifiLost ==
    /\ ~up
    /\ online' = FALSE
    /\ UNCHANGED <<cart, begun, dialog, charges, left, rows, sync, server, losses, troubles>>

\* The page is reloaded: IndexedDB stays, the cart and the running charges do
\* not, and a sync pass starts.
Reload ==
    /\ troubles < MaxTroubles
    /\ troubles' = troubles + 1
    /\ cart' = NoSale
    /\ dialog' = Closed
    /\ charges' = [i \in DOMAIN charges |->
         IF charges[i].at \in Ended THEN charges[i] ELSE [charges[i] EXCEPT !.at = "gone"]]
    /\ online' = TRUE
    /\ sync' = Starting
    /\ UNCHANGED <<begun, left, rows, server, losses>>

Outcomes == {"ok", "refused", "broke", "down", "answer lost", "server died"}

Sync ==
    \/ SyncTick
    \/ \E lost \in BOOLEAN : SyncHealth(lost) \/ SyncCatalog(lost)
    \/ \E outcome \in Outcomes : SyncPost(outcome)

Till ==
    \/ \E s \in Sales : StartSale(s)
    \/ CancelCart \/ OpenDialog \/ CloseDialog \/ Charge
    \/ \E i \in Ids : SaleRecorded(i) \/ Acked(i) \/ PollTimeout(i)
    \/ \E i \in Ids, outcome \in Outcomes : PaySent(i, outcome)

Next == Sync \/ Till \/ Outage \/ WifiLost \/ Reload

\* The interval keeps firing and every await of a pass settles.
SyncFairness == WF_vars(Sync)

\* So does every await of a charge.
Fairness ==
    /\ SyncFairness
    /\ \A i \in Ids :
         /\ WF_vars(SaleRecorded(i) \/ Acked(i) \/ PollTimeout(i))
         /\ WF_vars(\E outcome \in Outcomes : PaySent(i, outcome))

Spec == Init /\ [][Next]_vars
SyncSpec == Spec /\ SyncFairness
FairSpec == Spec /\ Fairness

-------------------------------------------------------------------------------
(* Properties *)

OrdersOf(s) == {i \in DOMAIN rows : rows[i].sale = s /\ Contains(created, i)}

\* The state has its shape, and a charge and its row are of the same sale.
TypeOK ==
    /\ cart \in Sales \cup {NoSale}
    /\ begun \subseteq Sales
    /\ dialog \in [open : BOOLEAN, charge : 0..Len(charges)]
    /\ charges \in Seq([sale : Sales, at : Ended \cup Running])
    /\ left \subseteq DOMAIN charges
    /\ rows \in Seq([sale : Sales, state : {"pending", "acked", "failed"}])
    /\ Len(charges) = Len(rows) /\ \A i \in DOMAIN rows : charges[i].sale = rows[i].sale
    /\ online \in BOOLEAN
    /\ sync \in [at : {"idle", "health", "replay"}, rest : SUBSET DOMAIN rows]
    /\ up \in BOOLEAN
    /\ paid \in [Ids -> Nat] /\ kitchen \in [Ids -> Nat]
    /\ losses \in 0..MaxLosses /\ troubles \in 0..MaxTroubles

Promise == INSTANCE Spool WITH
    Items <- Ids,
    put <- DOMAIN rows,
    refused <- {i \in DOMAIN rows : rows[i].state = "failed" /\ ~ Contains(created, i)},
    came <- [i \in Ids |-> Cardinality({k \in DOMAIN created : created[k] = i})]

\* Replays after lost answers, refusals, reloads and outages give each queued
\* order one order at the server, and in the order the orders were taken
\* (docs/OFFLINE-SYNC.md, "oldest-first"), but that an order the server has
\* refused is passed by newer ones before it is accepted, or for good.
ImplementsSpool == Promise!Spec

\* The tablet takes an order for acknowledged only if the server has it, and
\* shows a payment as complete only if the server took it, once.
DoneIsPaid ==
    /\ \A i \in DOMAIN rows : rows[i].state = "acked" => Contains(created, i)
    /\ \A i \in Ids : paid[i] <= 1
    /\ \A i \in DOMAIN charges : charges[i].at = "done" => paid[i] = 1

\* The sets of tickets an order got after its first one.
MoreTickets == UNION {{i} \X (1 .. kitchen[i] - 1) : i \in Ids}

\* The kitchen hears of every order the tablet takes for acknowledged, also when
\* the server died between storing it and queueing its tickets, and makes an
\* order twice only because an answer got lost: one more set of tickets each.
KitchenTold ==
    /\ \A i \in DOMAIN rows : rows[i].state = "acked" => kitchen[i] >= 1
    /\ \A i \in Ids : kitchen[i] > 0 => Contains(created, i)
    /\ Cardinality(MoreTickets) <= losses

\* A sale gets a second order only after a charge for it failed in front of the
\* cashier, went away with the page, or was left running with its dialog.
SecondOrderExplained ==
    \A s \in Sales :
      Cardinality(OrdersOf(s)) <=
        1 + Cardinality({i \in DOMAIN charges :
                           /\ charges[i].sale = s
                           /\ charges[i].at \in {"failed", "gone"} \/ i \in left})

\* A cart disappears only when it was cancelled, lost in a reload, or its own
\* sale was paid or recorded; or when a charge whose dialog was left ends well
\* and clears what is on the screen, as another customer's cart.
ClearsOwnCart ==
    [][cart # NoSale /\ cart' # cart =>
         \/ CancelCart \/ Reload
         \/ \E i \in DOMAIN charges :
              /\ charges[i].at \in Running /\ charges'[i].at \in {"done", "offline"}
              /\ charges[i].sale = cart \/ i \in left]_cart

\* Once the server stays up and refuses no order that it may accept, every such
\* order reaches it, also one that was queued during a pass, was refused before
\* or is behind one that never gets through.
Delivered(i) == rows[i].state = "acked" \/ rows[i].sale \in Hopeless

QueueDrains ==
    <>[]up => \A i \in Ids : i \in DOMAIN rows ~> i \in DOMAIN rows /\ Delivered(i)

\* PaymentModal: "Order & payment queued - will sync automatically".
OfflinePaymentSyncs ==
    <>[]up => \A i \in Ids :
                i \in DOMAIN charges /\ charges[i].at = "offline" ~> paid[i] = 1
===============================================================================
