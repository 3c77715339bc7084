----------------------------- MODULE OrderLinks -----------------------------
(***************************************************************************)
(* A public order link (order-links.ts), the orders placed through it and  *)
(* what staff do to them (orders.ts), and the batch that collects them     *)
(* (order-batches.ts).                                                     *)
(*                                                                         *)
(* One link and its batch.  A buyer is one POST of the public form; the    *)
(* token comes from the form, so that a repeated POST carries it again.    *)
(* Prices do not matter here, quantities do.  The link's deadline only      *)
(* refuses submissions and is left out.  The link keeps its capacity and   *)
(* its batch: updateOrderLink, which may change both, is left out.         *)
(***************************************************************************)
EXTENDS Naturals, FiniteSets, Folds

CONSTANTS
  Orders,       \* ids for orders
  Buyers,       \* submissions that may be under way at once
  Clerks,       \* members of staff at work on orders
  Tokens,       \* submission tokens
  Quantities,   \* what a buyer may ask for
  Capacity,     \* capacity_total of the link
  OrderTargets, \* bound: the statuses staff ask for
  NoOrder, NoToken

ASSUME OrderLinksAssumption ==
  /\ Quantities \subseteq Nat \ {0} /\ IsFiniteSet(Quantities) /\ Quantities # {}
  /\ Capacity \in Nat
  /\ IsFiniteSet(Orders) /\ IsFiniteSet(Buyers) /\ IsFiniteSet(Clerks)
  /\ NoOrder \notin Orders
  /\ NoToken \notin Tokens

VARIABLES
  link,     \* the status of the link and of its batch
  order,    \* orders and the quantity of their items
  buyer,    \* where each submission stands
  clerk,    \* where each member of staff stands
  receipt,  \* history: the orders each token was given a receipt for
  edited    \* history: orders whose items staff replaced, or that staff revived

orderVars == <<link, order, buyer, clerk, receipt, edited>>

OrderStatuses == {"DRAFT", "PENDING_CONFIRMATION", "CONFIRMED", "PROCESSING", "READY", "DISPATCHED",
                  "DELIVERED", "CANCELLED", "REFUNDED"}

OrderTransitions ==
  [DRAFT                |-> {"PENDING_CONFIRMATION", "CONFIRMED", "CANCELLED"},
   PENDING_CONFIRMATION |-> {"CONFIRMED", "CANCELLED"},
   CONFIRMED            |-> {"PROCESSING", "READY", "DISPATCHED", "CANCELLED"},
   PROCESSING           |-> {"READY", "DISPATCHED", "CANCELLED"},
   READY                |-> {"DISPATCHED", "DELIVERED", "CANCELLED"},
   DISPATCHED           |-> {"DELIVERED", "CANCELLED"},
   DELIVERED            |-> {"REFUNDED"},
   CANCELLED            |-> {"REFUNDED"},
   REFUNDED             |-> {}]

LinkTransitions ==
  [DRAFT    |-> {"ACTIVE", "ARCHIVED"},
   ACTIVE   |-> {"PAUSED", "ARCHIVED"},
   PAUSED   |-> {"ACTIVE", "ARCHIVED"},
   ARCHIVED |-> {}]

Largest == CHOOSE q \in Quantities : \A p \in Quantities : p <= q

\* items: the sum of the quantities of its lines, 0 before they are inserted.
Order == [status : OrderStatuses \cup {"NONE"}, token : Tokens \cup {NoToken},
          items : 0 .. (Cardinality(Clerks) + 1) * Largest]

Buyer == [at : {"idle", "replay", "room", "batch", "recheck", "insert", "items", "raced"},
          token : Tokens \cup {NoToken}, quantity : {0} \cup Quantities, inBatch : BOOLEAN,
          order : Orders \cup {NoOrder}]

Clerk == [at : {"idle", "move", "clear", "fill"}, order : Orders \cup {NoOrder},
          to : OrderStatuses, quantity : {0} \cup Quantities]

OrdersTypeOK ==
  /\ link \in [status : DOMAIN LinkTransitions, batch : {"OPEN", "CLOSED"}]
  /\ order \in [Orders -> Order]
  /\ buyer \in [Buyers -> Buyer]
  /\ clerk \in [Clerks -> Clerk]
  /\ receipt \in [Tokens -> SUBSET Orders]
  /\ edited \subseteq Orders

NotPlaced == [status |-> "NONE", token |-> NoToken, items |-> 0]
NoBuyer == [at |-> "idle", token |-> NoToken, quantity |-> 0, inBatch |-> FALSE, order |-> NoOrder]
NoClerk == [at |-> "idle", order |-> NoOrder, to |-> "DRAFT", quantity |-> 0]

OrdersInit ==
  /\ link = [status |-> "DRAFT", batch |-> "OPEN"]
  /\ order = [o \in Orders |-> NotPlaced]
  /\ buyer = [b \in Buyers |-> NoBuyer]
  /\ clerk = [c \in Clerks |-> NoClerk]
  /\ receipt = [k \in Tokens |-> {}]
  /\ edited = {}

-----------------------------------------------------------------------------
BuyerAt(b, step) == buyer[b].at = step

BuyerTo(b, step) == buyer' = [buyer EXCEPT ![b].at = step]

BuyerDone(b) == buyer' = [buyer EXCEPT ![b] = NoBuyer]

Placed(o) == order[o].status # "NONE"

WithToken(k) == {o \in Orders : Placed(o) /\ order[o].token = k}

Ended == {"CANCELLED", "REFUNDED"}

Killed == {o \in Orders : order[o].status \in Ended}

Counted(o) == Placed(o) /\ o \notin Killed

QuantityOf(orders) == MapThenFoldSet(LAMBDA x, y : x + y, 0, LAMBDA o : order[o].items,
                                     LAMBDA S : CHOOSE o \in S : TRUE, orders)

\* acceptedQuantity
Taken == QuantityOf({o \in Orders : Counted(o)})

TakesOrders == link.status = "ACTIVE"

-----------------------------------------------------------------------------
(* submitOrderLink                                                          *)

\* The form is checked; a link that does not take orders refuses it.
Submit(b, k, q) ==
  /\ BuyerAt(b, "idle")
  /\ TakesOrders
  /\ buyer' = [buyer EXCEPT ![b] = [NoBuyer EXCEPT !.at = "replay", !.token = k, !.quantity = q]]
  /\ UNCHANGED <<link, order, clerk, receipt, edited>>

GiveReceipt(k, o) == receipt' = [receipt EXCEPT ![k] = @ \cup {o}]

\* replaySubmission, before anything is written and after a refused insert.
Replay(b) ==
  LET k == buyer[b].token IN
  /\ buyer[b].at \in {"replay", "raced"}
  /\ \/ \E o \in WithToken(k) : GiveReceipt(k, o) /\ BuyerDone(b)
     \/ /\ WithToken(k) = {}
        /\ IF BuyerAt(b, "replay") THEN BuyerTo(b, "room") ELSE BuyerDone(b)
        /\ UNCHANGED receipt
  /\ UNCHANGED <<link, order, clerk, edited>>

\* Mutant: what is asked for is not counted.
HasRoomMutant(q) == Taken < Capacity

HasRoom(q) == Taken + q <= Capacity

CheckRoom(b) ==
  /\ BuyerAt(b, "room")
  /\ IF HasRoom(buyer[b].quantity) THEN BuyerTo(b, "batch") ELSE BuyerDone(b)
  /\ UNCHANGED <<link, order, clerk, receipt, edited>>

\* A closed batch must not kill the sale.
ReadBatch(b) ==
  /\ BuyerAt(b, "batch")
  /\ buyer' = [buyer EXCEPT ![b] = [@ EXCEPT !.at = "recheck", !.inBatch = link.batch = "OPEN"]]
  /\ UNCHANGED <<link, order, clerk, receipt, edited>>

\* createOrder refuses a batch that closed in the meantime; nothing asks after it again.
RecheckBatch(b) ==
  /\ BuyerAt(b, "recheck")
  /\ IF buyer[b].inBatch /\ link.batch # "OPEN"
     THEN BuyerDone(b)
     ELSE buyer' = [buyer EXCEPT ![b].at = "insert", ![b].inBatch = FALSE]
  /\ UNCHANGED <<link, order, clerk, receipt, edited>>

\* Mutant: the unique index on link and token is missing.
FreshTokenMutant(k) == TRUE

FreshToken(k) == WithToken(k) = {}

InsertOrder(b) ==
  LET k == buyer[b].token IN
  /\ BuyerAt(b, "insert")
  /\ IF FreshToken(k)
     THEN \E o \in Orders :
            /\ ~Placed(o)
            /\ order' = [order EXCEPT ![o] = [status |-> "PENDING_CONFIRMATION", token |-> k,
                                              items |-> 0]]
            /\ buyer' = [buyer EXCEPT ![b].at = "items", ![b].order = o]
     ELSE BuyerTo(b, "raced") /\ UNCHANGED order
  /\ UNCHANGED <<link, clerk, receipt, edited>>

\* insertItems, then the receipt: what lies between writes history and events.
InsertItems(b) ==
  LET o == buyer[b].order IN
  /\ BuyerAt(b, "items")
  /\ order' = [order EXCEPT ![o].items = @ + buyer[b].quantity]
  /\ GiveReceipt(buyer[b].token, o)
  /\ BuyerDone(b)
  /\ UNCHANGED <<link, clerk, edited>>

\* The process dies, or the browser gives up.
BuyerLost(b) ==
  /\ ~BuyerAt(b, "idle")
  /\ BuyerDone(b)
  /\ UNCHANGED <<link, order, clerk, receipt, edited>>

-----------------------------------------------------------------------------
(* orders.ts: changeOrderStatus, updateDraftOrder                           *)

MoveOrderRead(c, o, to) ==
  /\ clerk[c].at = "idle"
  /\ Placed(o)
  /\ to \in OrderTransitions[order[o].status]
  /\ clerk' = [clerk EXCEPT ![c] = [NoClerk EXCEPT !.at = "move", !.order = o, !.to = to]]
  /\ UNCHANGED <<link, order, buyer, receipt, edited>>

\* By id alone: a cancelled order may come back.
MoveOrderWrite(c) ==
  /\ clerk[c].at = "move"
  /\ order' = [order EXCEPT ![clerk[c].order].status = clerk[c].to]
  /\ clerk' = [clerk EXCEPT ![c] = NoClerk]
  /\ edited' = edited \cup (Killed \ {o \in Orders : order'[o].status \in Ended})
  /\ UNCHANGED <<link, buyer, receipt>>

\* An order that is not confirmed yet gets other items: they are deleted and
\* inserted by two statements, and so beside those inserted in between.
EditOrderRead(c, o, q) ==
  /\ clerk[c].at = "idle"
  /\ order[o].status \in {"DRAFT", "PENDING_CONFIRMATION"}
  /\ clerk' = [clerk EXCEPT ![c] = [NoClerk EXCEPT !.at = "clear", !.order = o, !.quantity = q]]
  /\ edited' = edited \cup {o}
  /\ UNCHANGED <<link, order, buyer, receipt>>

EditOrderClear(c) ==
  /\ clerk[c].at = "clear"
  /\ order' = [order EXCEPT ![clerk[c].order].items = 0]
  /\ clerk' = [clerk EXCEPT ![c].at = "fill"]
  /\ UNCHANGED <<link, buyer, receipt, edited>>

EditOrderFill(c) ==
  /\ clerk[c].at = "fill"
  /\ order' = [order EXCEPT ![clerk[c].order].items = @ + clerk[c].quantity]
  /\ clerk' = [clerk EXCEPT ![c] = NoClerk]
  /\ UNCHANGED <<link, buyer, receipt, edited>>

(* order-links.ts: setOrderLinkStatus; order-batches.ts: updateBatch        *)

SetLinkStatus(to) ==
  /\ to \in LinkTransitions[link.status]
  /\ link' = [link EXCEPT !.status = to]
  /\ UNCHANGED <<order, buyer, clerk, receipt, edited>>

UpdateBatch(to) ==
  /\ link.batch # to
  /\ link' = [link EXCEPT !.batch = to]
  /\ UNCHANGED <<order, buyer, clerk, receipt, edited>>

-----------------------------------------------------------------------------
BuyerStep(b) ==
  \/ Replay(b) \/ CheckRoom(b) \/ ReadBatch(b) \/ RecheckBatch(b)
  \/ InsertOrder(b) \/ InsertItems(b) \/ BuyerLost(b)

OrdersNext ==
  \/ \E b \in Buyers : BuyerStep(b) \/ \E k \in Tokens, q \in Quantities : Submit(b, k, q)
  \/ \E c \in Clerks :
       \/ MoveOrderWrite(c) \/ EditOrderClear(c) \/ EditOrderFill(c)
       \/ \E o \in Orders :
            \/ \E to \in OrderTargets : MoveOrderRead(c, o, to)
            \/ \E q \in Quantities : EditOrderRead(c, o, q)
  \/ \E to \in DOMAIN LinkTransitions : SetLinkStatus(to)
  \/ \E to \in {"OPEN", "CLOSED"} : UpdateBatch(to)

OrdersSpec == OrdersInit /\ [][OrdersNext]_orderVars

-----------------------------------------------------------------------------
(* Properties.                                                             *)

\* "concurrent use of the same submission token creates one order" (submitOrderLink):
\* every receipt ever given for a token names the one order that carries it, however
\* often the form is sent, at once or again after a process died.
OneOrderPerToken ==
  \A k \in Tokens : Cardinality(WithToken(k)) <= 1 /\ receipt[k] \subseteq WithToken(k)

\* What the largest submission that may find room asks for.
LargestFit == IF Largest < Capacity THEN Largest ELSE Capacity

\* "A rare concurrent race can nudge past the cap" (submitOrderLink), but by no more
\* than the other submissions under way can ask for: what was sold through the form
\* and not changed by staff since stays within this.
OversellIsBounded ==
  QuantityOf({o \in Orders \ edited : Counted(o)}) <=
    Capacity + (Cardinality(Buyers) - 1) * LargestFit
=============================================================================
