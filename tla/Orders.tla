-------------------------------- MODULE Orders --------------------------------
(***************************************************************************)
(* Placing orders and running them: modules/order/order.service.js,        *)
(* order.admin.service.js and order.model.js.                              *)
(*                                                                         *)
(* A request is one call of placeOrder.  It runs as a sequence of awaited  *)
(* database operations, and each of them is one step here, so the steps of *)
(* different requests and of staff handlers interleave.  One order line is *)
(* reserved by one atomic updateOne; there is no transaction around the    *)
(* lines of an order, only compensation.  A staff handler reads an order,  *)
(* decides, puts stock back line by line, and only then saves: its reads   *)
(* are stale by the time it writes.                                        *)
(***************************************************************************)
EXTENDS Integers, Sequences, FiniteSets

CONSTANTS
  Sku,            \* products without variants, and variants
  Request,        \* calls of placeOrder
  Handler,        \* staff handlers that may be at work at the same time
  Owner,          \* idempotency namespaces: an account, an e-mail or an IP
  Key,            \* client-chosen idempotency keys
  NoKey,          \* the request names no key
  Form,           \* the request bodies that occur
  InitialStock,   \* stock.quantity of each SKU at the start
  InitialPolicy,  \* how each SKU is sold at the start
  Backorderable,  \* SKUs for which staff may ever allow backorders
  MaxItems,       \* ORDER.MAX_ITEMS
  MaxQuantity,    \* ORDER.MAX_QUANTITY_PER_ITEM
  MaxEdits,       \* bound: catalog policy edits in a behaviour
  MaxFaults,      \* bound: crashes and database errors in a behaviour
  MaxStaffOps     \* bound: staff operations begun in a behaviour

Line == 1..MaxItems
Quantity == 0..MaxQuantity

(* One entry of body.items after validation. *)
Item == [sku : Sku, quantity : 1..MaxQuantity]

(* Two entries may name the same SKU: the validator does not forbid it. *)
Body == [owner : Owner, key : Key \cup {NoKey}, items : Seq(Item)]

ASSUME OrdersAssumption ==
  /\ IsFiniteSet(Request)
  /\ MaxItems \in Nat /\ MaxQuantity \in Nat
  /\ MaxEdits \in Nat /\ MaxFaults \in Nat /\ MaxStaffOps \in Nat
  /\ NoKey \notin Key
  /\ InitialStock \in [Sku -> Nat]
  /\ Backorderable \subseteq Sku
  /\ InitialPolicy \in [Sku -> {"counted", "untracked"}]
  /\ \A f \in Form : f \in Body /\ Len(f.items) \in Line

(* How a SKU is sold: "counted" refuses at zero, "backorder" may go below, *)
(* "untracked" has no count, and "offSale" is not public or not ACTIVE.    *)
Policy == {"counted", "backorder", "untracked", "offSale"}

Status == {"PENDING", "CONFIRMED", "OUT_FOR_DELIVERY", "DELIVERED",
           "RETURNED", "CANCELED"}

(* ORDER_STATUS_FLOW: the moves a status may make. *)
Flow ==
  [s \in Status |->
     CASE s = "PENDING"          -> {"CONFIRMED", "CANCELED"}
       [] s = "CONFIRMED"        -> {"OUT_FOR_DELIVERY", "DELIVERED",
                                     "RETURNED", "CANCELED"}
       [] s = "OUT_FOR_DELIVERY" -> {"DELIVERED", "RETURNED", "CANCELED"}
       [] s = "DELIVERED"        -> {"RETURNED"}
       [] s = "RETURNED"         -> {}
       [] s = "CANCELED"         -> {}]

(* Mutant: a cancellation keeps its units. *)
OnlyReturned == {"RETURNED"}

(* ORDER_STOCK_RELEASING_STATUSES: reaching one gives the units back. *)
Releasing == {"RETURNED", "CANCELED"}

(* The statuses in which updateDetails refuses to edit. *)
Finished == {"DELIVERED", "RETURNED", "CANCELED"}

(* The fields of an order document that anything below depends on. *)
Order == [status : Status, payment : {"DUE", "PAID"},
          stockReleased : BOOLEAN, deleted : BOOLEAN, corrected : BOOLEAN]

NoOrder == [status |-> "none"]

NewOrder == [status |-> "PENDING", payment |-> "DUE",
             stockReleased |-> FALSE, deleted |-> FALSE, corrected |-> FALSE]

(* What a staff handler carries from its read to its save: the order it    *)
(* works on, the status asked for, whether it decided to release the       *)
(* stock, and the lines it has still to put back.                          *)
Task == [op : {"status", "details", "softDelete", "hardDelete"},
         order : Request, to : Status, release : BOOLEAN,
         pending : SUBSET Line]

Idle == [op |-> "idle"]

-----------------------------------------------------------------------------
VARIABLES
  stock,      \* stock.quantity of each SKU
  policy,     \* how each SKU is sold now
  form,       \* the body of each request, chosen in Init, never changed
  pc,         \* the next step of each placeOrder call
  seen,       \* seen[r][i]: the policy loadSelections read for line i
  next,       \* the line reserveAll is about to reserve
  reserved,   \* reserved[r][i]: the line's reservedQuantity
  pending,    \* the lines releaseAll has still to put back
  outcome,    \* how the call ended
  answer,     \* the order a duplicate submission was answered with
  order,      \* the orders collection, by the request that wrote the order
  task,       \* what each staff handler is doing
  back,       \* history: lines of a request whose units were put back
  edits, faults, staffOps   \* how much of each bound is used

request == <<pc, seen, next, reserved, pending, outcome, answer>>
bounds == <<edits, faults, staffOps>>
vars == <<stock, policy, form, request, order, task, back, bounds>>

PC == {"lookup", "price", "reserve", "create", "undo", "done", "dead"}

Outcome == {"none", "placed", "duplicate", "refused", "conflict", "failed",
            "stranded"}

TypeOK ==
  /\ stock \in [Sku -> Int]
  /\ policy \in [Sku -> Policy]
  /\ form \in [Request -> Form]
  /\ pc \in [Request -> PC]
  /\ seen \in [Request -> [Line -> Policy]]
  /\ next \in [Request -> 1..(MaxItems + 1)]
  /\ reserved \in [Request -> [Line -> Quantity]]
  /\ pending \in [Request -> SUBSET Line]
  /\ outcome \in [Request -> Outcome]
  /\ answer \in [Request -> Request]
  /\ order \in [Request -> Order \cup {NoOrder}]
  /\ task \in [Handler -> Task \cup {Idle}]
  /\ back \in [Request -> SUBSET Line]
  /\ edits \in 0..MaxEdits
  /\ faults \in 0..MaxFaults
  /\ staffOps \in 0..MaxStaffOps

Init ==
  /\ stock = InitialStock
  /\ policy = InitialPolicy
  /\ form \in [Request -> Form]
  /\ pc = [r \in Request |-> "lookup"]
  /\ seen = [r \in Request |-> [i \in Line |-> "offSale"]]
  /\ next = [r \in Request |-> 1]
  /\ reserved = [r \in Request |-> [i \in Line |-> 0]]
  /\ pending = [r \in Request |-> {}]
  /\ outcome = [r \in Request |-> "none"]
  /\ answer = [r \in Request |-> r]
  /\ order = [r \in Request |-> NoOrder]
  /\ task = [h \in Handler |-> Idle]
  /\ back = [r \in Request |-> {}]
  /\ edits = 0 /\ faults = 0 /\ staffOps = 0

-----------------------------------------------------------------------------
(* placeOrder *)

Items(r) == form[r].items

(* The requests whose order is in the collection, soft-deleted or not. *)
Placed == {r \in Request : order[r] # NoOrder}

(* Mutant: the key as the client sent it. *)
BareKey(f) == f.key

(* scopedIdempotencyKey: a key only means something within its namespace.  *)
ScopedKey(f) == IF f.key = NoKey THEN NoKey ELSE <<f.owner, f.key>>

SameSubmission(r, o) ==
  /\ form[r].key # NoKey
  /\ form[o].key # NoKey
  /\ ScopedKey(form[r]) = ScopedKey(form[o])

(* Mutant: no unique index behind the lookup. *)
NoIndex(r) == FALSE

(* The unique partial index on idempotencyKey holds r's key already. *)
KeyTaken(r) == \E o \in Placed : SameSubmission(r, o)

(* The call ends: nothing of the request changes after this. *)
Finish(r, how) ==
  /\ pc' = [pc EXCEPT ![r] = "done"]
  /\ outcome' = [outcome EXCEPT ![r] = how]

(* A retried submission is answered with the order its key already placed. *)
FindExisting(r) ==
  /\ pc[r] = "lookup"
  /\ \E o \in Placed :
       /\ SameSubmission(r, o)
       /\ answer' = [answer EXCEPT ![r] = o]
  /\ Finish(r, "duplicate")
  /\ UNCHANGED <<stock, policy, form, seen, next, reserved, pending, order,
                 task, back, bounds>>

FindNone(r) ==
  /\ pc[r] = "lookup"
  /\ ~ \E o \in Placed : SameSubmission(r, o)
  /\ pc' = [pc EXCEPT ![r] = "price"]
  /\ UNCHANGED <<stock, policy, form, seen, next, reserved, pending, outcome,
                 answer, order, task, back, bounds>>

(* checkSelection and the quantity test of priceItems for one item, on the *)
(* catalog as it is now.  Each item is tested on its own.                  *)
Orderable(item) ==
  /\ policy[item.sku] # "offSale"
  /\ policy[item.sku] = "counted" => stock[item.sku] >= item.quantity

(* priceItems accepts every item and keeps what it read of each SKU. *)
PriceItems(r) ==
  /\ pc[r] = "price"
  /\ \A i \in 1..Len(Items(r)) : Orderable(Items(r)[i])
  /\ seen' = [seen EXCEPT ![r] =
                [i \in Line |-> IF i \in 1..Len(Items(r))
                                THEN policy[Items(r)[i].sku] ELSE seen[r][i]]]
  /\ pc' = [pc EXCEPT ![r] = "reserve"]
  /\ UNCHANGED <<stock, policy, form, next, reserved, pending, outcome,
                 answer, order, task, back, bounds>>

(* ORDER_ITEMS_INVALID: at least one item cannot be ordered. *)
RefuseItems(r) ==
  /\ pc[r] = "price"
  /\ \E i \in 1..Len(Items(r)) : ~Orderable(Items(r)[i])
  /\ Finish(r, "refused")
  /\ UNCHANGED <<stock, policy, form, seen, next, reserved, pending, answer,
                 order, task, back, bounds>>

(* Mutant: the decrement without the $gte filter, trusting the read made   *)
(* when the items were priced.                                             *)
Unguarded(r) == TRUE

(* The filter of reserveLine's updateOne.  Whether the guard applies was   *)
(* decided by the policy read at pricing; the count is the current one.    *)
GuardHolds(r) ==
  LET item == Items(r)[next[r]] IN
    seen[r][next[r]] = "counted" => stock[item.sku] >= item.quantity

(* The units reserveLine takes out of the count for r's next line. *)
Taken(r) ==
  IF seen[r][next[r]] = "untracked" THEN 0 ELSE Items(r)[next[r]].quantity

(* Mutant: the ordered quantity is recorded, tracked or not. *)
Ordered(r) == Items(r)[next[r]].quantity

(* The reservedQuantity that reserveAll records for the line. *)
Recorded(r) ==
  IF seen[r][next[r]] = "untracked" THEN 0 ELSE Items(r)[next[r]].quantity

(* reserveLine for the next line: test and decrement in one operation. *)
ReserveLine(r) ==
  /\ pc[r] = "reserve"
  /\ GuardHolds(r)
  /\ stock' = [stock EXCEPT ![Items(r)[next[r]].sku] = @ - Taken(r)]
  /\ reserved' = [reserved EXCEPT ![r][next[r]] = Recorded(r)]
  /\ next' = [next EXCEPT ![r] = @ + 1]
  /\ pc' = [pc EXCEPT ![r] = IF next[r] = Len(Items(r)) THEN "create"
                                                         ELSE "reserve"]
  /\ UNCHANGED <<policy, form, seen, pending, outcome, answer, order, task,
                 back, bounds>>

(* Mutant: compensation that forgets the first line. *)
AllButFirstHeld(r) == {i \in Line : i > 1 /\ reserved[r][i] > 0}

(* The lines releaseAll really has to touch: releaseLine returns early for *)
(* a line that reserved nothing.                                           *)
HeldByReservation(r) == {i \in Line : reserved[r][i] > 0}

(* releaseAll begins, and the call will end as `how'. *)
StartUndo(r, how) ==
  /\ pc' = [pc EXCEPT ![r] = "undo"]
  /\ pending' = [pending EXCEPT ![r] = HeldByReservation(r)]
  /\ outcome' = [outcome EXCEPT ![r] = how]

(* ORDER_INSUFFICIENT_STOCK: the guard no longer holds, and the lines      *)
(* reserved before this one go back.                                       *)
ReserveFails(r) ==
  /\ pc[r] = "reserve"
  /\ ~GuardHolds(r)
  /\ StartUndo(r, "refused")
  /\ UNCHANGED <<stock, policy, form, seen, next, reserved, answer, order,
                 task, back, bounds>>

(* Order.create succeeds.  Nothing that follows it in placeOrder can fail  *)
(* the call: the cart, the e-mails and the invitation catch their errors.  *)
CreateOrder(r) ==
  /\ pc[r] = "create"
  /\ ~KeyTaken(r)
  /\ order' = [order EXCEPT ![r] = NewOrder]
  /\ Finish(r, "placed")
  /\ UNCHANGED <<stock, policy, form, seen, next, reserved, pending, answer,
                 task, back, bounds>>

(* Order.create hits the unique index: a submission with the same key got  *)
(* there between this call's lookup and its insert.                        *)
CreateConflicts(r) ==
  /\ pc[r] = "create"
  /\ KeyTaken(r)
  /\ StartUndo(r, "conflict")
  /\ UNCHANGED <<stock, policy, form, seen, next, reserved, answer, order,
                 task, back, bounds>>

(* No order number could be allocated, or the insert was refused. *)
CreateFails(r) ==
  /\ pc[r] = "create"
  /\ StartUndo(r, "failed")
  /\ UNCHANGED <<stock, policy, form, seen, next, reserved, answer, order,
                 task, back, bounds>>

(* releaseAll is a Promise.all: its $inc operations land in any order. *)
UndoLine(r, i) ==
  /\ pc[r] = "undo"
  /\ i \in pending[r]
  /\ stock' = [stock EXCEPT ![Items(r)[i].sku] = @ + reserved[r][i]]
  /\ pending' = [pending EXCEPT ![r] = @ \ {i}]
  /\ back' = [back EXCEPT ![r] = @ \cup {i}]
  /\ UNCHANGED <<policy, form, pc, seen, next, reserved, outcome, answer,
                 order, task, bounds>>

FinishUndo(r) ==
  /\ pc[r] = "undo"
  /\ pending[r] = {}
  /\ pc' = [pc EXCEPT ![r] = "done"]
  /\ UNCHANGED <<stock, policy, form, seen, next, reserved, pending, outcome,
                 answer, order, task, back, bounds>>

(* One $inc of releaseAll fails: the others still run, the error is logged *)
(* or replaces the 422, and the line's units stay out.                     *)
UndoLineLost(r, i) ==
  /\ pc[r] = "undo"
  /\ i \in pending[r]
  /\ faults < MaxFaults
  /\ faults' = faults + 1
  /\ pending' = [pending EXCEPT ![r] = @ \ {i}]
  /\ outcome' = [outcome EXCEPT ![r] = "stranded"]
  /\ UNCHANGED <<stock, policy, form, pc, seen, next, reserved, answer, order,
                 task, back, edits, staffOps>>

(* The process dies, or a database error is thrown where nothing catches   *)
(* it (reserveAll runs outside the try block): the call stops where it is  *)
(* and whatever it had reserved stays out.                                 *)
Die(r) ==
  /\ pc[r] \in {"lookup", "price", "reserve", "create", "undo"}
  /\ faults < MaxFaults
  /\ faults' = faults + 1
  /\ pc' = [pc EXCEPT ![r] = "dead"]
  /\ UNCHANGED <<stock, policy, form, seen, next, reserved, pending, outcome,
                 answer, order, task, back, edits, staffOps>>

-----------------------------------------------------------------------------
(* The catalog, as far as ordering depends on it. *)

(* Staff change how a SKU is sold; absolute writes of stock.quantity are   *)
(* not part of this module.                                                *)
SetPolicy(s, p) ==
  /\ edits < MaxEdits
  /\ p # policy[s]
  /\ p = "backorder" => s \in Backorderable
  /\ edits' = edits + 1
  /\ policy' = [policy EXCEPT ![s] = p]
  /\ UNCHANGED <<stock, form, request, order, task, back, faults, staffOps>>

-----------------------------------------------------------------------------
(* Staff handlers: read, decide, put stock back, save. *)

Live(o) == order[o] # NoOrder /\ ~order[o].deleted

Allowed(from, to) == to \in Flow[from]

(* Mutant: the flag is not consulted. *)
AlwaysRelease(o) == TRUE

(* The `!order.stockReleased' test, on the document as it was read. *)
StillHolding(o) == ~order[o].stockReleased

(* Handler h read order o and will do op; from here it works on its copy. *)
Begin(h, o, op, to, release) ==
  /\ task[h] = Idle
  /\ staffOps < MaxStaffOps
  /\ staffOps' = staffOps + 1
  /\ task' = [task EXCEPT ![h] =
                [op |-> op, order |-> o, to |-> to, release |-> release,
                 pending |-> IF release THEN HeldByReservation(o) ELSE {}]]
  /\ UNCHANGED <<stock, policy, form, request, order, back, edits, faults>>

(* changeStatus up to its first write; a refused change changes nothing. *)
BeginStatus(h, o, to) ==
  /\ Live(o)
  /\ Allowed(order[o].status, to)
  /\ Begin(h, o, "status", to, to \in Releasing /\ StillHolding(o))

Editable(o) == order[o].status \notin Finished

(* updateDetails: stock and status play no part in it. *)
BeginDetails(h, o) ==
  /\ Live(o)
  /\ Editable(o)
  /\ Begin(h, o, "details", order[o].status, FALSE)

(* softDelete does not look at the status, only at the flag. *)
BeginSoftDelete(h, o) ==
  /\ Live(o)
  /\ Begin(h, o, "softDelete", order[o].status, StillHolding(o))

(* hardDelete also finds soft-deleted orders. *)
BeginHardDelete(h, o) ==
  /\ order[o] # NoOrder
  /\ Begin(h, o, "hardDelete", order[o].status, StillHolding(o))

(* releaseOrderStock: the recorded reservedQuantity of each line goes back *)
(* to the count, in any order, whatever the SKU's policy is by now.        *)
RestockLine(h, i) ==
  /\ task[h] # Idle
  /\ i \in task[h].pending
  /\ LET o == task[h].order IN
       /\ stock' = [stock EXCEPT ![Items(o)[i].sku] = @ + reserved[o][i]]
       /\ back' = [back EXCEPT ![o] = @ \cup {i}]
  /\ task' = [task EXCEPT ![h].pending = @ \ {i}]
  /\ UNCHANGED <<policy, form, request, order, bounds>>

(* Mutant: the payment status is taken from the wrong enumeration. *)
PaymentFromStatus(old, t) ==
  [old EXCEPT !.status = t.to, !.payment = t.to]

(* Mutant: a save that forgets the flag. *)
OnlyStatusSaved(old, t) ==
  [old EXCEPT !.status = t.to,
              !.payment = IF t.to = "DELIVERED" THEN "PAID" ELSE @]

(* The fields order.save() writes after changeStatus: the modified ones. *)
StatusSaved(old, t) ==
  [old EXCEPT !.status = t.to,
              !.stockReleased = @ \/ t.release,
              !.payment = IF t.to = "DELIVERED" THEN "PAID" ELSE @]

SoftDeleted(old, t) ==
  [old EXCEPT !.deleted = TRUE, !.stockReleased = @ \/ t.release]

(* The handler has put everything back and writes doc over order o.  The   *)
(* save carries no version: it applies to whatever the document is now.    *)
Save(h, op, doc) ==
  /\ task[h] # Idle
  /\ task[h].op = op
  /\ task[h].pending = {}
  /\ order' = [order EXCEPT ![task[h].order] = doc]
  /\ task' = [task EXCEPT ![h] = Idle]
  /\ UNCHANGED <<stock, policy, form, request, back, bounds>>

Exists(h) == task[h] # Idle /\ order[task[h].order] # NoOrder

SaveStatus(h) ==
  /\ Exists(h)
  /\ Save(h, "status", StatusSaved(order[task[h].order], task[h]))

SaveDetails(h) ==
  /\ Exists(h)
  /\ Save(h, "details", [order[task[h].order] EXCEPT !.corrected = TRUE])

SaveSoftDelete(h) ==
  /\ Exists(h)
  /\ Save(h, "softDelete", SoftDeleted(order[task[h].order], task[h]))

(* deleteOne, which does not mind finding nothing. *)
SaveHardDelete(h) == Save(h, "hardDelete", NoOrder)

(* save() of a document that was hard-deleted meanwhile fails, after the   *)
(* handler has already put stock back.                                     *)
SaveFindsNothing(h) ==
  /\ task[h] # Idle
  /\ order[task[h].order] = NoOrder
  /\ task[h].op # "hardDelete"
  /\ task[h].pending = {}
  /\ task' = [task EXCEPT ![h] = Idle]
  /\ UNCHANGED <<stock, policy, form, request, order, back, bounds>>

(* A database error or a crash ends the handler before its save. *)
HandlerFails(h) ==
  /\ task[h] # Idle
  /\ faults < MaxFaults
  /\ faults' = faults + 1
  /\ task' = [task EXCEPT ![h] = Idle]
  /\ UNCHANGED <<stock, policy, form, request, order, back, edits, staffOps>>

-----------------------------------------------------------------------------

(* One step of one placeOrder call, faults aside. *)
Step(r) ==
  \/ FindExisting(r) \/ FindNone(r)
  \/ PriceItems(r) \/ RefuseItems(r)
  \/ ReserveLine(r) \/ ReserveFails(r)
  \/ CreateOrder(r) \/ CreateConflicts(r) \/ CreateFails(r)
  \/ \E i \in Line : UndoLine(r, i)
  \/ FinishUndo(r)

Fault(r) ==
  \/ Die(r)
  \/ \E i \in Line : UndoLineLost(r, i)

BeginTask(h, o) ==
  \/ \E to \in Status : BeginStatus(h, o, to)
  \/ BeginDetails(h, o)
  \/ BeginSoftDelete(h, o)
  \/ BeginHardDelete(h, o)

WorkTask(h) ==
  \/ \E i \in Line : RestockLine(h, i)
  \/ SaveStatus(h) \/ SaveDetails(h) \/ SaveSoftDelete(h) \/ SaveHardDelete(h)
  \/ SaveFindsNothing(h)

Placement == \E r \in Request : Step(r) \/ Fault(r)
Work == \E h \in Handler : WorkTask(h)
Catalog == \E s \in Sku, p \in Policy : SetPolicy(s, p)

Next ==
  \/ Placement \/ Work \/ Catalog
  \/ \E h \in Handler, o \in Request : BeginTask(h, o)
  \/ \E h \in Handler : HandlerFails(h)

(* What the code allows: staff handlers of one order may overlap, and may  *)
(* fail between putting stock back and saving.                             *)
Spec == Init /\ [][Next]_vars

(* No handler is at work on order o.  Nothing in the code tests this: it   *)
(* is the discipline that the stock bookkeeping relies on.                 *)
Free(o) == \A h \in Handler : task[h] # Idle => task[h].order # o

SerialNext ==
  \/ Placement \/ Work \/ Catalog
  \/ \E h \in Handler, o \in Request : Free(o) /\ BeginTask(h, o)

(* Staff work on an order one at a time, on different orders at will, and  *)
(* a handler that has begun reaches its save.                              *)
SerialSpec == Init /\ [][SerialNext]_vars

(* Node keeps running the continuation of every awaited operation that     *)
(* settles, so a placeOrder call that has not crashed goes on.             *)
FairSerialSpec == SerialSpec /\ \A r \in Request : WF_vars(Step(r))

-----------------------------------------------------------------------------
(* Properties *)

(* The units line i of request r keeps out of the count at this moment. *)
UnitsOut(r, i) == IF i \in back[r] THEN 0 ELSE reserved[r][i]

(* The claims of the stock ledger: one per line of every request. *)
HeldByLines ==
  [c \in Request \X Line |->
     [s \in Sku |->
        IF /\ c[2] <= Len(Items(c[1]))
           /\ Items(c[1])[c[2]].sku = s
        THEN UnitsOut(c[1], c[2]) ELSE 0]]

Ledger == INSTANCE StockLedger
            WITH Claim <- Request \X Line, shelf <- stock, held <- HeldByLines

(* The order module does to stock what the ledger allows and nothing else: *)
(* a line's units leave the count once, and come back at most once and in  *)
(* the quantity that left, through every compensation, cancellation and    *)
(* deletion (reserveLine, releaseLine, releaseOrderStock).                 *)
ImplementsLedger == Ledger!Spec

(* For every SKU, the count and the units held by orders and by calls in   *)
(* progress or crashed add up to the initial count: nothing is invented,   *)
(* nothing is lost without a holder.                                       *)
StockIsConserved == Ledger!Conservation

(* However many orders race for the last unit, the count of a SKU that     *)
(* never takes backorders does not go below zero (reserveLine's filter).   *)
NoOversell == Ledger!NoOversell

(* Two submissions of one key in one namespace never leave two orders,     *)
(* even when both looked before either inserted.                           *)
OneOrderPerKey ==
  \A r, o \in Placed : SameSubmission(r, o) => r = o

(* A duplicate is answered with an order of its own caller, never with one *)
(* another caller placed under an equal key (scopedIdempotencyKey).        *)
DuplicateIsOwn ==
  \A r \in Request :
    outcome[r] = "duplicate" =>
      answer[r] # r /\ form[answer[r]].owner = form[r].owner

(* A retry is safe: a key places one order, and a call that is answered as *)
(* a duplicate is given an order of its own caller.  It does not say that  *)
(* a retry is answered as a duplicate: RetriesGetTheOrder does.            *)
KeysAreHonoured == OneOrderPerKey /\ DuplicateIsOwn

(* A checkout that ended without an order has given back every unit it     *)
(* took, unless giving back itself failed.                                 *)
FailedCheckoutHoldsNothing ==
  \A r \in Request :
    pc[r] = "done" /\ outcome[r] \in {"duplicate", "refused", "conflict", "failed"} =>
      \A i \in Line : UnitsOut(r, i) = 0

(* An order that was cancelled, returned or removed keeps no unit from     *)
(* sale: everything it reserved went back, whatever path ended it and      *)
(* however handlers overlapped or failed on the way.                       *)
EndedOrderHoldsNothing ==
  \A r \in Request :
    /\ outcome[r] = "placed"
    /\ \/ order[r] = NoOrder
       \/ order[r].deleted
       \/ order[r].status \in {"RETURNED", "CANCELED"}
    => \A i \in Line : UnitsOut(r, i) = 0

(* stockReleased tells the truth about an order nobody is working on: with *)
(* it set all reserved units are back, without it none is, so a handler    *)
(* that trusts it neither restocks twice nor not at all.                   *)
ReleasedFlagIsTruthful ==
  \A r \in Placed :
    Free(r) => IF order[r].stockReleased
               THEN \A i \in Line : UnitsOut(r, i) = 0
               ELSE back[r] = {}

(* Units taken by a call that has no order do not stay out for ever: they  *)
(* become an order's or go back, unless the call crashed or its release    *)
(* failed.                                                                 *)
EveryHoldResolves ==
  \A r \in Request :
    order[r] = NoOrder /\ (\E i \in Line : UnitsOut(r, i) > 0)
      ~> \/ order[r] # NoOrder
         \/ \A i \in Line : UnitsOut(r, i) = 0
         \/ pc[r] = "dead" \/ outcome[r] = "stranded"

(* What "restocking twice would invent" rules out: the count and the units *)
(* still held never exceed what there was.                                 *)
NoInventedStock ==
  \A s \in Sku :
    stock[s] + Cardinality(Ledger!HeldUnits(s)) <= InitialStock[s]

(* A submission whose key has an order is answered with that order: unless *)
(* the database failed it, no call that ends after another call placed an  *)
(* order under its key is told anything else (order.docs.js promises it to *)
(* a double-tapped button, placeOrder's comment to a retried submission).  *)
RetriesGetTheOrder ==
  [][\A r \in Request :
       /\ pc[r] # "done" /\ pc'[r] = "done"
       /\ KeyTaken(r)
       => outcome'[r] \in {"duplicate", "failed"}]_vars

(* RETURNED and CANCELED are terminal: an order that ended has ended, and  *)
(* no save re-opens it after its stock was released.                       *)
EndedStaysEnded ==
  [][\A r \in Request :
       /\ order[r] # NoOrder /\ order'[r] # NoOrder
       /\ order[r].status \in {"RETURNED", "CANCELED"}
       => order'[r].status = order[r].status]_vars

=============================================================================
