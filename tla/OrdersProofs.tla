----------------------------- MODULE OrdersProofs -----------------------------
(***************************************************************************)
(* Theorems about module Orders, for every set of SKUs and request bodies, *)
(* every finite set of requests, any number of staff handlers, and every   *)
(* value of the bounds.                                                    *)
(***************************************************************************)
EXTENDS Orders, FiniteSetTheorems, TLAPS

(* A request body has between one and MaxItems well-formed items. *)
LEMMA ItemsType ==
  ASSUME TypeOK, NEW r \in Request
  PROVE  /\ Items(r) \in Seq(Item)
         /\ Len(Items(r)) \in Line
         /\ \A i \in 1..Len(Items(r)) :
              /\ i \in Line
              /\ Items(r)[i] \in Item
              /\ Items(r)[i].sku \in Sku
              /\ Items(r)[i].quantity \in 1..MaxQuantity
<1>1. form[r] \in Body /\ Len(form[r].items) \in Line
  BY OrdersAssumption DEF TypeOK
<1>2. Items(r) \in Seq(Item) /\ Len(Items(r)) \in Line
  BY <1>1 DEF Items, Body
<1>3. ASSUME NEW i \in 1..Len(Items(r))
      PROVE  i \in Line /\ Items(r)[i] \in Item
  BY <1>2, OrdersAssumption DEF Line
<1>4. QED
  BY <1>2, <1>3 DEF Item

(* There is no order document that looks like the absence of one, and no   *)
(* task that looks like idleness.                                          *)
LEMMA Absent == NoOrder \notin Order /\ Idle \notin Task
<1>1. \A x \in Order : x.status # "none"
  BY DEF Order, Status
<1>2. \A x \in Task : x.op # "idle"
  BY DEF Task
<1>3. NoOrder.status = "none" /\ Idle.op = "idle"
  BY DEF NoOrder, Idle
<1>4. QED
  BY <1>1, <1>2, <1>3

(* The reservation loop only looks at lines the order has. *)
CursorOK ==
  \A r \in Request :
    /\ pc[r] \in {"lookup", "price"} => next[r] = 1
    /\ pc[r] = "reserve" => next[r] <= Len(Items(r))

TypeInv == TypeOK /\ CursorOK

LEMMA CursorInRange ==
  ASSUME TypeInv, NEW r \in Request, pc[r] = "reserve"
  PROVE  /\ next[r] \in 1..Len(Items(r))
         /\ next[r] \in Line
         /\ Items(r)[next[r]].sku \in Sku
         /\ Items(r)[next[r]].quantity \in 1..MaxQuantity
         /\ Taken(r) \in Quantity
         /\ Recorded(r) = Taken(r)
<1>1. next[r] \in 1..Len(Items(r))
  BY ItemsType, OrdersAssumption DEF TypeInv, TypeOK, CursorOK, Line
<1>2. /\ next[r] \in Line
      /\ Items(r)[next[r]].sku \in Sku
      /\ Items(r)[next[r]].quantity \in 1..MaxQuantity
  BY <1>1, ItemsType DEF TypeInv
<1>3. Taken(r) \in Quantity /\ Recorded(r) = Taken(r)
  BY <1>2, OrdersAssumption DEF Taken, Recorded, Quantity
<1>4. QED
  BY <1>1, <1>2, <1>3

(* A count stays an integer when units are added to it. *)
LEMMA CountMoved ==
  ASSUME TypeOK, NEW x, NEW n \in Int
  PROVE  [stock EXCEPT ![x] = @ + n] \in [Sku -> Int]
<1>1. CASE x \in Sku
  BY <1>1 DEF TypeOK
<1>2. CASE x \notin Sku
  <2>1. stock \in [Sku -> Int]
    BY DEF TypeOK
  <2>2. [stock EXCEPT ![x] = @ + n] = stock
    BY <1>2, <2>1
  <2>3. QED
    BY <2>1, <2>2
<1>3. QED
  BY <1>1, <1>2

-----------------------------------------------------------------------------
(* Type correctness, one lemma per group of actions. *)

LEMMA InitTypes == Init => TypeInv
<1>1. Init => TypeOK
  BY OrdersAssumption
  DEF Init, TypeOK, Line, Quantity, Policy, PC, Outcome, NoOrder, Idle
<1>2. Init => CursorOK
  BY DEF Init, CursorOK
<1>3. QED
  BY <1>1, <1>2 DEF TypeInv

LEMMA StepTypes ==
  ASSUME TypeInv, NEW r \in Request, Step(r)
  PROVE  TypeOK'
<1> USE OrdersAssumption DEF bounds, PC, Outcome, TypeInv
<1>1. ASSUME FindExisting(r) PROVE TypeOK'
  BY <1>1 DEF TypeOK, FindExisting, Finish, Placed
<1>2. ASSUME FindNone(r) PROVE TypeOK'
  BY <1>2 DEF TypeOK, FindNone
<1>3. ASSUME PriceItems(r) PROVE TypeOK'
  <2>1. [i \in Line |-> IF i \in 1..Len(Items(r))
                        THEN policy[Items(r)[i].sku] ELSE seen[r][i]]
          \in [Line -> Policy]
    BY ItemsType DEF TypeOK
  <2>2. QED
    BY <1>3, <2>1 DEF TypeOK, PriceItems
<1>4. ASSUME RefuseItems(r) PROVE TypeOK'
  BY <1>4 DEF TypeOK, RefuseItems, Finish
<1>5. ASSUME ReserveLine(r) PROVE TypeOK'
  <2>1. /\ next[r] \in Line
        /\ Items(r)[next[r]].sku \in Sku
        /\ Taken(r) \in Quantity
        /\ Recorded(r) \in Quantity
    BY <1>5, CursorInRange DEF ReserveLine
  <2>2. Taken(r) \in Int
    BY <2>1 DEF Quantity
  <2>3. stock' \in [Sku -> Int]
    BY <1>5, <2>1, <2>2 DEF TypeOK, ReserveLine
  <2>4. reserved' \in [Request -> [Line -> Quantity]]
    BY <1>5, <2>1 DEF TypeOK, ReserveLine
  <2>5. next' \in [Request -> 1..(MaxItems + 1)]
    BY <1>5, <2>1 DEF TypeOK, ReserveLine, Line
  <2>6. pc' \in [Request -> PC]
    BY <1>5 DEF TypeOK, ReserveLine
  <2>7. QED
    BY <1>5, <2>3, <2>4, <2>5, <2>6 DEF TypeOK, ReserveLine
<1>6. ASSUME ReserveFails(r) PROVE TypeOK'
  BY <1>6 DEF TypeOK, ReserveFails, StartUndo, HeldByReservation
<1>7. ASSUME CreateOrder(r) PROVE TypeOK'
  <2>1. NewOrder \in Order
    BY DEF NewOrder, Order, Status
  <2>2. QED
    BY <1>7, <2>1 DEF TypeOK, CreateOrder, Finish
<1>8. ASSUME CreateConflicts(r) PROVE TypeOK'
  BY <1>8 DEF TypeOK, CreateConflicts, StartUndo, HeldByReservation
<1>9. ASSUME CreateFails(r) PROVE TypeOK'
  BY <1>9 DEF TypeOK, CreateFails, StartUndo, HeldByReservation
<1>10. ASSUME NEW i \in Line, UndoLine(r, i) PROVE TypeOK'
  <2>1. reserved[r][i] \in Int
    BY DEF TypeOK, Quantity
  <2>2. stock' \in [Sku -> Int]
    BY <1>10, <2>1, CountMoved DEF UndoLine
  <2>3. QED
    BY <1>10, <2>2 DEF TypeOK, UndoLine
<1>11. ASSUME FinishUndo(r) PROVE TypeOK'
  BY <1>11 DEF TypeOK, FinishUndo
<1>12. QED
  BY <1>1, <1>2, <1>3, <1>4, <1>5, <1>6, <1>7, <1>8, <1>9, <1>10, <1>11
  DEF Step

LEMMA FaultTypes ==
  ASSUME TypeInv, NEW r \in Request, Fault(r)
  PROVE  TypeOK'
<1> USE OrdersAssumption DEF TypeInv
<1>1. ASSUME Die(r) PROVE TypeOK'
  BY <1>1 DEF TypeOK, Die, PC
<1>2. ASSUME NEW i \in Line, UndoLineLost(r, i) PROVE TypeOK'
  BY <1>2 DEF TypeOK, UndoLineLost, Outcome
<1>3. QED
  BY <1>1, <1>2 DEF Fault

LEMMA BeginTypes ==
  ASSUME TypeInv, NEW h \in Handler, NEW o \in Request, BeginTask(h, o)
  PROVE  TypeOK'
<1> USE OrdersAssumption DEF TypeInv
<1>1. ASSUME NEW op \in {"status", "details", "softDelete", "hardDelete"},
             NEW to \in Status, NEW release \in BOOLEAN,
             Begin(h, o, op, to, release)
      PROVE  TypeOK'
  <2>1. HeldByReservation(o) \in SUBSET Line
    BY DEF HeldByReservation
  <2>2. [op |-> op, order |-> o, to |-> to, release |-> release,
         pending |-> IF release THEN HeldByReservation(o) ELSE {}] \in Task
    BY <2>1 DEF Task
  <2>3. QED
    BY <1>1, <2>2 DEF TypeOK, Begin, request
<1>2. ASSUME Live(o) \/ order[o] # NoOrder
      PROVE  order[o].status \in Status /\ StillHolding(o) \in BOOLEAN
  BY <1>2 DEF Live, TypeOK, Order, StillHolding
<1>3. ASSUME NEW to \in Status, BeginStatus(h, o, to) PROVE TypeOK'
  BY <1>1, <1>2, <1>3 DEF BeginStatus
<1>4. ASSUME BeginDetails(h, o) PROVE TypeOK'
  BY <1>1, <1>2, <1>4 DEF BeginDetails
<1>5. ASSUME BeginSoftDelete(h, o) PROVE TypeOK'
  BY <1>1, <1>2, <1>5 DEF BeginSoftDelete
<1>6. ASSUME BeginHardDelete(h, o) PROVE TypeOK'
  BY <1>1, <1>2, <1>6 DEF BeginHardDelete
<1>7. QED
  BY <1>3, <1>4, <1>5, <1>6 DEF BeginTask

LEMMA WorkTypes ==
  ASSUME TypeInv, NEW h \in Handler, WorkTask(h)
  PROVE  TypeOK'
<1> USE OrdersAssumption DEF TypeInv, bounds, request
<1>1. task[h] # Idle => task[h] \in Task /\ task[h].order \in Request
  BY DEF TypeOK, Task
<1>2. ASSUME NEW i \in Line, RestockLine(h, i) PROVE TypeOK'
  <2>1. task[h] \in Task /\ task[h].order \in Request
    BY <1>1, <1>2 DEF RestockLine
  <2>2. reserved[task[h].order][i] \in Int
    BY <2>1 DEF TypeOK, Quantity
  <2>3. stock' \in [Sku -> Int]
    BY <1>2, <2>2, CountMoved DEF RestockLine
  <2>4. [task[h] EXCEPT !.pending = @ \ {i}] \in Task
    BY <2>1 DEF Task
  <2>5. task' \in [Handler -> Task \cup {Idle}]
    BY <1>2, <2>4 DEF TypeOK, RestockLine
  <2>6. back' \in [Request -> SUBSET Line]
    BY <1>2, <2>1 DEF TypeOK, RestockLine
  <2>7. QED
    BY <1>2, <2>3, <2>5, <2>6 DEF TypeOK, RestockLine
<1>3. ASSUME NEW op, NEW doc \in Order \cup {NoOrder}, Save(h, op, doc)
      PROVE  TypeOK'
  BY <1>1, <1>3 DEF TypeOK, Save
<1>4. ASSUME Exists(h)
      PROVE  /\ StatusSaved(order[task[h].order], task[h]) \in Order
             /\ SoftDeleted(order[task[h].order], task[h]) \in Order
             /\ [order[task[h].order] EXCEPT !.corrected = TRUE] \in Order
  <2>1. order[task[h].order] \in Order /\ task[h] \in Task
    BY <1>1, <1>4 DEF Exists, TypeOK
  <2>2. QED
    BY <2>1 DEF StatusSaved, SoftDeleted, Order, Task
<1>5. ASSUME SaveStatus(h) PROVE TypeOK'
  BY <1>3, <1>4, <1>5 DEF SaveStatus
<1>6. ASSUME SaveDetails(h) PROVE TypeOK'
  BY <1>3, <1>4, <1>6 DEF SaveDetails
<1>7. ASSUME SaveSoftDelete(h) PROVE TypeOK'
  BY <1>3, <1>4, <1>7 DEF SaveSoftDelete
<1>8. ASSUME SaveHardDelete(h) PROVE TypeOK'
  BY <1>3, <1>8 DEF SaveHardDelete
<1>9. ASSUME SaveFindsNothing(h) PROVE TypeOK'
  BY <1>9 DEF TypeOK, SaveFindsNothing
<1>10. QED
  BY <1>2, <1>5, <1>6, <1>7, <1>8, <1>9 DEF WorkTask

LEMMA CatalogTypes ==
  ASSUME TypeInv, NEW s \in Sku, NEW p \in Policy, SetPolicy(s, p)
  PROVE  TypeOK'
  BY OrdersAssumption DEF TypeInv, TypeOK, SetPolicy, request

(* A handler that fails writes nothing. *)
LEMMA FailFrame ==
  ASSUME \E h \in Handler : HandlerFails(h)
  PROVE  UNCHANGED <<stock, policy, form, pc, seen, next, reserved, pending,
                     outcome, answer, order, back>>
  BY DEF HandlerFails, request

(* Only placeOrder itself moves the cursor, and it stops at the last line. *)
LEMMA CursorStays ==
  ASSUME TypeInv, [Next]_vars
  PROVE  CursorOK'
<1> USE DEF TypeInv
<1> SUFFICES ASSUME NEW q \in Request
             PROVE  /\ pc'[q] \in {"lookup", "price"} => next'[q] = 1
                    /\ pc'[q] = "reserve" => next'[q] <= Len(form'[q].items)
  BY DEF CursorOK, Items
<1>1. /\ pc[q] \in {"lookup", "price"} => next[q] = 1
      /\ pc[q] = "reserve" => next[q] <= Len(form[q].items)
      /\ next[q] \in 1..(MaxItems + 1)
      /\ Len(form[q].items) \in 1..MaxItems
  BY ItemsType DEF TypeOK, CursorOK, Items, Line
<1>2. ASSUME NEW r \in Request, Step(r)
      PROVE  /\ pc'[q] \in {"lookup", "price"} => next'[q] = 1
             /\ pc'[q] = "reserve" => next'[q] <= Len(form'[q].items)
  <2>1. CASE FindExisting(r) \/ FindNone(r) \/ RefuseItems(r)
    BY <1>1, <2>1 DEF TypeOK, FindExisting, FindNone, RefuseItems, Finish
  <2>2. CASE PriceItems(r)
    BY <1>1, <2>2, OrdersAssumption DEF TypeOK, PriceItems
  <2>3. CASE ReserveLine(r)
    <3>1. next[q] \in Int /\ Len(form[q].items) \in Int
      BY <1>1, OrdersAssumption
    <3>2. CASE q = r
      <4>1. /\ next'[q] = next[q] + 1
            /\ pc'[q] = IF next[q] = Len(form[q].items) THEN "create"
                                                         ELSE "reserve"
            /\ form' = form
            /\ pc[q] = "reserve"
        BY <2>3, <3>2 DEF TypeOK, ReserveLine, Items
      <4>2. QED
        BY <1>1, <3>1, <4>1
    <3>3. CASE q # r
      BY <1>1, <2>3, <3>3 DEF TypeOK, ReserveLine
    <3>4. QED
      BY <3>2, <3>3
  <2>4. CASE ReserveFails(r) \/ CreateConflicts(r) \/ CreateFails(r)
    BY <1>1, <2>4
    DEF TypeOK, ReserveFails, CreateConflicts, CreateFails, StartUndo
  <2>5. CASE CreateOrder(r)
    BY <1>1, <2>5 DEF TypeOK, CreateOrder, Finish
  <2>6. CASE (\E i \in Line : UndoLine(r, i)) \/ FinishUndo(r)
    BY <1>1, <2>6 DEF TypeOK, UndoLine, FinishUndo
  <2>7. QED
    BY <1>2, <2>1, <2>2, <2>3, <2>4, <2>5, <2>6 DEF Step
<1>3. ASSUME NEW r \in Request, Fault(r)
      PROVE  /\ pc'[q] \in {"lookup", "price"} => next'[q] = 1
             /\ pc'[q] = "reserve" => next'[q] <= Len(form'[q].items)
  BY <1>1, <1>3 DEF TypeOK, Fault, Die, UndoLineLost
<1>4. CASE UNCHANGED <<pc, next, form>>
  BY <1>1, <1>4
<1>5. CASE Catalog
  BY <1>4, <1>5 DEF Catalog, SetPolicy, request
<1>6. CASE Work
  <2>1. UNCHANGED <<pc, next, form>>
    BY <1>6
    DEF Work, WorkTask, RestockLine, SaveStatus, SaveDetails, SaveSoftDelete,
        SaveHardDelete, SaveFindsNothing, Save, request
  <2>2. QED
    BY <1>4, <2>1
<1>7. CASE \E h \in Handler, o \in Request : BeginTask(h, o)
  <2>1. UNCHANGED <<pc, next, form>>
    BY <1>7
    DEF BeginTask, BeginStatus, BeginDetails, BeginSoftDelete,
        BeginHardDelete, Begin, request
  <2>2. QED
    BY <1>4, <2>1
<1>8. CASE UNCHANGED vars
  BY <1>4, <1>8 DEF vars, request
<1>9. CASE \E h \in Handler : HandlerFails(h)
  BY <1>4, <1>9, FailFrame
<1>10. QED
  BY <1>2, <1>3, <1>5, <1>6, <1>7, <1>8, <1>9 DEF Next, Placement

LEMMA TypeStep ==
  ASSUME TypeInv, [Next]_vars
  PROVE  TypeInv'
<1> SUFFICES TypeOK'
  BY CursorStays DEF TypeInv
<1>1. CASE Placement
  BY <1>1, StepTypes, FaultTypes DEF Placement
<1>2. CASE Work
  BY <1>2, WorkTypes DEF Work
<1>3. CASE Catalog
  BY <1>3, CatalogTypes DEF Catalog
<1>4. CASE \E h \in Handler, o \in Request : BeginTask(h, o)
  BY <1>4, BeginTypes
<1>5. CASE UNCHANGED vars
  BY <1>5 DEF TypeInv, TypeOK, vars, request, bounds
<1>6. CASE \E h \in Handler : HandlerFails(h)
  BY <1>6, OrdersAssumption DEF TypeInv, TypeOK, HandlerFails, request
<1>7. QED
  BY <1>1, <1>2, <1>3, <1>4, <1>5, <1>6 DEF Next

(* Every variable keeps its type, whatever placement, staff and catalog    *)
(* steps are interleaved and wherever calls crash: no reservation reads a  *)
(* line the order does not have, and every release is of a recorded line.  *)
THEOREM OrdersTypeOK == Spec => []TypeOK
<1>1. Spec => []TypeInv
  BY InitTypes, TypeStep, PTL DEF Spec
<1>2. TypeInv => TypeOK
  BY DEF TypeInv
<1>3. QED
  BY <1>1, <1>2, PTL

-----------------------------------------------------------------------------
(* What each group of actions may change. *)

(* Staff and catalog steps leave the requests alone, and staff steps bring *)
(* no order into the collection.                                           *)
LEMMA WorkFrame ==
  ASSUME TypeInv, Work
  PROVE  /\ UNCHANGED <<policy, form, pc, seen, next, reserved, pending,
                        outcome, answer>>
         /\ \A q \in Request : order[q] = NoOrder => order'[q] = NoOrder
<1>1. PICK h \in Handler : WorkTask(h)
  BY DEF Work
<1>2. ASSUME NEW op, NEW doc, Save(h, op, doc),
             doc # NoOrder => order[task[h].order] # NoOrder
      PROVE  \A q \in Request : order[q] = NoOrder => order'[q] = NoOrder
  BY <1>2 DEF TypeInv, TypeOK, Save
<1>3. UNCHANGED <<policy, form, pc, seen, next, reserved, pending, outcome,
                  answer>>
  BY <1>1
  DEF WorkTask, RestockLine, SaveStatus, SaveDetails, SaveSoftDelete,
      SaveHardDelete, SaveFindsNothing, Save, request
<1>4. CASE (\E i \in Line : RestockLine(h, i)) \/ SaveFindsNothing(h)
  BY <1>3, <1>4 DEF RestockLine, SaveFindsNothing
<1>5. CASE SaveStatus(h) \/ SaveDetails(h) \/ SaveSoftDelete(h)
           \/ SaveHardDelete(h)
  BY <1>2, <1>3, <1>5
  DEF SaveStatus, SaveDetails, SaveSoftDelete, SaveHardDelete, Exists
<1>6. QED
  BY <1>1, <1>3, <1>4, <1>5 DEF WorkTask

LEMMA BeginFrame ==
  ASSUME \E h \in Handler, o \in Request : BeginTask(h, o)
  PROVE  UNCHANGED <<stock, policy, form, pc, seen, next, reserved, pending,
                     outcome, answer, order, back>>
  BY DEF BeginTask, BeginStatus, BeginDetails, BeginSoftDelete,
         BeginHardDelete, Begin, request

LEMMA CatalogFrame ==
  ASSUME Catalog
  PROVE  UNCHANGED <<stock, form, pc, seen, next, reserved, pending, outcome,
                     answer, order, back>>
  BY DEF Catalog, SetPolicy, request

LEMMA FaultFrame ==
  ASSUME NEW r \in Request, Fault(r)
  PROVE  UNCHANGED <<stock, policy, form, seen, next, reserved, answer, order,
                     back>>
  BY DEF Fault, Die, UndoLineLost

-----------------------------------------------------------------------------
(* One order per idempotency key. *)

(* An order in the collection was written by a call that is over. *)
PlacedIsDone == \A r \in Request : order[r] # NoOrder => pc[r] = "done"

LEMMA PlacedIsDoneStep ==
  ASSUME TypeInv, PlacedIsDone, [Next]_vars
  PROVE  PlacedIsDone'
<1> USE DEF TypeInv
<1>1. ASSUME NEW r \in Request, Step(r) PROVE PlacedIsDone'
  <2>1. CASE CreateOrder(r)
    BY <2>1 DEF PlacedIsDone, TypeOK, CreateOrder, Finish
  <2>2. CASE ~CreateOrder(r)
    <3>1. order' = order /\ pc[r] # "done"
      BY <1>1, <2>2
      DEF Step, FindExisting, FindNone, PriceItems, RefuseItems, ReserveLine,
          ReserveFails, CreateConflicts, CreateFails, UndoLine, FinishUndo
    <3>2. \A q \in Request : q # r => pc'[q] = pc[q]
      BY <1>1, <2>2
      DEF TypeOK, Step, FindExisting, FindNone, PriceItems, RefuseItems,
          ReserveLine, ReserveFails, CreateConflicts, CreateFails, UndoLine,
          FinishUndo, Finish, StartUndo
    <3>3. QED
      BY <3>1, <3>2 DEF PlacedIsDone
  <2>3. QED
    BY <2>1, <2>2
<1>2. ASSUME NEW r \in Request, Fault(r) PROVE PlacedIsDone'
  BY <1>2 DEF PlacedIsDone, TypeOK, Fault, Die, UndoLineLost
<1>3. CASE Work
  BY <1>3, WorkFrame DEF PlacedIsDone
<1>4. CASE \E h \in Handler, o \in Request : BeginTask(h, o)
  BY <1>4, BeginFrame DEF PlacedIsDone
<1>5. CASE Catalog
  BY <1>5, CatalogFrame DEF PlacedIsDone
<1>6. CASE UNCHANGED vars
  BY <1>6 DEF PlacedIsDone, vars, request
<1>7. CASE \E h \in Handler : HandlerFails(h)
  BY <1>7, FailFrame DEF PlacedIsDone
<1>8. QED
  BY <1>1, <1>2, <1>3, <1>4, <1>5, <1>6, <1>7 DEF Next, Placement

LEMMA SameSubmissionSymmetric ==
  ASSUME NEW r, NEW o, SameSubmission(r, o)
  PROVE  SameSubmission(o, r)
  BY DEF SameSubmission

LEMMA OneOrderPerKeyStep ==
  ASSUME TypeInv, OneOrderPerKey, [Next]_vars
  PROVE  OneOrderPerKey'
<1>1. CASE \E r \in Request : CreateOrder(r)
  <2>1. PICK r \in Request : CreateOrder(r)
    BY <1>1
  <2>2. /\ form' = form
        /\ Placed' \subseteq Placed \cup {r}
        /\ \A o \in Placed : ~SameSubmission(r, o)
    BY <2>1 DEF TypeInv, TypeOK, CreateOrder, KeyTaken, Placed
  <2>3. ASSUME NEW p \in Placed', NEW q \in Placed', SameSubmission(p, q)
        PROVE  p = q
    BY <2>2, <2>3, SameSubmissionSymmetric DEF OneOrderPerKey
  <2>4. QED
    BY <2>2, <2>3 DEF OneOrderPerKey, SameSubmission
<1>2. CASE ~ \E r \in Request : CreateOrder(r)
  <2>1. form' = form /\ Placed' \subseteq Placed
    <3>1. CASE \E r \in Request : Step(r)
      BY <1>2, <3>1
      DEF Placed, Step, FindExisting, FindNone, PriceItems, RefuseItems,
          ReserveLine, ReserveFails, CreateConflicts, CreateFails, UndoLine,
          FinishUndo
    <3>2. CASE \E r \in Request : Fault(r)
      BY <3>2, FaultFrame DEF Placed
    <3>3. CASE Work
      BY <3>3, WorkFrame DEF Placed
    <3>4. CASE \E h \in Handler, o \in Request : BeginTask(h, o)
      BY <3>4, BeginFrame DEF Placed
    <3>5. CASE Catalog
      BY <3>5, CatalogFrame DEF Placed
    <3>6. CASE UNCHANGED vars
      BY <3>6 DEF Placed, vars
    <3>7. CASE \E h \in Handler : HandlerFails(h)
      BY <3>7, FailFrame DEF Placed
    <3>8. QED
      BY <3>1, <3>2, <3>3, <3>4, <3>5, <3>6, <3>7 DEF Next, Placement
  <2>2. QED
    BY <2>1 DEF OneOrderPerKey, SameSubmission
<1>3. QED
  BY <1>1, <1>2

(* However many submissions of one key race, and whatever staff remove, at *)
(* most one order of that key is in the collection at any time.            *)
THEOREM OrdersOnePerKey == Spec => []OneOrderPerKey
<1>1. Init => OneOrderPerKey
  BY DEF Init, OneOrderPerKey, Placed
<1>2. Init /\ [][Next]_vars => [](TypeInv /\ OneOrderPerKey)
  BY <1>1, InitTypes, TypeStep, OneOrderPerKeyStep, PTL
<1>3. QED
  BY <1>2, PTL DEF Spec

-----------------------------------------------------------------------------
(* A duplicate is answered from its own namespace. *)

LEMMA DuplicateIsOwnStep ==
  ASSUME TypeInv, PlacedIsDone, DuplicateIsOwn, [Next]_vars
  PROVE  DuplicateIsOwn'
<1> USE DEF TypeInv
<1>1. ASSUME NEW r \in Request, FindExisting(r) PROVE DuplicateIsOwn'
  <2>1. PICK o \in Placed : /\ SameSubmission(r, o)
                            /\ answer' = [answer EXCEPT ![r] = o]
    BY <1>1 DEF FindExisting
  <2>2. o \in Request /\ o # r
    BY <1>1, <2>1 DEF PlacedIsDone, Placed, FindExisting
  <2>3. form[r].owner = form[o].owner
    BY <2>1 DEF SameSubmission, ScopedKey
  <2>4. form' = form /\ outcome' = [outcome EXCEPT ![r] = "duplicate"]
    BY <1>1 DEF FindExisting, Finish
  <2>5. QED
    BY <2>1, <2>2, <2>3, <2>4 DEF DuplicateIsOwn, TypeOK
<1>2. CASE UNCHANGED <<form, answer, outcome>>
  BY <1>2 DEF DuplicateIsOwn
<1>3. ASSUME NEW r \in Request, Step(r), ~FindExisting(r)
      PROVE  DuplicateIsOwn'
  <2>1. UNCHANGED <<form, answer>>
    BY <1>3
    DEF Step, FindNone, PriceItems, RefuseItems, ReserveLine, ReserveFails,
        CreateOrder, CreateConflicts, CreateFails, UndoLine, FinishUndo
  <2>2. \A q \in Request : outcome'[q] = "duplicate" => outcome[q] = "duplicate"
    BY <1>3
    DEF TypeOK, Step, FindNone, PriceItems, RefuseItems, ReserveLine,
        ReserveFails, CreateOrder, CreateConflicts, CreateFails, UndoLine,
        FinishUndo, Finish, StartUndo
  <2>3. QED
    BY <2>1, <2>2 DEF DuplicateIsOwn
<1>4. ASSUME NEW r \in Request, Fault(r) PROVE DuplicateIsOwn'
  BY <1>4 DEF DuplicateIsOwn, TypeOK, Fault, Die, UndoLineLost
<1>5. CASE Work
  BY <1>2, <1>5, WorkFrame
<1>6. CASE \E h \in Handler, o \in Request : BeginTask(h, o)
  BY <1>2, <1>6, BeginFrame
<1>7. CASE Catalog
  BY <1>2, <1>7, CatalogFrame
<1>8. CASE UNCHANGED vars
  BY <1>2, <1>8 DEF vars, request
<1>9. CASE \E h \in Handler : HandlerFails(h)
  BY <1>2, <1>9, FailFrame
<1>10. QED
  BY <1>1, <1>3, <1>4, <1>5, <1>6, <1>7, <1>8, <1>9 DEF Next, Placement

(* A call answered as a duplicate is answered with an order of the same    *)
(* account, e-mail or address, never with its own and never with one that  *)
(* another caller placed under an equal key.                               *)
THEOREM OrdersDuplicateIsOwn == Spec => []DuplicateIsOwn
<1>1. Init => PlacedIsDone /\ DuplicateIsOwn
  BY DEF Init, PlacedIsDone, DuplicateIsOwn
<1>2. Init /\ [][Next]_vars => [](TypeInv /\ PlacedIsDone /\ DuplicateIsOwn)
  BY <1>1, InitTypes, TypeStep, PlacedIsDoneStep, DuplicateIsOwnStep, PTL
<1>3. QED
  BY <1>2, PTL DEF Spec

(* A retried placeOrder is safe, however many callers, keys and submissions *)
(* race.                                                                    *)
THEOREM OrdersHonourKeys == Spec => []KeysAreHonoured
<1>1. OneOrderPerKey /\ DuplicateIsOwn => KeysAreHonoured
  BY DEF KeysAreHonoured
<1>2. QED
  BY <1>1, OrdersOnePerKey, OrdersDuplicateIsOwn, PTL

-----------------------------------------------------------------------------
(* No overselling. *)

(* A SKU takes backorders only where staff may ever allow them. *)
PolicyOK == \A s \in Sku : policy[s] = "backorder" => s \in Backorderable

(* The policies a reserving call goes by were in force when it read them. *)
SeenOK ==
  \A r \in Request : pc[r] = "reserve" =>
    \A i \in 1..Len(Items(r)) :
      /\ seen[r][i] # "offSale"
      /\ seen[r][i] = "backorder" => Items(r)[i].sku \in Backorderable

LEMMA SeenStep ==
  ASSUME TypeInv, PolicyOK, SeenOK, [Next]_vars
  PROVE  PolicyOK' /\ SeenOK'
<1> USE DEF TypeInv
<1>1. ASSUME NEW r \in Request, PriceItems(r) PROVE SeenOK'
  <2>1. \A i \in 1..Len(Items(r)) :
          /\ i \in Line
          /\ Items(r)[i].sku \in Sku
          /\ seen'[r][i] = policy[Items(r)[i].sku]
          /\ policy[Items(r)[i].sku] # "offSale"
    BY <1>1, ItemsType DEF TypeOK, PriceItems, Orderable
  <2>2. /\ form' = form
        /\ \A q \in Request : q # r => pc'[q] = pc[q] /\ seen'[q] = seen[q]
    BY <1>1 DEF TypeOK, PriceItems
  <2>3. QED
    BY <2>1, <2>2 DEF PolicyOK, SeenOK, Items
<1>2. ASSUME NEW r \in Request, Step(r), ~PriceItems(r) PROVE SeenOK'
  <2>1. UNCHANGED <<form, seen>>
    BY <1>2
    DEF Step, FindExisting, FindNone, RefuseItems, ReserveLine, ReserveFails,
        CreateOrder, CreateConflicts, CreateFails, UndoLine, FinishUndo
  <2>2. \A q \in Request : pc'[q] = "reserve" => pc[q] = "reserve"
    BY <1>2
    DEF TypeOK, Step, FindExisting, FindNone, RefuseItems, ReserveLine,
        ReserveFails, CreateOrder, CreateConflicts, CreateFails, UndoLine,
        FinishUndo, Finish, StartUndo
  <2>3. QED
    BY <2>1, <2>2 DEF SeenOK, Items
<1>3. ASSUME NEW r \in Request, Step(r) PROVE policy' = policy
  BY <1>3
  DEF Step, FindExisting, FindNone, PriceItems, RefuseItems, ReserveLine,
      ReserveFails, CreateOrder, CreateConflicts, CreateFails, UndoLine,
      FinishUndo
<1>4. ASSUME NEW r \in Request, Fault(r) PROVE PolicyOK' /\ SeenOK'
  <2>1. \A q \in Request : pc'[q] = "reserve" => pc[q] = "reserve"
    BY <1>4 DEF TypeOK, Fault, Die, UndoLineLost
  <2>2. QED
    BY <1>4, <2>1, FaultFrame DEF PolicyOK, SeenOK, Items
<1>5. CASE UNCHANGED <<policy, form, seen, pc>>
  BY <1>5 DEF PolicyOK, SeenOK, Items
<1>6. CASE Work
  BY <1>5, <1>6, WorkFrame
<1>7. CASE \E h \in Handler, o \in Request : BeginTask(h, o)
  BY <1>5, <1>7, BeginFrame
<1>8. CASE Catalog
  <2>1. PolicyOK'
    BY <1>8 DEF Catalog, SetPolicy, PolicyOK, TypeOK
  <2>2. SeenOK'
    BY <1>8, CatalogFrame DEF SeenOK, Items
  <2>3. QED
    BY <2>1, <2>2
<1>9. CASE UNCHANGED vars
  BY <1>5, <1>9 DEF vars, request
<1>10. CASE \E h \in Handler : HandlerFails(h)
  BY <1>5, <1>10, FailFrame
<1>11. QED
  BY <1>1, <1>2, <1>3, <1>4, <1>6, <1>7, <1>8, <1>9, <1>10
  DEF Next, Placement, PolicyOK

LEMMA NoOversellStep ==
  ASSUME TypeInv, SeenOK, NoOversell, [Next]_vars
  PROVE  NoOversell'
<1> USE DEF TypeInv
<1>0. \A s \in Sku \ Backorderable : stock[s] >= 0
  BY DEF NoOversell, Ledger!NoOversell
<1> SUFFICES ASSUME NEW s \in Sku, s \notin Backorderable
             PROVE  stock'[s] >= 0
  BY DEF NoOversell, Ledger!NoOversell
<1>1. stock[s] \in Int /\ stock[s] >= 0
  BY <1>0 DEF TypeOK
<1>2. ASSUME NEW r \in Request, ReserveLine(r) PROVE stock'[s] >= 0
  <2> DEFINE item == Items(r)[next[r]]
  <2>1. /\ next[r] \in 1..Len(Items(r))
        /\ next[r] \in Line
        /\ item.sku \in Sku
        /\ item.quantity \in 1..MaxQuantity
    BY <1>2, CursorInRange DEF ReserveLine
  <2>2. seen[r][next[r]] \in Policy
    BY <2>1 DEF TypeOK
  <2>3. /\ seen[r][next[r]] # "offSale"
        /\ seen[r][next[r]] = "backorder" => item.sku \in Backorderable
    BY <1>2, <2>1 DEF SeenOK, ReserveLine
  <2>4. stock' = [stock EXCEPT ![item.sku] = @ - Taken(r)]
    BY <1>2 DEF ReserveLine
  <2>5. CASE item.sku # s
    BY <1>1, <2>1, <2>4, <2>5 DEF TypeOK
  <2>6. CASE item.sku = s
    <3>1. stock'[s] = stock[s] - Taken(r)
      BY <2>1, <2>4, <2>6 DEF TypeOK
    <3>2. CASE seen[r][next[r]] = "untracked"
      BY <1>1, <3>1, <3>2 DEF Taken
    <3>3. CASE seen[r][next[r]] = "counted"
      <4>1. Taken(r) = item.quantity /\ stock[s] >= item.quantity
        BY <1>2, <2>6, <3>3 DEF Taken, ReserveLine, GuardHolds
      <4>2. QED
        BY <1>1, <2>1, <3>1, <4>1, OrdersAssumption
    <3>4. QED
      BY <2>2, <2>3, <2>6, <3>2, <3>3 DEF Policy
  <2>7. QED
    BY <2>5, <2>6
<1>3. ASSUME NEW r \in Request, NEW i \in Line, UndoLine(r, i)
      PROVE  stock'[s] >= 0
  <2>1. reserved[r][i] \in Nat
    BY OrdersAssumption DEF TypeOK, Quantity
  <2>2. stock'[s] \in {stock[s], stock[s] + reserved[r][i]}
    BY <1>3 DEF TypeOK, UndoLine
  <2>3. QED
    BY <1>1, <2>1, <2>2
<1>4. ASSUME NEW h \in Handler, NEW i \in Line, RestockLine(h, i)
      PROVE  stock'[s] >= 0
  <2> DEFINE o == task[h].order
  <2>1. o \in Request
    BY <1>4 DEF TypeOK, Task, RestockLine
  <2>2. reserved[o][i] \in Nat
    BY <2>1, OrdersAssumption DEF TypeOK, Quantity
  <2>3. stock'[s] \in {stock[s], stock[s] + reserved[o][i]}
    BY <1>4 DEF TypeOK, RestockLine
  <2>4. QED
    BY <1>1, <2>2, <2>3
<1>5. CASE stock' = stock
  BY <1>1, <1>5
<1>6. ASSUME NEW r \in Request, Step(r) PROVE stock'[s] >= 0
  BY <1>2, <1>3, <1>5, <1>6
  DEF Step, FindExisting, FindNone, PriceItems, RefuseItems, ReserveFails,
      CreateOrder, CreateConflicts, CreateFails, FinishUndo
<1>7. ASSUME NEW r \in Request, Fault(r) PROVE stock'[s] >= 0
  BY <1>5, <1>7, FaultFrame
<1>8. CASE Work
  BY <1>4, <1>5, <1>8
  DEF Work, WorkTask, SaveStatus, SaveDetails, SaveSoftDelete,
      SaveHardDelete, SaveFindsNothing, Save
<1>9. CASE \E h \in Handler, o \in Request : BeginTask(h, o)
  BY <1>5, <1>9, BeginFrame
<1>10. CASE Catalog
  BY <1>5, <1>10, CatalogFrame
<1>11. CASE UNCHANGED vars
  BY <1>5, <1>11 DEF vars
<1>12. CASE \E h \in Handler : HandlerFails(h)
  BY <1>5, <1>12, FailFrame
<1>13. QED
  BY <1>6, <1>7, <1>8, <1>9, <1>10, <1>11, <1>12 DEF Next, Placement

(* A SKU that never takes backorders is never sold below zero, although    *)
(* the guard of each reservation is chosen by a policy read earlier, and   *)
(* however staff handlers overlap: releasing twice adds units, it does not *)
(* remove any.                                                             *)
THEOREM OrdersNeverOversell == Spec => []NoOversell
<1>1. Init => PolicyOK /\ SeenOK
  BY OrdersAssumption DEF Init, PolicyOK, SeenOK
<1>2. Init => NoOversell
  BY OrdersAssumption DEF Init, NoOversell, Ledger!NoOversell
<1>3. Init /\ [][Next]_vars
        => [](TypeInv /\ PolicyOK /\ SeenOK /\ NoOversell)
  BY <1>1, <1>2, InitTypes, TypeStep, SeenStep, NoOversellStep, PTL
<1>4. QED
  BY <1>3, PTL DEF Spec

-----------------------------------------------------------------------------
(* An order that ended keeps no unit, however handlers overlap or fail. *)

(* Every line of the order that took units has given them back. *)
AllBack(r) == HeldByReservation(r) \subseteq back[r]

(* Exactly the calls that ended as placed ever had an order. *)
PlacedCalls ==
  \A r \in Request :
    /\ order[r] # NoOrder => outcome[r] = "placed"
    /\ outcome[r] = "placed" => pc[r] = "done"

(* Either everything is back, or the order is there for all to see as one  *)
(* that still holds units.                                                 *)
EndedBack ==
  \A r \in Request :
    outcome[r] = "placed" =>
      \/ AllBack(r)
      \/ /\ order[r] # NoOrder
         /\ ~order[r].deleted
         /\ ~order[r].stockReleased
         /\ order[r].status \notin Releasing

(* The save of handler h will end its order. *)
Ending(h) ==
  \/ task[h].op \in {"softDelete", "hardDelete"}
  \/ task[h].op = "status" /\ task[h].to \in Releasing

(* A handler that will release the order has put back what it no longer    *)
(* has pending; one that ends it without releasing was told, truthfully,   *)
(* that everything is back.                                                *)
TaskSound(h) ==
  /\ outcome[task[h].order] = "placed"
  /\ task[h].release =>
       HeldByReservation(task[h].order)
         \subseteq back[task[h].order] \cup task[h].pending
  /\ ~task[h].release /\ Ending(h) => AllBack(task[h].order)

TaskBack == \A h \in Handler : task[h] # Idle => TaskSound(h)

EndedInv == PlacedCalls /\ EndedBack /\ TaskBack

(* A task stays sound while its order stays placed, only gains lines that  *)
(* are back, and every line that leaves the task's pending ones is back.   *)
LEMMA SoundStays ==
  ASSUME NEW h, TaskSound(h),
         task'[h].op = task[h].op, task'[h].to = task[h].to,
         task'[h].order = task[h].order,
         task'[h].release = task[h].release,
         outcome'[task[h].order] = "placed",
         HeldByReservation(task[h].order)' = HeldByReservation(task[h].order),
         back[task[h].order] \subseteq back'[task[h].order],
         task[h].pending \subseteq task'[h].pending \cup back'[task[h].order]
  PROVE  TaskSound(h)'
<1> DEFINE o == task[h].order
<1>1. Ending(h)' = Ending(h)
  BY DEF Ending, Releasing
<1>2. AllBack(o) => HeldByReservation(o) \subseteq back'[o]
  BY DEF AllBack
<1>3. task[h].release =>
        HeldByReservation(o) \subseteq back'[o] \cup task'[h].pending
  BY DEF TaskSound
<1>4. ~task[h].release /\ Ending(h) => HeldByReservation(o) \subseteq back'[o]
  BY <1>2 DEF TaskSound
<1>5. QED
  BY <1>1, <1>3, <1>4 DEF TaskSound, AllBack

(* A step of a call leaves placed orders and their units alone; a call     *)
(* becomes placed only by inserting a fresh order.                         *)
LEMMA PlacementFrame ==
  ASSUME TypeInv, PlacedCalls, NEW r \in Request, Step(r) \/ Fault(r)
  PROVE  /\ task' = task
         /\ \A q \in Request :
              /\ outcome[q] = "placed" =>
                   /\ outcome'[q] = "placed" /\ pc'[q] = "done"
                   /\ reserved'[q] = reserved[q]
                   /\ order'[q] = order[q]
                   /\ back'[q] = back[q]
              /\ outcome[q] # "placed" =>
                   \/ outcome'[q] # "placed" /\ order'[q] = order[q]
                   \/ /\ outcome'[q] = "placed" /\ pc'[q] = "done"
                      /\ order'[q] = NewOrder
<1> USE DEF TypeInv
<1>1. CASE FindExisting(r) \/ FindNone(r) \/ PriceItems(r) \/ RefuseItems(r)
  BY <1>1
  DEF TypeOK, PlacedCalls, FindExisting, FindNone, PriceItems, RefuseItems,
      Finish
<1>2. CASE ReserveLine(r)
  BY <1>2 DEF TypeOK, PlacedCalls, ReserveLine
<1>3. CASE ReserveFails(r) \/ CreateConflicts(r) \/ CreateFails(r)
  BY <1>3
  DEF TypeOK, PlacedCalls, ReserveFails, CreateConflicts, CreateFails,
      StartUndo
<1>4. CASE CreateOrder(r)
  BY <1>4 DEF TypeOK, PlacedCalls, CreateOrder, Finish
<1>5. CASE (\E i \in Line : UndoLine(r, i)) \/ FinishUndo(r)
  BY <1>5 DEF TypeOK, PlacedCalls, UndoLine, FinishUndo
<1>6. CASE Fault(r)
  BY <1>6 DEF TypeOK, PlacedCalls, Fault, Die, UndoLineLost
<1>7. QED
  BY <1>1, <1>2, <1>3, <1>4, <1>5, <1>6 DEF Step

LEMMA PlacementKeepsEnded ==
  ASSUME TypeInv, EndedInv, NEW r \in Request, Step(r) \/ Fault(r)
  PROVE  EndedInv'
<1> USE DEF EndedInv
<1>1. ASSUME NEW q \in Request, outcome[q] = "placed"
      PROVE  /\ outcome'[q] = "placed" /\ pc'[q] = "done"
             /\ HeldByReservation(q)' = HeldByReservation(q)
             /\ order'[q] = order[q] /\ back'[q] = back[q]
  BY <1>1, PlacementFrame DEF HeldByReservation
<1>2. ASSUME NEW q \in Request, outcome[q] # "placed"
      PROVE  \/ outcome'[q] # "placed" /\ order'[q] = NoOrder
             \/ /\ outcome'[q] = "placed" /\ pc'[q] = "done"
                /\ order'[q] = NewOrder
  BY <1>2, PlacementFrame DEF PlacedCalls
<1>3. /\ NewOrder # NoOrder /\ ~NewOrder.deleted /\ ~NewOrder.stockReleased
      /\ NewOrder.status \notin Releasing
  <2>1. NewOrder \in Order
    BY DEF NewOrder, Order, Status
  <2>2. QED
    BY <2>1, Absent DEF NewOrder, Releasing
<1>4. PlacedCalls'
  BY <1>1, <1>2 DEF PlacedCalls
<1>5. EndedBack'
  BY <1>1, <1>2, <1>3 DEF EndedBack, AllBack
<1>6. TaskBack'
  <2> SUFFICES ASSUME NEW h \in Handler, task'[h] # Idle
               PROVE  TaskSound(h)'
    BY DEF TaskBack
  <2>1. task' = task /\ task[h] \in Task /\ task[h].order \in Request
    BY PlacementFrame DEF TypeInv, TypeOK, Task
  <2>2. TaskSound(h)
    BY <2>1 DEF TaskBack
  <2>3. outcome[task[h].order] = "placed"
    BY <2>2 DEF TaskSound
  <2>4. QED
    BY <1>1, <2>1, <2>2, <2>3, SoundStays
<1>7. QED
  BY <1>4, <1>5, <1>6

LEMMA BeginKeepsEnded ==
  ASSUME TypeInv, EndedInv,
         NEW h \in Handler, NEW o \in Request, BeginTask(h, o)
  PROVE  EndedInv'
<1> USE DEF EndedInv, TypeInv
<1>1. /\ UNCHANGED <<pc, outcome, order, reserved, back>>
      /\ \A q \in Request : HeldByReservation(q)' = HeldByReservation(q)
      /\ \A q \in Request : AllBack(q)' = AllBack(q)
  BY BeginFrame DEF HeldByReservation, AllBack
<1>2. PlacedCalls' /\ EndedBack'
  BY <1>1 DEF PlacedCalls, EndedBack
<1>3. order[o] # NoOrder /\ outcome[o] = "placed"
  BY DEF BeginTask, BeginStatus, BeginDetails, BeginSoftDelete,
         BeginHardDelete, Live, PlacedCalls
<1>4. ~StillHolding(o) => AllBack(o)
  BY <1>3 DEF StillHolding, EndedBack
<1>5. /\ task'[h] # Idle => TaskSound(h)'
      /\ \A g \in Handler \ {h} : task'[g] = task[g]
  <2>1. ASSUME NEW op, NEW to, NEW release \in BOOLEAN,
               Begin(h, o, op, to, release),
               release \/ ~StillHolding(o)
                 \/ (op = "status" /\ to \notin Releasing) \/ op = "details"
        PROVE  /\ TaskSound(h)'
               /\ \A g \in Handler \ {h} : task'[g] = task[g]
    <3>1. /\ task'[h] = [op |-> op, order |-> o, to |-> to,
                         release |-> release,
                         pending |-> IF release THEN HeldByReservation(o)
                                                ELSE {}]
          /\ \A g \in Handler \ {h} : task'[g] = task[g]
      BY <2>1 DEF Begin, TypeOK
    <3>2. /\ task'[h].op = op /\ task'[h].order = o /\ task'[h].to = to
          /\ task'[h].release = release
          /\ release => task'[h].pending = HeldByReservation(o)
      BY <3>1
    <3>3. /\ HeldByReservation(task[h].order)' = HeldByReservation(o)
          /\ AllBack(task[h].order)' = AllBack(o)
      BY <1>1, <3>2 DEF HeldByReservation, AllBack
    <3>4. ~release /\ Ending(h)' => AllBack(o)
      BY <1>4, <2>1, <3>2 DEF Ending, Releasing
    <3>5. TaskSound(h)'
      BY <1>1, <1>3, <3>2, <3>3, <3>4 DEF TaskSound
    <3>6. QED
      BY <3>1, <3>5
  <2>2. order[o].stockReleased \in BOOLEAN
    BY <1>3 DEF TypeOK, Order
  <2>3. CASE \E to \in Status : BeginStatus(h, o, to)
    BY <2>1, <2>2, <2>3 DEF BeginStatus, StillHolding
  <2>4. CASE BeginDetails(h, o)
    BY <2>1, <2>4 DEF BeginDetails
  <2>5. CASE BeginSoftDelete(h, o)
    BY <2>1, <2>2, <2>5 DEF BeginSoftDelete, StillHolding
  <2>6. CASE BeginHardDelete(h, o)
    BY <2>1, <2>2, <2>6 DEF BeginHardDelete, StillHolding
  <2>7. QED
    BY <2>3, <2>4, <2>5, <2>6 DEF BeginTask
<1>6. ASSUME NEW g \in Handler, g # h, task'[g] # Idle
      PROVE  TaskSound(g)'
  <2>1. task'[g] = task[g] /\ task[g] # Idle /\ task[g].order \in Request
    BY <1>5, <1>6 DEF TypeOK, Task
  <2>2. TaskSound(g)
    BY <2>1 DEF TaskBack
  <2>3. outcome[task[g].order] = "placed"
    BY <2>2 DEF TaskSound
  <2>4. QED
    BY <1>1, <2>1, <2>2, <2>3, SoundStays
<1>7. TaskBack'
  BY <1>5, <1>6 DEF TaskBack
<1>8. QED
  BY <1>2, <1>7

LEMMA RestockKeepsEnded ==
  ASSUME TypeInv, EndedInv, NEW h \in Handler, NEW i \in Line,
         RestockLine(h, i)
  PROVE  EndedInv'
<1> USE DEF EndedInv, TypeInv
<1>1. /\ task[h] \in Task /\ task[h].order \in Request
      /\ back' = [back EXCEPT ![task[h].order] = @ \cup {i}]
      /\ task' = [task EXCEPT ![h].pending = @ \ {i}]
      /\ UNCHANGED <<pc, outcome, order, reserved>>
  BY DEF TypeOK, Task, RestockLine, request
<1>2. \A q \in Request : back[q] \subseteq back'[q]
  BY <1>1 DEF TypeOK
<1>3. \A q \in Request : HeldByReservation(q)' = HeldByReservation(q)
  BY <1>1 DEF HeldByReservation
<1>4. \A q \in Request : AllBack(q) => AllBack(q)'
  BY <1>2, <1>3 DEF AllBack
<1>5. PlacedCalls' /\ EndedBack'
  BY <1>1, <1>4 DEF PlacedCalls, EndedBack
<1>6. ASSUME NEW g \in Handler, task'[g] # Idle
      PROVE  /\ task[g] # Idle /\ task[g] \in Task
             /\ task'[g].op = task[g].op /\ task'[g].to = task[g].to
             /\ task'[g].order = task[g].order
             /\ task'[g].release = task[g].release
             /\ back'[task[g].order] \cup task'[g].pending
                  = back'[task[g].order] \cup task[g].pending
  <2>1. CASE g = h
    <3>1. task'[h] = [task[h] EXCEPT !.pending = @ \ {i}]
      BY <1>1 DEF TypeOK
    <3>2. i \in back'[task[h].order]
      BY <1>1 DEF TypeOK
    <3>3. task[h] # Idle
      BY DEF RestockLine
    <3>4. QED
      BY <1>1, <2>1, <3>1, <3>2, <3>3 DEF Task
  <2>2. CASE g # h
    BY <1>1, <1>6, <2>2 DEF TypeOK
  <2>3. QED
    BY <2>1, <2>2
<1>7. ASSUME NEW g \in Handler, task'[g] # Idle
      PROVE  TaskSound(g)'
  <2>1. task[g].order \in Request
    BY <1>6, <1>7 DEF Task
  <2>2. TaskSound(g)
    BY <1>6, <1>7 DEF TaskBack
  <2>3. outcome[task[g].order] = "placed"
    BY <2>2 DEF TaskSound
  <2>4. task[g].pending \subseteq task'[g].pending \cup back'[task[g].order]
    BY <1>6, <1>7
  <2>5. QED
    BY <1>1, <1>2, <1>3, <1>6, <1>7, <2>1, <2>2, <2>3, <2>4, SoundStays
<1>8. TaskBack'
  BY <1>7 DEF TaskBack
<1>9. QED
  BY <1>5, <1>8

(* A save or deletion that h performs, or its failure: its own task ends,  *)
(* and the others go on with units and calls as they were.                 *)
LEMMA TaskEnds ==
  ASSUME TypeInv, TaskBack, NEW h \in Handler,
         task' = [task EXCEPT ![h] = Idle],
         UNCHANGED <<outcome, reserved, back>>
  PROVE  /\ TaskBack'
         /\ \A q \in Request : AllBack(q)' = AllBack(q)
<1>1. \A q \in Request : /\ HeldByReservation(q)' = HeldByReservation(q)
                         /\ AllBack(q)' = AllBack(q)
  BY DEF HeldByReservation, AllBack
<1>2. ASSUME NEW g \in Handler, task'[g] # Idle PROVE TaskSound(g)'
  <2>1. task'[g] = task[g] /\ task[g] # Idle /\ task[g].order \in Request
    BY <1>2 DEF TypeInv, TypeOK, Task
  <2>2. TaskSound(g)
    BY <2>1 DEF TaskBack
  <2>3. outcome[task[g].order] = "placed"
    BY <2>2 DEF TaskSound
  <2>4. QED
    BY <1>1, <2>1, <2>2, <2>3, SoundStays
<1>3. QED
  BY <1>1, <1>2 DEF TaskBack

LEMMA SaveKeepsEnded ==
  ASSUME TypeInv, EndedInv, NEW h \in Handler,
         \/ SaveStatus(h) \/ SaveDetails(h) \/ SaveSoftDelete(h)
         \/ SaveHardDelete(h)
  PROVE  EndedInv'
<1> DEFINE o == task[h].order
<1> USE DEF EndedInv, TypeInv
<1>1. PICK doc \in Order \cup {NoOrder} :
        /\ order' = [order EXCEPT ![o] = doc]
        /\ doc = NoOrder => task[h].op = "hardDelete"
        /\ doc # NoOrder =>
             /\ order[o] # NoOrder
             /\ \/ doc.deleted = order[o].deleted
                \/ task[h].op = "softDelete"
             /\ \/ doc.stockReleased = order[o].stockReleased
                \/ task[h].release
             /\ \/ doc.status = order[o].status
                \/ task[h].op = "status" /\ doc.status = task[h].to
  <2>1. order[o] # NoOrder => order[o] \in Order
    BY DEF TypeOK, Task, SaveStatus, SaveDetails, SaveSoftDelete, SaveHardDelete,
           Save
  <2>2. task[h] \in Task
    BY DEF TypeOK, SaveStatus, SaveDetails, SaveSoftDelete, SaveHardDelete, Save
  <2>3. CASE SaveHardDelete(h)
    BY <2>3 DEF SaveHardDelete, Save
  <2>4. CASE SaveStatus(h)
    <3> DEFINE d == StatusSaved(order[o], task[h])
    <3>1. /\ order' = [order EXCEPT ![o] = d] /\ order[o] # NoOrder
          /\ task[h].op = "status"
      BY <2>4 DEF SaveStatus, Save, Exists
    <3>2. /\ d \in Order /\ d.deleted = order[o].deleted
          /\ d.status = task[h].to
          /\ d.stockReleased = (order[o].stockReleased \/ task[h].release)
      BY <2>1, <2>2, <3>1 DEF StatusSaved, Order, Task
    <3>3. QED
      BY <2>1, <2>2, <3>1, <3>2, Absent DEF Order, Task
  <2>5. CASE SaveDetails(h)
    <3> DEFINE d == [order[o] EXCEPT !.corrected = TRUE]
    <3>1. order' = [order EXCEPT ![o] = d] /\ order[o] # NoOrder
      BY <2>5 DEF SaveDetails, Save, Exists
    <3>2. /\ d \in Order /\ d.deleted = order[o].deleted
          /\ d.status = order[o].status
          /\ d.stockReleased = order[o].stockReleased
      BY <2>1, <3>1 DEF Order
    <3>3. QED
      BY <3>1, <3>2, Absent
  <2>6. CASE SaveSoftDelete(h)
    <3> DEFINE d == SoftDeleted(order[o], task[h])
    <3>1. /\ order' = [order EXCEPT ![o] = d] /\ order[o] # NoOrder
          /\ task[h].op = "softDelete"
      BY <2>6 DEF SaveSoftDelete, Save, Exists
    <3>2. /\ d \in Order /\ d.status = order[o].status
          /\ d.stockReleased = (order[o].stockReleased \/ task[h].release)
      BY <2>1, <2>2, <3>1 DEF SoftDeleted, Order, Task
    <3>3. QED
      BY <2>1, <2>2, <3>1, <3>2, Absent DEF Order, Task
  <2>7. QED
    BY <2>3, <2>4, <2>5, <2>6
<1>2. /\ task[h] # Idle /\ task[h].pending = {}
      /\ task' = [task EXCEPT ![h] = Idle]
      /\ UNCHANGED <<pc, outcome, reserved, back>>
  BY DEF SaveStatus, SaveDetails, SaveSoftDelete, SaveHardDelete, Save, request
<1>3. o \in Request /\ TaskSound(h)
  BY <1>2 DEF TypeOK, Task, TaskBack
<1>4. task[h].release => AllBack(o)
  BY <1>2, <1>3 DEF TaskSound, AllBack
<1>5. ~task[h].release /\ Ending(h) => AllBack(o)
  BY <1>3 DEF TaskSound
<1>6. outcome[o] = "placed"
  BY <1>3 DEF TaskSound
<1>7. /\ TaskBack'
      /\ \A q \in Request : AllBack(q)' = AllBack(q)
  BY <1>2, TaskEnds
<1>8. PlacedCalls'
  BY <1>1, <1>2, <1>6 DEF PlacedCalls, TypeOK
<1>9. /\ AllBack(o)
      \/ /\ doc # NoOrder /\ ~doc.deleted /\ ~doc.stockReleased
         /\ doc.status \notin Releasing
  <2>1. CASE AllBack(o)
    BY <2>1
  <2>2. CASE ~AllBack(o)
    <3>1. ~task[h].release /\ ~Ending(h)
      BY <1>2, <1>4, <1>5, <2>2 DEF TypeOK, Task
    <3>2. /\ order[o] # NoOrder /\ ~order[o].deleted
          /\ ~order[o].stockReleased /\ order[o].status \notin Releasing
      BY <1>3, <1>6, <2>2 DEF EndedBack
    <3>3. doc # NoOrder
      BY <1>1, <3>1 DEF Ending
    <3>4. QED
      BY <1>1, <3>1, <3>2, <3>3 DEF Ending
  <2>3. QED
    BY <2>1, <2>2
<1>10. EndedBack'
  <2> SUFFICES ASSUME NEW q \in Request, outcome'[q] = "placed"
               PROVE  \/ AllBack(q)'
                      \/ /\ order'[q] # NoOrder
                         /\ ~order'[q].deleted
                         /\ ~order'[q].stockReleased
                         /\ order'[q].status \notin Releasing
    BY DEF EndedBack, Releasing
  <2>1. CASE q = o
    BY <1>1, <1>3, <1>7, <1>9, <2>1 DEF TypeOK
  <2>2. CASE q # o
    <3>1. order'[q] = order[q] /\ outcome[q] = "placed"
      BY <1>1, <1>2, <2>2 DEF TypeOK
    <3>2. QED
      BY <1>7, <3>1 DEF EndedBack
  <2>3. QED
    BY <2>1, <2>2
<1>11. QED
  BY <1>7, <1>8, <1>10

LEMMA EndedStep ==
  ASSUME TypeInv, EndedInv, [Next]_vars
  PROVE  EndedInv'
<1>1. CASE Placement
  BY <1>1, PlacementKeepsEnded DEF Placement
<1>2. CASE Work
  <2>1. PICK h \in Handler : WorkTask(h)
    BY <1>2 DEF Work
  <2>2. CASE SaveFindsNothing(h)
    <3>1. /\ task' = [task EXCEPT ![h] = Idle]
          /\ UNCHANGED <<pc, outcome, reserved, back, order>>
      BY <2>2 DEF SaveFindsNothing, request
    <3>2. QED
      BY <3>1, TaskEnds DEF EndedInv, PlacedCalls, EndedBack
  <2>3. QED
    BY <2>1, <2>2, RestockKeepsEnded, SaveKeepsEnded DEF WorkTask
<1>3. CASE \E h \in Handler, o \in Request : BeginTask(h, o)
  BY <1>3, BeginKeepsEnded
<1>4. CASE \E h \in Handler : HandlerFails(h)
  <2>1. PICK h \in Handler : HandlerFails(h)
    BY <1>4
  <2>2. /\ task' = [task EXCEPT ![h] = Idle]
        /\ UNCHANGED <<pc, outcome, reserved, back, order>>
    BY <2>1 DEF HandlerFails, request
  <2>3. QED
    BY <2>2, TaskEnds DEF EndedInv, PlacedCalls, EndedBack
<1>5. CASE UNCHANGED <<pc, outcome, reserved, back, order, task>>
  BY <1>5
  DEF EndedInv, PlacedCalls, EndedBack, TaskBack, TaskSound, Ending, AllBack,
      HeldByReservation, Releasing
<1>6. CASE Catalog
  BY <1>5, <1>6 DEF Catalog, SetPolicy, request
<1>7. CASE UNCHANGED vars
  BY <1>5, <1>7 DEF vars, request
<1>8. QED
  BY <1>1, <1>2, <1>3, <1>4, <1>6, <1>7 DEF Next

(* An order that was cancelled, returned, hidden or removed for good keeps *)
(* no unit from sale, for any number of handlers that overlap on it and    *)
(* wherever they fail: what the stale flag can cause is a second release,  *)
(* never a missing one.                                                    *)
THEOREM OrdersEndedHoldsNothing == Spec => []EndedOrderHoldsNothing
<1>1. Init => EndedInv
  BY DEF Init, EndedInv, PlacedCalls, EndedBack, TaskBack
<1>2. TypeInv /\ EndedInv => EndedOrderHoldsNothing
  <2> SUFFICES ASSUME TypeInv, EndedInv, NEW r \in Request,
                      outcome[r] = "placed",
                      \/ order[r] = NoOrder
                      \/ order[r].deleted
                      \/ order[r].status \in {"RETURNED", "CANCELED"},
                      NEW i \in Line
               PROVE  UnitsOut(r, i) = 0
    BY DEF EndedOrderHoldsNothing
  <2>1. AllBack(r)
    BY DEF EndedInv, EndedBack, Releasing
  <2>2. reserved[r][i] \in Nat
    BY OrdersAssumption DEF TypeInv, TypeOK, Quantity
  <2>3. QED
    BY <2>1, <2>2 DEF AllBack, HeldByReservation, UnitsOut
<1>3. Init /\ [][Next]_vars => [](TypeInv /\ EndedInv)
  BY <1>1, InitTypes, TypeStep, EndedStep, PTL
<1>4. QED
  BY <1>2, <1>3, PTL DEF Spec

-----------------------------------------------------------------------------
(* A checkout that failed keeps no unit. *)

FailedOutcome == {"duplicate", "refused", "conflict", "failed"}

(* A call that has not begun to reserve holds nothing; one that undoes has *)
(* put back every line it held that it is not still about to put back,     *)
(* unless a line got lost; and one that failed has put back all.           *)
Settles(r) ==
  /\ pc[r] \in {"lookup", "price"} => HeldByReservation(r) = {}
  /\ pc[r] = "undo" /\ outcome[r] # "stranded" =>
       HeldByReservation(r) \subseteq pending[r] \cup back[r]
  /\ pc[r] = "done" /\ outcome[r] \in FailedOutcome =>
       HeldByReservation(r) \subseteq back[r]

SettlesInv == \A r \in Request : Settles(r)

(* Whoever else acts on a request's lines only puts more of them back.     *)
LEMMA OthersSettle ==
  ASSUME NEW r \in Request, Settles(r),
         pc'[r] = pc[r], outcome'[r] = outcome[r], pending'[r] = pending[r],
         reserved'[r] = reserved[r], back[r] \subseteq back'[r]
  PROVE  Settles(r)'
<1>1. HeldByReservation(r)' = HeldByReservation(r)
  BY DEF HeldByReservation
<1>2. QED
  BY <1>1 DEF Settles, FailedOutcome

LEMMA CallSettles ==
  ASSUME TypeInv, SettlesInv, NEW r \in Request, Step(r) \/ Fault(r)
  PROVE  Settles(r)'
<1> USE DEF TypeInv
<1>1. Settles(r)
  BY DEF SettlesInv
<1>2. CASE FindExisting(r) \/ FindNone(r) \/ RefuseItems(r)
  BY <1>1, <1>2
  DEF TypeOK, Settles, FailedOutcome, HeldByReservation, FindExisting,
      FindNone, RefuseItems, Finish
<1>3. CASE PriceItems(r) \/ ReserveLine(r)
  BY <1>3 DEF TypeOK, Settles, PriceItems, ReserveLine
<1>4. CASE ReserveFails(r) \/ CreateConflicts(r) \/ CreateFails(r)
  BY <1>4
  DEF TypeOK, Settles, HeldByReservation, ReserveFails, CreateConflicts,
      CreateFails, StartUndo
<1>5. CASE CreateOrder(r)
  BY <1>5 DEF TypeOK, Settles, FailedOutcome, CreateOrder, Finish
<1>6. ASSUME NEW i \in Line, UndoLine(r, i) PROVE Settles(r)'
  BY <1>1, <1>6 DEF TypeOK, Settles, HeldByReservation, UndoLine
<1>7. CASE FinishUndo(r)
  BY <1>1, <1>7 DEF TypeOK, Settles, FailedOutcome, HeldByReservation, FinishUndo
<1>8. ASSUME NEW i \in Line, UndoLineLost(r, i) PROVE Settles(r)'
  BY <1>8 DEF TypeOK, Settles, UndoLineLost
<1>9. CASE Die(r)
  BY <1>9 DEF TypeOK, Settles, Die
<1>10. QED
  BY <1>2, <1>3, <1>4, <1>5, <1>6, <1>7, <1>8, <1>9 DEF Step, Fault

(* A call leaves the other calls alone. *)
LEMMA CallsApart ==
  ASSUME TypeInv, NEW r \in Request, Step(r) \/ Fault(r),
         NEW q \in Request, q # r
  PROVE  /\ pc'[q] = pc[q] /\ outcome'[q] = outcome[q]
         /\ pending'[q] = pending[q] /\ reserved'[q] = reserved[q]
         /\ back'[q] = back[q]
<1> USE DEF TypeInv
<1>1. CASE Step(r)
  BY <1>1
  DEF TypeOK, Step, FindExisting, FindNone, PriceItems, RefuseItems, ReserveLine,
      ReserveFails, CreateOrder, CreateConflicts, CreateFails, UndoLine,
      FinishUndo, Finish, StartUndo
<1>2. CASE Fault(r)
  BY <1>2 DEF TypeOK, Fault, Die, UndoLineLost
<1>3. QED
  BY <1>1, <1>2

LEMMA SettlesStep ==
  ASSUME TypeInv, SettlesInv, [Next]_vars
  PROVE  SettlesInv'
<1>1. ASSUME NEW r \in Request, Step(r) \/ Fault(r) PROVE SettlesInv'
  <2>1. ASSUME NEW q \in Request, q # r PROVE Settles(q)'
    BY <1>1, <2>1, CallsApart, OthersSettle DEF SettlesInv
  <2>2. QED
    BY <1>1, <2>1, CallSettles DEF SettlesInv
<1>2. ASSUME UNCHANGED <<pc, reserved, pending, outcome>>,
             \A r \in Request : back[r] \subseteq back'[r]
      PROVE  SettlesInv'
  BY <1>2, OthersSettle DEF SettlesInv
<1>3. CASE Work
  <2>1. PICK h \in Handler : WorkTask(h)
    BY <1>3 DEF Work
  <2>2. \A r \in Request : back[r] \subseteq back'[r]
    BY <2>1
    DEF TypeInv, TypeOK, WorkTask, RestockLine, SaveStatus, SaveDetails,
        SaveSoftDelete, SaveHardDelete, SaveFindsNothing, Save
  <2>3. QED
    BY <1>2, <1>3, <2>2, WorkFrame
<1>4. CASE \E h \in Handler, o \in Request : BeginTask(h, o)
  BY <1>2, <1>4, BeginFrame
<1>5. CASE Catalog
  BY <1>2, <1>5, CatalogFrame
<1>6. CASE \E h \in Handler : HandlerFails(h)
  BY <1>2, <1>6 DEF HandlerFails, request
<1>7. CASE UNCHANGED vars
  BY <1>2, <1>7 DEF vars, request
<1>8. QED
  BY <1>1, <1>3, <1>4, <1>5, <1>6, <1>7 DEF Next, Placement

(* However many checkouts, staff handlers and faults interleave, a call    *)
(* that ended without an order, and did not lose an increment on the way,  *)
(* has put back every unit it had taken.                                   *)
THEOREM OrdersFailedHoldsNothing == Spec => []FailedCheckoutHoldsNothing
<1>1. Init => SettlesInv
  BY DEF Init, SettlesInv, Settles, HeldByReservation, FailedOutcome
<1>2. TypeInv /\ SettlesInv => FailedCheckoutHoldsNothing
  <2> SUFFICES ASSUME TypeInv, SettlesInv, NEW r \in Request, pc[r] = "done",
                      outcome[r] \in FailedOutcome, NEW i \in Line
               PROVE  UnitsOut(r, i) = 0
    BY DEF FailedCheckoutHoldsNothing, FailedOutcome
  <2>1. HeldByReservation(r) \subseteq back[r]
    BY DEF SettlesInv, Settles
  <2>2. reserved[r][i] \in Nat
    BY OrdersAssumption DEF TypeInv, TypeOK, Quantity
  <2>3. QED
    BY <2>1, <2>2 DEF HeldByReservation, UnitsOut
<1>3. Init /\ [][Next]_vars => [](TypeInv /\ SettlesInv)
  BY <1>1, InitTypes, TypeStep, SettlesStep, PTL
<1>4. QED
  BY <1>2, <1>3, PTL DEF Spec

-------------------------------------------------------------------------------
(* As long as staff work on one order at a time (SerialSpec), module       *)
(* Orders implements StockLedger, so no unit is invented or lost, and the  *)
(* stockReleased flag can be trusted.                                      *)


(* A call has reserved exactly the lines before its cursor, puts back      *)
(* nothing before it fails, and then puts each line back once.             *)
CallInv ==
  \A r \in Request :
    /\ pc[r] \in {"lookup", "price"} => HeldByReservation(r) = {}
    /\ pc[r] = "reserve" => \A i \in HeldByReservation(r) : i < next[r]
    /\ pc[r] \in {"lookup", "price", "reserve", "create"} => back[r] = {}
    /\ pc[r] = "undo" => /\ pending[r] \cap back[r] = {}
                         /\ pending[r] \subseteq HeldByReservation(r)
    /\ HeldByReservation(r) \subseteq 1..Len(Items(r))

(* Handlers that work work on different orders, each on one that exists.   *)
AloneInv ==
  \A h \in Handler : task[h] # Idle =>
    /\ order[task[h].order] # NoOrder
    /\ \A g \in Handler : task[g] # Idle /\ task[g].order = task[h].order
                            => g = h

(* A handler releases an order whose flag is unset, and what it has still  *)
(* to put back and what is back already are together all the order has.    *)
TaskInv ==
  \A h \in Handler : task[h] # Idle =>
    IF task[h].release
    THEN /\ task[h].op # "details"
         /\ ~order[task[h].order].stockReleased
         /\ task[h].pending \cap back[task[h].order] = {}
         /\ task[h].pending \subseteq HeldByReservation(task[h].order)
         /\ HeldByReservation(task[h].order)
              \subseteq task[h].pending \cup back[task[h].order]
    ELSE task[h].pending = {}

(* An order nobody is releasing has all its units back or none, and its    *)
(* flag says which.                                                        *)
FlagInv ==
  \A r \in Placed :
    \/ \E h \in Handler : /\ task[h] # Idle
                          /\ task[h].order = r
                          /\ task[h].release
    \/ IF order[r].stockReleased THEN HeldByReservation(r) \subseteq back[r]
                                 ELSE back[r] = {}

SerialInv ==
  /\ TypeInv /\ PlacedIsDone /\ PolicyOK /\ SeenOK
  /\ CallInv /\ AloneInv /\ TaskInv /\ FlagInv

-----------------------------------------------------------------------------
(* Steps of a call. *)

(* A call touches its own variables, the count, and, when it succeeds, its *)
(* own place in the orders collection.                                     *)
LEMMA CallFrame ==
  ASSUME TypeInv, PlacedIsDone, NEW r \in Request, Step(r) \/ Fault(r)
  PROVE  /\ UNCHANGED <<policy, form, task>>
         /\ pc[r] # "done" /\ order[r] = NoOrder
         /\ \A q \in Request : q # r =>
              /\ pc'[q] = pc[q]
              /\ next'[q] = next[q]
              /\ reserved'[q] = reserved[q]
              /\ pending'[q] = pending[q]
              /\ back'[q] = back[q]
              /\ order'[q] = order[q]
<1> USE DEF TypeInv
<1>1. CASE Step(r)
  <2>1. UNCHANGED <<policy, form, task>> /\ pc[r] # "done"
    BY <1>1
    DEF Step, FindExisting, FindNone, PriceItems, RefuseItems, ReserveLine,
        ReserveFails, CreateOrder, CreateConflicts, CreateFails, UndoLine,
        FinishUndo
  <2>2. ASSUME NEW q \in Request, q # r
        PROVE  /\ pc'[q] = pc[q]
               /\ next'[q] = next[q]
               /\ reserved'[q] = reserved[q]
               /\ pending'[q] = pending[q]
               /\ back'[q] = back[q]
               /\ order'[q] = order[q]
    <3>1. CASE FindExisting(r) \/ FindNone(r) \/ PriceItems(r) \/ RefuseItems(r)
      BY <2>2, <3>1
      DEF TypeOK, FindExisting, FindNone, PriceItems, RefuseItems, Finish
    <3>2. CASE ReserveLine(r)
      BY <2>2, <3>2 DEF TypeOK, ReserveLine
    <3>3. CASE ReserveFails(r) \/ CreateConflicts(r) \/ CreateFails(r)
      BY <2>2, <3>3
      DEF TypeOK, ReserveFails, CreateConflicts, CreateFails, StartUndo
    <3>4. CASE CreateOrder(r)
      BY <2>2, <3>4 DEF TypeOK, CreateOrder, Finish
    <3>5. CASE (\E i \in Line : UndoLine(r, i)) \/ FinishUndo(r)
      BY <2>2, <3>5 DEF TypeOK, UndoLine, FinishUndo
    <3>6. QED
      BY <1>1, <3>1, <3>2, <3>3, <3>4, <3>5 DEF Step
  <2>3. QED
    BY <2>1, <2>2 DEF PlacedIsDone
<1>2. CASE Fault(r)
  <2>1. /\ UNCHANGED <<policy, form, task, next, reserved, back, order>>
        /\ pc[r] # "done"
    BY <1>2 DEF Fault, Die, UndoLineLost
  <2>2. \A q \in Request : q # r => pc'[q] = pc[q] /\ pending'[q] = pending[q]
    BY <1>2 DEF TypeOK, Fault, Die, UndoLineLost
  <2>3. QED
    BY <2>1, <2>2 DEF PlacedIsDone
<1>3. QED
  BY <1>1, <1>2

(* What CallInv says of one request. *)
CallOK(r) ==
  /\ pc[r] \in {"lookup", "price"} => HeldByReservation(r) = {}
  /\ pc[r] = "reserve" => \A i \in HeldByReservation(r) : i < next[r]
  /\ pc[r] \in {"lookup", "price", "reserve", "create"} => back[r] = {}
  /\ pc[r] = "undo" => /\ pending[r] \cap back[r] = {}
                       /\ pending[r] \subseteq HeldByReservation(r)
  /\ HeldByReservation(r) \subseteq 1..Len(Items(r))

LEMMA CallInvIsLocal == CallInv <=> \A r \in Request : CallOK(r)
  BY DEF CallInv, CallOK

LEMMA StepKeepsCallOK ==
  ASSUME TypeInv, NEW r \in Request, CallOK(r), Step(r)
  PROVE  CallOK(r)'
<1> USE DEF TypeInv
<1>1. CASE FindExisting(r) \/ FindNone(r) \/ RefuseItems(r) \/ CreateOrder(r)
  BY <1>1
  DEF TypeOK, CallOK, HeldByReservation, Items, FindExisting, FindNone,
      RefuseItems, CreateOrder, Finish
<1>2. CASE PriceItems(r)
  BY <1>2 DEF TypeOK, CallOK, HeldByReservation, Items, PriceItems
<1>3. CASE ReserveLine(r)
  <2>1. /\ next[r] \in Line
        /\ next[r] \in 1..Len(Items(r))
        /\ form' = form
        /\ back' = back
        /\ pc[r] = "reserve"
        /\ pc'[r] \in {"reserve", "create"}
        /\ next'[r] = next[r] + 1
    BY <1>3, CursorInRange DEF TypeOK, ReserveLine
  <2>2. \A i \in Line : i # next[r] => reserved'[r][i] = reserved[r][i]
    BY <1>3, <2>1 DEF TypeOK, ReserveLine
  <2>3. HeldByReservation(r)' \subseteq HeldByReservation(r) \cup {next[r]}
    BY <2>2 DEF HeldByReservation
  <2>4. \A i \in HeldByReservation(r)' : i < next[r] + 1
    BY <2>1, <2>3, OrdersAssumption DEF CallOK, HeldByReservation, Line
  <2>5. HeldByReservation(r)' \subseteq 1..Len(Items(r))
    BY <2>1, <2>3 DEF CallOK
  <2>6. QED
    BY <2>1, <2>4, <2>5 DEF CallOK, Items
<1>4. CASE ReserveFails(r) \/ CreateConflicts(r) \/ CreateFails(r)
  BY <1>4
  DEF TypeOK, CallOK, HeldByReservation, Items, ReserveFails,
      CreateConflicts, CreateFails, StartUndo
<1>5. ASSUME NEW i \in Line, UndoLine(r, i) PROVE CallOK(r)'
  <2>1. /\ pc[r] = "undo" /\ pc' = pc
        /\ pending'[r] = pending[r] \ {i}
        /\ back'[r] = back[r] \cup {i}
        /\ UNCHANGED <<form, reserved>>
    BY <1>5 DEF TypeOK, UndoLine
  <2>2. QED
    BY <2>1 DEF CallOK, HeldByReservation, Items
<1>6. CASE FinishUndo(r)
  BY <1>6 DEF TypeOK, CallOK, HeldByReservation, Items, FinishUndo
<1>7. QED
  BY <1>1, <1>2, <1>3, <1>4, <1>5, <1>6 DEF Step

LEMMA FaultKeepsCallOK ==
  ASSUME TypeInv, NEW r \in Request, CallOK(r), Fault(r)
  PROVE  CallOK(r)'
<1> USE DEF TypeInv
<1>1. CASE Die(r)
  BY <1>1 DEF TypeOK, CallOK, HeldByReservation, Items, Die
<1>2. ASSUME NEW i \in Line, UndoLineLost(r, i) PROVE CallOK(r)'
  BY <1>2 DEF TypeOK, CallOK, HeldByReservation, Items, UndoLineLost
<1>3. QED
  BY <1>1, <1>2 DEF Fault

LEMMA PlacementKeepsSerialInv ==
  ASSUME SerialInv, NEW r \in Request, Step(r) \/ Fault(r)
  PROVE  CallInv' /\ AloneInv' /\ TaskInv' /\ FlagInv'
<1> USE DEF SerialInv
<1>1. /\ UNCHANGED <<policy, form, task>>
      /\ pc[r] # "done" /\ order[r] = NoOrder
      /\ \A q \in Request : q # r =>
           /\ pc'[q] = pc[q]
           /\ next'[q] = next[q]
           /\ reserved'[q] = reserved[q]
           /\ pending'[q] = pending[q]
           /\ back'[q] = back[q]
           /\ order'[q] = order[q]
  BY CallFrame
<1>2. CallInv'
  <2>1. \A q \in Request : q # r => CallOK(q)'
    BY <1>1, CallInvIsLocal DEF CallOK, HeldByReservation, Items
  <2>2. CallOK(r)'
    BY CallInvIsLocal, StepKeepsCallOK, FaultKeepsCallOK
  <2>3. QED
    BY <2>1, <2>2 DEF CallInv, CallOK
<1>3. \A h \in Handler : task[h] # Idle =>
        task[h].order \in Request /\ task[h].order # r
  BY <1>1 DEF AloneInv, TypeInv, TypeOK, Task
<1>4. AloneInv'
  BY <1>1, <1>3 DEF AloneInv
<1>5. TaskInv'
  BY <1>1, <1>3 DEF TaskInv, HeldByReservation
<1>6. FlagInv'
  <2>1. ASSUME NEW q \in Request, q # r, order[q] # NoOrder
        PROVE  \/ \E h \in Handler : /\ task[h] # Idle
                                     /\ task[h].order = q
                                     /\ task[h].release
               \/ IF order'[q].stockReleased
                  THEN HeldByReservation(q)' \subseteq back'[q]
                  ELSE back'[q] = {}
    BY <1>1, <2>1 DEF FlagInv, Placed, HeldByReservation
  <2>2. order'[r] # NoOrder =>
          ~order'[r].stockReleased /\ back'[r] = {}
    <3>1. CASE CreateOrder(r)
      BY <3>1 DEF CallInv, CreateOrder, NewOrder, TypeInv, TypeOK
    <3>2. CASE ~CreateOrder(r)
      BY <1>1, <3>2, FaultFrame
      DEF Step, FindExisting, FindNone, PriceItems, RefuseItems, ReserveLine,
          ReserveFails, CreateConflicts, CreateFails, UndoLine, FinishUndo
    <3>3. QED
      BY <3>1, <3>2
  <2>3. QED
    BY <1>1, <2>1, <2>2 DEF FlagInv, Placed
<1>7. QED
  BY <1>2, <1>4, <1>5, <1>6

-----------------------------------------------------------------------------
(* Steps of the staff, one handler at a time on an order. *)

LEMMA BeginKeepsSerialInv ==
  ASSUME SerialInv, NEW h \in Handler, NEW o \in Request,
         Free(o), BeginTask(h, o)
  PROVE  CallInv' /\ AloneInv' /\ TaskInv' /\ FlagInv'
<1> USE DEF SerialInv
<1>1. PICK op \in {"status", "details", "softDelete", "hardDelete"},
           to \in Status, release \in BOOLEAN :
        /\ Begin(h, o, op, to, release)
        /\ order[o] # NoOrder
        /\ release => ~order[o].stockReleased /\ op # "details"
  <2>1. ASSUME order[o] # NoOrder
        PROVE  order[o].status \in Status /\ StillHolding(o) \in BOOLEAN
    BY <2>1 DEF TypeInv, TypeOK, Order, StillHolding
  <2>2. CASE \E to \in Status : BeginStatus(h, o, to)
    BY <2>1, <2>2 DEF BeginStatus, Live, StillHolding
  <2>3. CASE BeginDetails(h, o)
    BY <2>1, <2>3 DEF BeginDetails, Live
  <2>4. CASE BeginSoftDelete(h, o)
    BY <2>1, <2>4 DEF BeginSoftDelete, Live, StillHolding
  <2>5. CASE BeginHardDelete(h, o)
    BY <2>1, <2>5 DEF BeginHardDelete, StillHolding
  <2>6. QED
    BY <2>2, <2>3, <2>4, <2>5 DEF BeginTask
<1>2. UNCHANGED <<stock, policy, form, pc, seen, next, reserved, pending,
                  outcome, answer, order, back>>
  BY BeginFrame
<1> DEFINE t == [op |-> op, order |-> o, to |-> to, release |-> release,
                 pending |-> IF release THEN HeldByReservation(o) ELSE {}]
<1>3. /\ task[h] = Idle
      /\ task' = [task EXCEPT ![h] = t]
      /\ t.op = op /\ t.order = o /\ t.release = release
      /\ t.pending = IF release THEN HeldByReservation(o) ELSE {}
  BY <1>1 DEF Begin
<1>4. /\ task'[h] = t
      /\ t # Idle
      /\ \A g \in Handler : g # h => task'[g] = task[g]
  <2>1. t \in Task
    BY DEF Task, HeldByReservation
  <2>2. t # Idle
    BY <2>1, Absent
  <2>3. QED
    BY <1>3, <2>2 DEF TypeInv, TypeOK
<1> HIDE DEF t
<1>5. CallInv'
  BY <1>2 DEF CallInv, HeldByReservation, Items
<1>6. AloneInv'
  BY <1>1, <1>2, <1>3, <1>4 DEF AloneInv, Free
<1>7. HeldByReservation(o)' = HeldByReservation(o)
  BY <1>2 DEF HeldByReservation
<1>8. TaskInv'
  <2>1. release => back[o] = {}
    BY <1>1 DEF FlagInv, Placed, Free
  <2>2. QED
    BY <1>1, <1>2, <1>3, <1>4, <1>7, <2>1 DEF TaskInv, HeldByReservation
<1>9. FlagInv'
  BY <1>2, <1>3, <1>4 DEF FlagInv, Placed, HeldByReservation, Free
<1>10. QED
  BY <1>5, <1>6, <1>8, <1>9

LEMMA RestockKeepsSerialInv ==
  ASSUME SerialInv, NEW h \in Handler, NEW i \in Line, RestockLine(h, i)
  PROVE  CallInv' /\ AloneInv' /\ TaskInv' /\ FlagInv'
<1> USE DEF SerialInv
<1> DEFINE o == task[h].order
<1>1. /\ task[h] # Idle /\ task[h] \in Task /\ o \in Request
      /\ i \in task[h].pending
      /\ task[h].release
      /\ order[o] # NoOrder /\ pc[o] = "done"
  BY DEF RestockLine, TypeInv, TypeOK, Task, TaskInv, AloneInv, PlacedIsDone
<1>2. /\ UNCHANGED <<form, pc, next, reserved, pending, order>>
      /\ back' = [back EXCEPT ![o] = @ \cup {i}]
      /\ task' = [task EXCEPT ![h].pending = @ \ {i}]
  BY DEF RestockLine, request
<1>3. /\ task'[h].op = task[h].op
      /\ task'[h].order = o /\ task'[h].release = task[h].release
      /\ task'[h].pending = task[h].pending \ {i}
      /\ task'[h] \in Task
      /\ \A g \in Handler : g # h => task'[g] = task[g]
  BY <1>1, <1>2 DEF TypeInv, TypeOK, Task
<1>4. task'[h] # Idle
  BY <1>3, Absent
<1>5. /\ back'[o] = back[o] \cup {i}
      /\ \A q \in Request : q # o => back'[q] = back[q]
  BY <1>1, <1>2 DEF TypeInv, TypeOK
<1> HIDE DEF o
<1>6. \A g \in Handler : g # h /\ task[g] # Idle => task[g].order # o
  BY <1>1 DEF AloneInv, o
<1>7. CallInv'
  BY <1>1, <1>2, <1>5 DEF CallInv, HeldByReservation, Items
<1>8. AloneInv'
  BY <1>1, <1>2, <1>3, <1>4, <1>6 DEF AloneInv, o
<1>9. TaskInv'
  <2>1. /\ task[h].op # "details"
        /\ ~order[o].stockReleased
        /\ task[h].pending \cap back[o] = {}
        /\ task[h].pending \subseteq HeldByReservation(o)
        /\ HeldByReservation(o) \subseteq task[h].pending \cup back[o]
    BY <1>1 DEF TaskInv, o
  <2>2. \A g \in Handler : g # h /\ task[g] # Idle =>
          task[g].order \in Request /\ task[g].order # o
    BY <1>6 DEF TypeInv, TypeOK, Task
  <2>3. QED
    BY <1>1, <1>2, <1>3, <1>5, <2>1, <2>2 DEF TaskInv, HeldByReservation
<1>10. FlagInv'
  <2>1. \A q \in Request : q # o /\ order[q] # NoOrder =>
          \/ \E g \in Handler : /\ task'[g] # Idle
                               /\ task'[g].order = q
                               /\ task'[g].release
          \/ IF order[q].stockReleased THEN HeldByReservation(q) \subseteq back[q]
                                       ELSE back[q] = {}
    BY <1>1, <1>3 DEF FlagInv, Placed, o
  <2>2. QED
    BY <1>1, <1>2, <1>3, <1>4, <1>5, <2>1
    DEF FlagInv, Placed, HeldByReservation
<1>11. QED
  BY <1>7, <1>8, <1>9, <1>10

(* A save that ends a release sets the flag, unless it removes the order;  *)
(* a save that ends anything else leaves the flag as it was.               *)
LEMMA SaveKeepsSerialInv ==
  ASSUME SerialInv, NEW h \in Handler, NEW op, NEW doc, Save(h, op, doc),
         doc # NoOrder =>
           doc.stockReleased = (\/ order[task[h].order].stockReleased
                                \/ task[h].release)
  PROVE  CallInv' /\ AloneInv' /\ TaskInv' /\ FlagInv'
<1> USE DEF SerialInv
<1> DEFINE o == task[h].order
<1>1. /\ task[h] # Idle /\ task[h] \in Task /\ o \in Request
      /\ task[h].pending = {}
      /\ order[o] # NoOrder
  BY DEF Save, TypeInv, TypeOK, Task, AloneInv
<1>2. /\ UNCHANGED <<form, pc, next, reserved, pending, back>>
      /\ order' = [order EXCEPT ![o] = doc]
      /\ task' = [task EXCEPT ![h] = Idle]
  BY DEF Save, request
<1>3. /\ task'[h] = Idle
      /\ \A g \in Handler : g # h => task'[g] = task[g]
      /\ order'[o] = doc
      /\ \A q \in Request : q # o => order'[q] = order[q]
  BY <1>1, <1>2 DEF TypeInv, TypeOK
<1>4. \A g \in Handler : g # h /\ task[g] # Idle =>
        task[g].order \in Request /\ task[g].order # o
  BY <1>1 DEF AloneInv, TypeInv, TypeOK, Task
<1>5. CallInv'
  BY <1>2 DEF CallInv, HeldByReservation, Items
<1>6. AloneInv'
  BY <1>2, <1>3, <1>4 DEF AloneInv
<1>7. TaskInv'
  BY <1>2, <1>3, <1>4 DEF TaskInv, HeldByReservation
<1>8. FlagInv'
  <2>1. order'[o] # NoOrder =>
          IF order'[o].stockReleased THEN HeldByReservation(o) \subseteq back[o]
                                     ELSE back[o] = {}
    <3>1. CASE task[h].release
      BY <1>1, <1>3, <3>1 DEF TaskInv
    <3>2. CASE ~task[h].release
      <4>1. \A g \in Handler : task[g] # Idle /\ task[g].order = o =>
              ~task[g].release
        BY <1>4, <3>2
      <4>2. IF order[o].stockReleased THEN HeldByReservation(o) \subseteq back[o]
                                      ELSE back[o] = {}
        BY <1>1, <4>1 DEF FlagInv, Placed
      <4>3. order[o].stockReleased \in BOOLEAN
        BY <1>1 DEF TypeInv, TypeOK, Order
      <4>4. QED
        BY <1>3, <3>2, <4>2, <4>3
    <3>3. QED
      BY <3>1, <3>2
  <2>2. \A q \in Request : q # o /\ order[q] # NoOrder =>
          \/ \E g \in Handler : /\ task'[g] # Idle
                               /\ task'[g].order = q
                               /\ task'[g].release
          \/ IF order[q].stockReleased THEN HeldByReservation(q) \subseteq back[q]
                                       ELSE back[q] = {}
    BY <1>3 DEF FlagInv, Placed
  <2>3. QED
    BY <1>2, <1>3, <2>1, <2>2 DEF FlagInv, Placed, HeldByReservation
<1>9. QED
  BY <1>5, <1>6, <1>7, <1>8

LEMMA WorkKeepsSerialInv ==
  ASSUME SerialInv, NEW h \in Handler, WorkTask(h)
  PROVE  CallInv' /\ AloneInv' /\ TaskInv' /\ FlagInv'
<1> USE DEF SerialInv
<1>1. ASSUME NEW i \in Line, RestockLine(h, i)
      PROVE  CallInv' /\ AloneInv' /\ TaskInv' /\ FlagInv'
  BY <1>1, RestockKeepsSerialInv
<1>2. ASSUME Exists(h)
      PROVE  /\ task[h] \in Task
             /\ order[task[h].order] \in Order
  BY <1>2 DEF Exists, TypeInv, TypeOK, Task
<1>3. CASE SaveStatus(h)
  <2>1. StatusSaved(order[task[h].order], task[h]).stockReleased
          = (order[task[h].order].stockReleased \/ task[h].release)
    BY <1>2, <1>3 DEF SaveStatus, StatusSaved, Order
  <2>2. QED
    BY <1>3, <2>1, SaveKeepsSerialInv DEF SaveStatus
<1>4. CASE SaveSoftDelete(h)
  <2>1. SoftDeleted(order[task[h].order], task[h]).stockReleased
          = (order[task[h].order].stockReleased \/ task[h].release)
    BY <1>2, <1>4 DEF SaveSoftDelete, SoftDeleted, Order
  <2>2. QED
    BY <1>4, <2>1, SaveKeepsSerialInv DEF SaveSoftDelete
<1>5. CASE SaveDetails(h)
  <2>1. ~task[h].release
    BY <1>5 DEF SaveDetails, Save, TaskInv
  <2>2. [order[task[h].order] EXCEPT !.corrected = TRUE].stockReleased
          = (order[task[h].order].stockReleased \/ task[h].release)
    BY <1>2, <1>5, <2>1 DEF SaveDetails, Order
  <2>3. QED
    BY <1>5, <2>2, SaveKeepsSerialInv DEF SaveDetails
<1>6. CASE SaveHardDelete(h)
  BY <1>6, SaveKeepsSerialInv DEF SaveHardDelete
<1>7. CASE SaveFindsNothing(h)
  BY <1>7 DEF SaveFindsNothing, AloneInv
<1>8. QED
  BY <1>1, <1>3, <1>4, <1>5, <1>6, <1>7 DEF WorkTask

-----------------------------------------------------------------------------
(* The invariant, and the flag. *)

LEMMA InitSerialInv == Init => SerialInv
<1> SUFFICES ASSUME Init PROVE SerialInv
  OBVIOUS
<1>1. TypeInv
  BY InitTypes
<1>2. PlacedIsDone /\ PolicyOK /\ SeenOK
  BY OrdersAssumption DEF Init, PlacedIsDone, PolicyOK, SeenOK
<1>3. \A r \in Request : HeldByReservation(r) = {} /\ back[r] = {}
  BY DEF Init, HeldByReservation
<1>4. CallInv
  BY <1>3 DEF Init, CallInv
<1>5. AloneInv /\ TaskInv /\ FlagInv
  BY DEF Init, AloneInv, TaskInv, FlagInv, Placed
<1>6. QED
  BY <1>1, <1>2, <1>4, <1>5 DEF SerialInv

LEMMA SerialStep ==
  ASSUME SerialInv, [SerialNext]_vars
  PROVE  SerialInv'
<1>1. [Next]_vars
  BY DEF SerialNext, Next
<1>2. TypeInv' /\ PlacedIsDone' /\ PolicyOK' /\ SeenOK'
  BY <1>1, TypeStep, PlacedIsDoneStep, SeenStep DEF SerialInv
<1> SUFFICES CallInv' /\ AloneInv' /\ TaskInv' /\ FlagInv'
  BY <1>2 DEF SerialInv
<1>3. CASE Placement
  BY <1>3, PlacementKeepsSerialInv DEF Placement
<1>4. CASE Work
  BY <1>4, WorkKeepsSerialInv DEF Work
<1>5. CASE \E h \in Handler, o \in Request : Free(o) /\ BeginTask(h, o)
  BY <1>5, BeginKeepsSerialInv
<1>6. CASE UNCHANGED <<form, pc, next, reserved, pending, back, order, task>>
  BY <1>6
  DEF SerialInv, CallInv, AloneInv, TaskInv, FlagInv, Placed,
      HeldByReservation, Items
<1>7. CASE Catalog
  BY <1>6, <1>7 DEF Catalog, SetPolicy, request
<1>8. CASE UNCHANGED vars
  BY <1>6, <1>8 DEF vars, request
<1>9. QED
  BY <1>3, <1>4, <1>5, <1>7, <1>8 DEF SerialNext

LEMMA SerialInvariant == SerialSpec => []SerialInv
  BY InitSerialInv, SerialStep, PTL DEF SerialSpec

(* With staff working on an order one at a time, stockReleased can be      *)
(* trusted: an order nobody works on has all its units back if the flag is *)
(* set, and none if it is not.                                             *)
THEOREM SerialFlagIsTruthful == SerialSpec => []ReleasedFlagIsTruthful
<1>1. SerialInv => ReleasedFlagIsTruthful
  <2> SUFFICES ASSUME SerialInv, NEW r \in Placed, Free(r)
               PROVE  IF order[r].stockReleased
                      THEN \A i \in Line : UnitsOut(r, i) = 0
                      ELSE back[r] = {}
    BY DEF ReleasedFlagIsTruthful
  <2>1. IF order[r].stockReleased THEN HeldByReservation(r) \subseteq back[r]
                                  ELSE back[r] = {}
    BY DEF SerialInv, FlagInv, Free
  <2>2. \A i \in Line : reserved[r][i] \in Nat
    BY OrdersAssumption
    DEF SerialInv, TypeInv, TypeOK, Placed, Quantity
  <2>3. \A i \in Line : reserved[r][i] > 0 \/ reserved[r][i] = 0
    BY <2>2
  <2>4. QED
    BY <2>1, <2>3 DEF HeldByReservation, UnitsOut
<1>2. QED
  BY <1>1, SerialInvariant, PTL

-----------------------------------------------------------------------------
(* The refinement. *)

(* What the refinement mapping says of one claim. *)
LEMMA HeldByLine ==
  ASSUME NEW r \in Request, NEW i \in Line, NEW s \in Sku
  PROVE  HeldByLines[<<r, i>>][s] =
           IF i <= Len(Items(r)) /\ Items(r)[i].sku = s
           THEN UnitsOut(r, i) ELSE 0
  BY DEF HeldByLines

LEMMA HeldByLinesType ==
  ASSUME TypeOK
  PROVE  HeldByLines \in [Request \X Line -> [Sku -> Quantity]]
<1>1. \A r \in Request, i \in Line : UnitsOut(r, i) \in Quantity
  BY OrdersAssumption DEF TypeOK, UnitsOut, Quantity
<1>2. 0 \in Quantity
  BY OrdersAssumption DEF Quantity
<1>3. \A c \in Request \X Line : c[1] \in Request /\ c[2] \in Line
  OBVIOUS
<1>4. QED
  BY <1>1, <1>2, <1>3 DEF HeldByLines

(* A step that changes what one line keeps out changes one entry of the    *)
(* mapping.                                                                *)
LEMMA HeldByLinesMoved ==
  ASSUME TypeOK, NEW r \in Request, NEW i \in Line, i <= Len(Items(r)),
         NEW n, form' = form, UnitsOut(r, i)' = n,
         \A q \in Request, j \in Line :
           q # r \/ j # i => UnitsOut(q, j)' = UnitsOut(q, j)
  PROVE  HeldByLines' =
           [HeldByLines EXCEPT ![<<r, i>>][Items(r)[i].sku] = n]
<1> DEFINE x == Items(r)[i].sku
           new == [HeldByLines EXCEPT ![<<r, i>>][x] = n]
<1>1. /\ new = [c \in Request \X Line |-> new[c]]
      /\ HeldByLines' = [c \in Request \X Line |-> HeldByLines'[c]]
  BY DEF HeldByLines
<1>2. ASSUME NEW q \in Request, NEW j \in Line
      PROVE  HeldByLines'[<<q, j>>] = new[<<q, j>>]
  <2>1. HeldByLines'[<<q, j>>] =
          [s \in Sku |-> IF j <= Len(Items(q)) /\ Items(q)[j].sku = s
                         THEN UnitsOut(q, j)' ELSE 0]
    BY DEF HeldByLines, Items
  <2>2. HeldByLines[<<q, j>>] =
          [s \in Sku |-> IF j <= Len(Items(q)) /\ Items(q)[j].sku = s
                         THEN UnitsOut(q, j) ELSE 0]
    BY DEF HeldByLines
  <2>3. CASE q # r \/ j # i
    <3>1. new[<<q, j>>] = HeldByLines[<<q, j>>]
      BY <2>3 DEF HeldByLines
    <3>2. QED
      BY <2>1, <2>2, <2>3, <3>1
  <2>4. CASE q = r /\ j = i
    <3>1. new[<<r, i>>] = [HeldByLines[<<r, i>>] EXCEPT ![x] = n]
      BY DEF HeldByLines
    <3>2. [HeldByLines[<<r, i>>] EXCEPT ![x] = n]
            = [s \in Sku |-> IF x = s THEN n ELSE 0]
      BY <2>2, <2>4
    <3>3. QED
      BY <2>1, <2>4, <3>1, <3>2
  <2>5. QED
    BY <2>3, <2>4
<1>3. QED
  BY <1>1, <1>2

(* Reserving a line takes its units from the shelf, if there are any to    *)
(* take.                                                                   *)
LEMMA ReserveIsTake ==
  ASSUME SerialInv, NEW r \in Request, ReserveLine(r)
  PROVE  Ledger!Next \/ UNCHANGED Ledger!vars
<1>0. PICK i, x, n : i = next[r] /\ x = Items(r)[i].sku /\ n = Taken(r)
  OBVIOUS
<1>1. /\ i \in 1..Len(Items(r)) /\ i \in Line
      /\ x \in Sku /\ Items(r)[i].quantity \in 1..MaxQuantity
      /\ n \in Quantity /\ Recorded(r) = n
  BY <1>0, CursorInRange DEF SerialInv, ReserveLine
<1>2. i \in Int /\ Len(Items(r)) \in Int /\ i <= Len(Items(r))
  BY <1>1
<1>3. /\ stock' = [stock EXCEPT ![x] = @ - n]
      /\ reserved' = [reserved EXCEPT ![r][i] = n]
      /\ form' = form /\ back' = back
      /\ back[r] = {}
  BY <1>0, <1>1 DEF ReserveLine, SerialInv, CallInv
<1>4. UnitsOut(r, i) = 0
  <2>1. i \notin HeldByReservation(r)
    BY <1>0, <1>2 DEF SerialInv, CallInv, ReserveLine
  <2>2. reserved[r][i] \in Nat
    BY <1>1, OrdersAssumption DEF SerialInv, TypeInv, TypeOK, Quantity
  <2>3. QED
    BY <1>1, <1>3, <2>1, <2>2 DEF HeldByReservation, UnitsOut
<1>5. HeldByLines[<<r, i>>][x] = 0
  BY <1>0, <1>1, <1>4, HeldByLine
<1>6. HeldByLines' = [HeldByLines EXCEPT ![<<r, i>>][x] = n]
  <2>1. UnitsOut(r, i)' = n
    BY <1>1, <1>3 DEF SerialInv, TypeInv, TypeOK, UnitsOut
  <2>2. \A q \in Request, j \in Line :
          q # r \/ j # i => UnitsOut(q, j)' = UnitsOut(q, j)
    BY <1>1, <1>3 DEF SerialInv, TypeInv, TypeOK, UnitsOut
  <2>3. QED
    BY <1>0, <1>1, <1>2, <1>3, <2>1, <2>2, HeldByLinesMoved
    DEF SerialInv, TypeInv
<1>7. n # 0 => x \in Backorderable \/ n <= stock[x]
  <2>1. seen[r][i] \in Policy /\ stock[x] \in Int
    BY <1>1 DEF SerialInv, TypeInv, TypeOK
  <2>2. /\ seen[r][i] # "offSale"
        /\ seen[r][i] = "backorder" => x \in Backorderable
    BY <1>0, <1>1 DEF SerialInv, SeenOK, ReserveLine
  <2>3. CASE seen[r][i] = "counted"
    <3>1. n = Items(r)[i].quantity /\ stock[x] >= Items(r)[i].quantity
      BY <1>0, <2>3 DEF Taken, ReserveLine, GuardHolds
    <3>2. QED
      BY <1>1, <2>1, <3>1, OrdersAssumption
  <2>4. QED
    BY <1>0, <2>1, <2>2, <2>3 DEF Policy, Taken
<1>8. CASE n = 0
  <2>1. stock' = stock
    BY <1>1, <1>3, <1>8 DEF SerialInv, TypeInv, TypeOK
  <2>2. HeldByLines' = HeldByLines
    <3>1. HeldByLines \in [Request \X Line -> [Sku -> Quantity]]
      BY HeldByLinesType DEF SerialInv, TypeInv
    <3>2. QED
      BY <1>1, <1>5, <1>6, <1>8, <3>1
  <2>3. QED
    BY <2>1, <2>2 DEF Ledger!vars
<1>9. CASE n # 0
  <2>1. n \in 1..MaxQuantity
    BY <1>1, <1>9, OrdersAssumption DEF Quantity
  <2>2. Ledger!Take(<<r, i>>, x, n)
    BY <1>3, <1>5, <1>6, <1>7, <1>9, <2>1 DEF Ledger!Take
  <2>3. <<r, i>> \in Request \X Line
    BY <1>1
  <2>4. QED
    BY <1>1, <2>1, <2>2, <2>3 DEF Ledger!Next
<1>10. QED
  BY <1>8, <1>9

(* Putting a line back, by the call that reserved it or by a handler that  *)
(* ends its order, returns exactly what the line keeps out.                *)
LEMMA ReturnIsPutBack ==
  ASSUME SerialInv, NEW r \in Request, NEW i \in Line,
         i \in HeldByReservation(r), i \notin back[r],
         stock' = [stock EXCEPT ![Items(r)[i].sku] = @ + reserved[r][i]],
         back' = [back EXCEPT ![r] = @ \cup {i}],
         UNCHANGED <<form, reserved>>
  PROVE  Ledger!Next
<1> DEFINE x == Items(r)[i].sku
<1>1. i \in 1..Len(Items(r)) /\ x \in Sku /\ i <= Len(Items(r))
  <2>1. i \in 1..Len(Items(r))
    BY DEF SerialInv, CallInv
  <2>2. Len(Items(r)) \in Int
    BY ItemsType DEF SerialInv, TypeInv, Line
  <2>3. QED
    BY <2>1, <2>2, ItemsType DEF SerialInv, TypeInv
<1>2. /\ UnitsOut(r, i) = reserved[r][i]
      /\ reserved[r][i] \in Nat /\ reserved[r][i] # 0
  BY OrdersAssumption
  DEF UnitsOut, HeldByReservation, SerialInv, TypeInv, TypeOK, Quantity
<1>3. HeldByLines[<<r, i>>][x] = reserved[r][i]
  BY <1>1, <1>2, HeldByLine
<1>4. HeldByLines' = [HeldByLines EXCEPT ![<<r, i>>][x] = 0]
  <2>1. UnitsOut(r, i)' = 0
    BY DEF SerialInv, TypeInv, TypeOK, UnitsOut
  <2>2. \A q \in Request, j \in Line :
          q # r \/ j # i => UnitsOut(q, j)' = UnitsOut(q, j)
    BY DEF SerialInv, TypeInv, TypeOK, UnitsOut
  <2>3. QED
    BY <1>1, <2>1, <2>2, HeldByLinesMoved DEF SerialInv, TypeInv
<1> HIDE DEF x
<1>5. Ledger!PutBack(<<r, i>>, x)
  BY <1>2, <1>3, <1>4 DEF Ledger!PutBack, x
<1>6. <<r, i>> \in Request \X Line
  OBVIOUS
<1>7. QED
  BY <1>1, <1>5, <1>6 DEF Ledger!Next

LEMMA HeldByLinesUnchanged ==
  ASSUME UNCHANGED <<stock, form, reserved, back>>
  PROVE  UNCHANGED Ledger!vars
  BY DEF Ledger!vars, HeldByLines, UnitsOut, Items

LEMMA StepImplements ==
  ASSUME SerialInv, [SerialNext]_vars
  PROVE  [Ledger!Next]_(Ledger!vars)
<1>1. ASSUME NEW r \in Request, ReserveLine(r)
      PROVE  [Ledger!Next]_(Ledger!vars)
  BY <1>1, ReserveIsTake
<1>2. ASSUME NEW r \in Request, NEW i \in Line, UndoLine(r, i)
      PROVE  Ledger!Next
  <2>1. i \in HeldByReservation(r) /\ i \notin back[r]
    BY <1>2 DEF SerialInv, CallInv, UndoLine
  <2>2. QED
    BY <1>2, <2>1, ReturnIsPutBack DEF UndoLine
<1>3. ASSUME NEW h \in Handler, NEW i \in Line, RestockLine(h, i)
      PROVE  Ledger!Next
  <2> DEFINE o == task[h].order
  <2>1. /\ o \in Request
        /\ i \in HeldByReservation(o) /\ i \notin back[o]
    BY <1>3 DEF SerialInv, TaskInv, TypeInv, TypeOK, Task, RestockLine
  <2>2. QED
    BY <1>3, <2>1, ReturnIsPutBack DEF RestockLine, request
<1>4. CASE UNCHANGED <<stock, form, reserved, back>>
  BY <1>4, HeldByLinesUnchanged
<1>5. ASSUME NEW r \in Request, Step(r)
      PROVE  [Ledger!Next]_(Ledger!vars)
  BY <1>1, <1>2, <1>4, <1>5
  DEF Step, FindExisting, FindNone, PriceItems, RefuseItems, ReserveFails,
      CreateOrder, CreateConflicts, CreateFails, FinishUndo
<1>6. ASSUME NEW r \in Request, Fault(r)
      PROVE  [Ledger!Next]_(Ledger!vars)
  BY <1>4, <1>6, FaultFrame
<1>7. CASE Work
  BY <1>3, <1>4, <1>7
  DEF Work, WorkTask, SaveStatus, SaveDetails, SaveSoftDelete,
      SaveHardDelete, SaveFindsNothing, Save, request
<1>8. CASE \E h \in Handler, o \in Request : BeginTask(h, o)
  BY <1>4, <1>8, BeginFrame
<1>9. CASE Catalog
  BY <1>4, <1>9, CatalogFrame
<1>10. CASE UNCHANGED vars
  BY <1>4, <1>10 DEF vars, request
<1>11. QED
  BY <1>5, <1>6, <1>7, <1>8, <1>9, <1>10 DEF SerialNext, Placement

LEMMA InitImplements == Init => Ledger!Init
<1> SUFFICES ASSUME Init PROVE Ledger!Init
  OBVIOUS
<1>1. \A r \in Request, i \in Line : UnitsOut(r, i) = 0
  BY DEF Init, UnitsOut
<1>2. \A c \in Request \X Line : c[1] \in Request /\ c[2] \in Line
  OBVIOUS
<1>3. HeldByLines = [c \in Request \X Line |-> [s \in Sku |-> 0]]
  BY <1>1, <1>2 DEF HeldByLines
<1>4. stock = InitialStock
  BY DEF Init
<1>5. QED
  BY <1>3, <1>4 DEF Ledger!Init

(* Placing, compensating, cancelling, returning and deleting orders moves  *)
(* units between the shelf and the lines exactly as the ledger allows,     *)
(* for any number of concurrent calls, crashes of calls and catalog edits, *)
(* as long as no two staff handlers work on one order at a time.           *)
THEOREM SerialImplementsLedger == SerialSpec => ImplementsLedger
<1>1. SerialSpec => []SerialInv /\ Init /\ [][SerialNext]_vars
  BY SerialInvariant, PTL DEF SerialSpec
<1>2. []SerialInv /\ Init /\ [][SerialNext]_vars
        => Ledger!Init /\ [][Ledger!Next]_(Ledger!vars)
  BY InitImplements, StepImplements, PTL
<1>3. QED
  BY <1>1, <1>2, PTL DEF ImplementsLedger, Ledger!Spec

(* The theorems of the ledger, read through the refinement mapping. *)
Books == INSTANCE StockLedgerProofs
           WITH Claim <- Request \X Line, shelf <- stock, held <- HeldByLines

(* For every SKU the count and the units held by orders, by calls in       *)
(* progress and by crashed calls add up to the initial count.              *)
THEOREM SerialConserves == SerialSpec => []StockIsConserved
<1>1. Books!LedgerConstants
  <2>1. IsFiniteSet(Request \X Line)
    <3>1. MaxItems \in Int
      BY OrdersAssumption
    <3>2. IsFiniteSet(Line)
      BY <3>1, FS_Interval DEF Line
    <3>3. QED
      BY <3>2, OrdersAssumption, FS_Product
  <2>2. Books!IsFiniteSet(Request \X Line)
    BY <2>1 DEF IsFiniteSet, Books!IsFiniteSet
  <2>3. QED
    BY <2>2, OrdersAssumption DEF Books!LedgerConstants
<1>2. Books!Spec => []Books!Conservation
  BY <1>1, Books!LedgerConserves
<1>3. Ledger!Spec <=> Books!Spec
  <2>1. Ledger!Init <=> Books!Init
    BY DEF Ledger!Init, Books!Init
  <2>2. [Ledger!Next]_(Ledger!vars) <=> [Books!Next]_(Books!vars)
    BY DEF Ledger!Next, Ledger!vars, Ledger!Take, Ledger!PutBack,
           Books!Next, Books!vars, Books!Take, Books!PutBack
  <2>3. QED
    BY <2>1, <2>2, PTL DEF Ledger!Spec, Books!Spec
<1>4. Books!Conservation <=> StockIsConserved
  <2>1. \A S : Books!Cardinality(S) = Ledger!Cardinality(S)
    BY DEF Ledger!Cardinality, Books!Cardinality
  <2>2. QED
    BY <2>1 DEF Books!Conservation, Books!HeldUnits, StockIsConserved,
         Ledger!Conservation, Ledger!HeldUnits
<1>5. QED
  BY <1>2, <1>3, <1>4, SerialImplementsLedger, PTL DEF ImplementsLedger

=============================================================================
