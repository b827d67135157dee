--------------------------------- MODULE Cart ---------------------------------
(***************************************************************************)
(* One shopper's cart: modules/cart/cart.service.js and cart.model.js, and *)
(* the emptying of ordered lines by modules/order/order.service.js.        *)
(*                                                                         *)
(* The cart is one document.  Adding and updating read it, change the copy *)
(* and save it; the schema's optimistic concurrency makes the save compare *)
(* and advance the document's version, and withCartWrite retries a save    *)
(* that lost.  Removing, clearing and the checkout write the document      *)
(* directly and leave its version alone.  A save writes what changed and   *)
(* not the whole copy: a push appends, a changed quantity is written at    *)
(* the line's position, and only a removal, or both at once, replaces the  *)
(* array.                                                                  *)
(*                                                                         *)
(* Prices, names and what the calls answer are left out: a raised line     *)
(* whose quantity was at its ceiling counts as unmodified, although its    *)
(* priceAtAdd may be written anew.                                         *)
(***************************************************************************)
EXTENDS Integers, Sequences, FiniteSets, Subsequences

CONSTANTS
  Sku,            \* what a line may name: a product and its variant
  Call,           \* requests on this cart
  Earlier,        \* the author of lines that were in the cart before
  NoSku,          \* the sku of an array element that is no line
  Form,           \* the request bodies that occur
  InitialCart,    \* the carts there may be at the start
  InitialLimit,   \* ceilingFor of each SKU at the start
  MaxPerLine,     \* CART.MAX_QUANTITY_PER_LINE
  MaxLines,       \* CART.MAX_LINES
  MaxAttempts,    \* the attempts of withCartWrite
  MaxEdits        \* bound: changes of availability in a behaviour

(* A line's _id: the call that pushed it and what it names.  A call pushes *)
(* a SKU at most once, so the pair is as unique as an ObjectId.            *)
Id == [by : Call \cup {Earlier}, sku : Sku]

Line == [id : Id, quantity : 1..MaxPerLine]

(* An array element a positional write made out of nothing: the schema     *)
(* requires a product and it names none.                                   *)
Stray(q) == [id |-> [by |-> Earlier, sku |-> NoSku], quantity |-> q]

(* What MongoDB pads an array with: null.  Its quantity is read by nothing. *)
Hole == Stray(0)

Element == Line \cup {Stray(q) : q \in 0..MaxPerLine}

Carts == Seq(Element)

(* Bodies after validation and groupRequested: the SKUs of an addItems     *)
(* batch are distinct, in the order they first appear, with their summed   *)
(* quantities; an updateItems body names a line at most once, and quantity *)
(* zero removes it; "ordered" is the order the checkout just placed.       *)
Body ==
       [op : {"add"}, skus : Seq(Sku), quantity : [Sku -> Nat]]
  \cup [op : {"update"}, ids : SUBSET Id, quantity : [Id -> 0..MaxPerLine]]
  \cup [op : {"remove"}, ids : SUBSET Id]
  \cup [op : {"clear"}]
  \cup [op : {"ordered"}, skus : SUBSET Sku]

ASSUME CartAssumption ==
  /\ NoSku \notin Sku /\ Earlier \notin Call
  /\ MaxPerLine \in Nat /\ MaxLines \in Nat /\ MaxEdits \in Nat
  /\ MaxAttempts \in Nat \ {0}
  /\ InitialLimit \in [Sku -> 0..MaxPerLine]
  /\ \A cart \in InitialCart :
       /\ cart \in Seq(Line) /\ Len(cart) <= MaxLines
       /\ \A i, j \in DOMAIN cart : cart[i].id.sku = cart[j].id.sku => i = j
  /\ Form \subseteq Body
  /\ \A f \in Form : f.op = "add" =>
       /\ \A i, j \in DOMAIN f.skus : f.skus[i] = f.skus[j] => i = j
       /\ \A s \in Sku : f.quantity[s] > 0 <=> \E i \in DOMAIN f.skus : f.skus[i] = s

VARIABLES
  items,        \* the document's items
  version,      \* the document's __v
  limit,        \* ceilingFor(available) of each SKU now; 0: not to be sold
  form,         \* the body of each call, chosen in Init, never changed
  pc,           \* the next step of each call
  attempt,      \* attempts of withCartWrite begun
  copy,         \* the items each call read
  copyVersion,  \* the __v each call read
  ceiling,      \* the limits each call read
  outcome,      \* how each call ended
  overtaken,    \* history: the items were withdrawn from since the call read
  edits         \* how much of MaxEdits is used

doc == <<items, version>>
call == <<pc, attempt, copy, copyVersion, ceiling, outcome>>
catalog == <<limit, edits>>
vars == <<doc, catalog, form, call, overtaken>>

Limits == [Sku -> 0..MaxPerLine]

TypeOK ==
  /\ items \in Carts
  /\ version \in Nat
  /\ limit \in Limits
  /\ form \in [Call -> Form]
  /\ pc \in [Call -> {"check", "open", "limits", "save", "pull", "done"}]
  /\ attempt \in [Call -> 0..MaxAttempts]
  /\ copy \in [Call -> Carts]
  /\ copyVersion \in [Call -> Nat]
  /\ ceiling \in [Call -> Limits]
  /\ outcome \in [Call -> {"none", "done", "refused", "unknown", "full",
                           "conflict", "failed"}]
  /\ overtaken \in [Call -> BOOLEAN]
  /\ edits \in 0..MaxEdits

Start(f) ==
  CASE f.op = "add" -> "check"
    [] f.op = "update" -> "open"
    [] f.op = "remove" -> "check"
    [] f.op \in {"clear", "ordered"} -> "pull"

Init ==
  /\ items \in InitialCart
  /\ version = 0
  /\ limit = InitialLimit
  /\ form \in [Call -> Form]
  /\ pc = [c \in Call |-> Start(form[c])]
  /\ attempt = [c \in Call |-> 0]
  /\ copy = [c \in Call |-> <<>>]
  /\ copyVersion = [c \in Call |-> 0]
  /\ ceiling = [c \in Call |-> InitialLimit]
  /\ outcome = [c \in Call |-> "none"]
  /\ overtaken = [c \in Call |-> FALSE]
  /\ edits = 0

At(c, op, step) == form[c].op = op /\ pc[c] = step

(* A call ends, by an answer or by an error. *)
End(c, how) ==
  /\ pc' = [pc EXCEPT ![c] = "done"]
  /\ outcome' = [outcome EXCEPT ![c] = how]

Continue(c, step) ==
  /\ pc' = [pc EXCEPT ![c] = step]
  /\ UNCHANGED outcome

-----------------------------------------------------------------------------
(* What a call makes of the lines it read.                                 *)

Ids(lines) == {lines[i].id : i \in DOMAIN lines}

Skus(lines) == {lines[i].id.sku : i \in DOMAIN lines}

(* Mutant: the quantity asked for is not capped. *)
Uncapped(asked, most) == asked

(* Math.min(desired, ceiling). *)
AtMost(asked, most) == IF asked <= most THEN asked ELSE most

(* addItems on a line it asks more of. *)
Raised(c, line) ==
  LET s == line.id.sku
  IN  [line EXCEPT !.quantity =
         AtMost(@ + form[c].quantity[s], ceiling[c][s])]

(* The lines addItems pushes, in the order of the batch. *)
Added(c, lines) ==
  LET skus == form[c].skus
      new == Picked(skus, {i \in DOMAIN skus : skus[i] \notin Skus(lines)})
  IN  [i \in DOMAIN new |->
         [id |-> [by |-> c, sku |-> new[i]],
          quantity |-> AtMost(form[c].quantity[new[i]], ceiling[c][new[i]])]]

(* updateItems on a line: a sold-out line keeps the quantity asked for.    *)
Changed(c, line) ==
  LET asked == form[c].quantity[line.id]
      most == ceiling[c][line.id.sku]
  IN  [line EXCEPT !.quantity = IF most > 0 THEN AtMost(asked, most) ELSE asked]

Removals(c) ==
  IF form[c].op = "update"
  THEN {id \in form[c].ids : form[c].quantity[id] = 0}
  ELSE {}

(* Whether the call assigns a quantity to the line. *)
Names(c, line) ==
  IF form[c].op = "add"
  THEN line.id.sku \in Sku /\ form[c].quantity[line.id.sku] > 0
  ELSE line.id \in form[c].ids \ Removals(c)

(* The lines with the quantities the call assigns, none removed or added. *)
Assigned(c, lines) ==
  [i \in DOMAIN lines |->
     IF ~Names(c, lines[i]) THEN lines[i]
     ELSE IF form[c].op = "add" THEN Raised(c, lines[i])
     ELSE Changed(c, lines[i])]

Without(lines, gone) ==
  Picked(lines, {i \in DOMAIN lines : lines[i].id \notin gone})

Push(c, lines) == IF form[c].op = "add" THEN Added(c, lines) ELSE <<>>

(* The whole effect of an addItems or updateItems call on some lines. *)
Result(c, lines) ==
  IF Removals(c) = {} THEN Assigned(c, lines) \o Push(c, lines)
  ELSE Without(Assigned(c, lines), Removals(c))

(* The positions whose quantity is modified in the copy. *)
Modified(c) == {i \in DOMAIN copy[c] : Assigned(c, copy[c])[i] # copy[c][i]}

-----------------------------------------------------------------------------
(* addItems reads the catalog once, before its first attempt.  A limit of  *)
(* zero stands for every reason for which checkSelection refuses.          *)

Refusable(c) == \E i \in DOMAIN form[c].skus : limit[form[c].skus[i]] = 0

CheckItems(c) ==
  /\ At(c, "add", "check")
  /\ ~Refusable(c)
  /\ ceiling' = [ceiling EXCEPT ![c] = limit]
  /\ Continue(c, "open")
  /\ UNCHANGED <<doc, catalog, form, attempt, copy, copyVersion, overtaken>>

RefuseItems(c) ==
  /\ At(c, "add", "check")
  /\ Refusable(c)
  /\ End(c, "refused")
  /\ UNCHANGED <<doc, catalog, form, attempt, copy, copyVersion, ceiling,
                 overtaken>>

(* openCart: an attempt reads the document.  A cart that is not there yet  *)
(* is created empty by the upsert, which nobody can tell from an empty one. *)
Open(c) ==
  /\ pc[c] = "open"
  /\ attempt' = [attempt EXCEPT ![c] = @ + 1]
  /\ copy' = [copy EXCEPT ![c] = items]
  /\ copyVersion' = [copyVersion EXCEPT ![c] = version]
  /\ overtaken' = [overtaken EXCEPT ![c] = FALSE]
  /\ UNCHANGED <<doc, catalog, form, ceiling>>

(* Reading a null element throws, and a line without its required product  *)
(* fails the validation that precedes every save.                          *)
Damaged == \E i \in DOMAIN items : items[i].id.sku = NoSku

(* The itemIds that are not in the cart. *)
Unknown(c) == form[c].op = "update" /\ ~(form[c].ids \subseteq Ids(items))

(* Mutant: the limit is tested before the batch is pushed. *)
AlreadyOver(c) == form[c].op = "add" /\ Len(items) > MaxLines

(* cart.items.length > MAX_LINES after the batch was pushed to the copy. *)
Overfull(c) ==
  /\ form[c].op = "add"
  /\ Len(items) + Len(Added(c, items)) > MaxLines

OpenCart(c) ==
  /\ Open(c)
  /\ ~Damaged /\ ~Unknown(c) /\ ~Overfull(c)
  /\ Continue(c, IF form[c].op = "update" THEN "limits" ELSE "save")

OpenFindsUnknown(c) == Open(c) /\ ~Damaged /\ Unknown(c) /\ End(c, "unknown")

OpenFindsFull(c) == Open(c) /\ ~Damaged /\ Overfull(c) /\ End(c, "full")

OpenFindsDamage(c) == Open(c) /\ Damaged /\ End(c, "failed")

(* updateItems reads the catalog in every attempt, after the cart. *)
ReadLimits(c) ==
  /\ At(c, "update", "limits")
  /\ ceiling' = [ceiling EXCEPT ![c] = limit]
  /\ Continue(c, "save")
  /\ UNCHANGED <<doc, catalog, form, attempt, copy, copyVersion, overtaken>>

-----------------------------------------------------------------------------
(* cart.save(): Mongoose derives one update from what was modified, under  *)
(* the condition that __v is still the one read, and increments __v.       *)

(* Mutant: no optimistic concurrency; a $push alone carries no condition.  *)
PushUnversioned(c) ==
  \/ copyVersion[c] = version
  \/ Modified(c) = {} /\ Push(c, copy[c]) # <<>>

(* Mutant: no version condition at all. *)
Unversioned(c) == TRUE

VersionMatches(c) == copyVersion[c] = version

Save(c, lines) ==
  /\ pc[c] = "save"
  /\ VersionMatches(c)
  /\ items' = lines
  /\ version' = version + 1
  /\ End(c, "done")
  /\ UNCHANGED <<catalog, form, attempt, copy, copyVersion, ceiling, overtaken>>

(* $set items: the array was assigned, or it was both pushed to and        *)
(* modified inside, which only a write of the whole array can express.     *)
SaveWhole(c) ==
  /\ pc[c] = "save"
  /\ Removals(c) # {} \/ (Modified(c) # {} /\ Push(c, copy[c]) # <<>>)
  /\ Save(c, Result(c, copy[c]))

(* $push items. *)
SavePush(c) ==
  /\ pc[c] = "save"
  /\ Removals(c) = {} /\ Modified(c) = {} /\ Push(c, copy[c]) # <<>>
  /\ Save(c, items \o Push(c, copy[c]))

(* $set items.<i>.quantity, at positions of the copy.  Past the end of the *)
(* array MongoDB makes an element of the one field and pads with null.     *)
AtPositions(c) ==
  LET last == CHOOSE i \in Modified(c) : \A j \in Modified(c) : j <= i
      q(i) == Assigned(c, copy[c])[i].quantity
  IN  [i \in 1..(IF last > Len(items) THEN last ELSE Len(items)) |->
         CASE i \in Modified(c) /\ i <= Len(items) ->
                [items[i] EXCEPT !.quantity = q(i)]
           [] i \in Modified(c) /\ i > Len(items) -> Stray(q(i))
           [] i \notin Modified(c) /\ i <= Len(items) -> items[i]
           [] OTHER -> Hole]

SavePositions(c) ==
  /\ pc[c] = "save"
  /\ Removals(c) = {} /\ Modified(c) # {} /\ Push(c, copy[c]) = <<>>
  /\ Save(c, AtPositions(c))

(* Nothing was modified: nothing is written. *)
SaveNothing(c) ==
  /\ pc[c] = "save"
  /\ Removals(c) = {} /\ Modified(c) = {} /\ Push(c, copy[c]) = <<>>
  /\ End(c, "done")
  /\ UNCHANGED <<doc, catalog, form, attempt, copy, copyVersion, ceiling,
                 overtaken>>

(* Mutant: the attempt about to be made is counted as made. *)
NextIsLast(c) == attempt[c] + 1 >= MaxAttempts

LastAttempt(c) == attempt[c] >= MaxAttempts

(* A VersionError: withCartWrite starts over on a fresh read. *)
SaveLost(c) ==
  /\ pc[c] = "save" /\ ~VersionMatches(c)
  /\ ~LastAttempt(c)
  /\ Continue(c, "open")
  /\ UNCHANGED <<doc, catalog, form, attempt, copy, copyVersion, ceiling,
                 overtaken>>

(* The last attempt lost too: 409 CART_CONFLICT. *)
SaveConflicts(c) ==
  /\ pc[c] = "save" /\ ~VersionMatches(c)
  /\ LastAttempt(c)
  /\ End(c, "conflict")
  /\ UNCHANGED <<doc, catalog, form, attempt, copy, copyVersion, ceiling,
                 overtaken>>

-----------------------------------------------------------------------------
(* Direct updates: one atomic operation that leaves __v alone.             *)

Withdraw(c, lines) ==
  /\ items' = lines
  /\ overtaken' = IF lines = items THEN overtaken ELSE [d \in Call |-> TRUE]
  /\ End(c, "done")
  /\ UNCHANGED <<version, catalog, form, attempt, copy, copyVersion, ceiling>>

(* removeItems first reads which of the ids are there; a null element throws. *)
Unreadable == \E i \in DOMAIN items : items[i] = Hole

FindItems(c) ==
  /\ At(c, "remove", "check")
  /\ ~Unreadable /\ form[c].ids \cap Ids(items) # {}
  /\ copy' = [copy EXCEPT ![c] = items]
  /\ Continue(c, "pull")
  /\ UNCHANGED <<doc, catalog, form, attempt, copyVersion, ceiling, overtaken>>

FindNoItems(c) ==
  /\ At(c, "remove", "check")
  /\ Unreadable \/ form[c].ids \cap Ids(items) = {}
  /\ End(c, IF Unreadable THEN "failed" ELSE "done")
  /\ UNCHANGED <<doc, catalog, form, attempt, copy, copyVersion, ceiling,
                 overtaken>>

PullItems(c) ==
  /\ At(c, "remove", "pull")
  /\ Withdraw(c, Without(items, form[c].ids \cap Ids(copy[c])))

Clear(c) ==
  /\ At(c, "clear", "pull")
  /\ Withdraw(c, <<>>)

(* clearOrderedLines, run by placeOrder for a signed-in shopper. *)
ClearOrderedLines(c) ==
  /\ At(c, "ordered", "pull")
  /\ Withdraw(c, Without(items, {id \in Ids(items) : id.sku \in form[c].skus}))

-----------------------------------------------------------------------------
(* Sales and staff change what is left of a SKU and whether it is shown. *)
SetLimit(s, n) ==
  /\ edits < MaxEdits
  /\ limit' = [limit EXCEPT ![s] = n]
  /\ edits' = edits + 1
  /\ UNCHANGED <<doc, form, call, overtaken>>

Step(c) ==
  \/ CheckItems(c) \/ RefuseItems(c)
  \/ OpenCart(c) \/ OpenFindsUnknown(c) \/ OpenFindsFull(c) \/ OpenFindsDamage(c)
  \/ ReadLimits(c)
  \/ SaveWhole(c) \/ SavePush(c) \/ SavePositions(c) \/ SaveNothing(c)
  \/ SaveLost(c) \/ SaveConflicts(c)
  \/ FindItems(c) \/ FindNoItems(c) \/ PullItems(c)
  \/ Clear(c) \/ ClearOrderedLines(c)

Next ==
  \/ \E c \in Call : Step(c)
  \/ \E s \in Sku, n \in 0..MaxPerLine : SetLimit(s, n)

Spec == Init /\ [][Next]_vars

-----------------------------------------------------------------------------
(* However calls interleave, no two lines name one product and variant:    *)
(* adding merges into the line that is there (lineKey, addItems).  Every   *)
(* copy is older than the write it leads to, and only the version check    *)
(* and the fact that direct updates never add a line keep two pushes apart. *)
LinesDistinct ==
  \A i, j \in DOMAIN items :
    items[i].id.sku = items[j].id.sku /\ items[i].id.sku # NoSku => i = j

(* The cart never holds more than MAX_LINES elements, although addItems    *)
(* counts them in its copy and pushes to whatever is there later.          *)
CartWithinLimit == Len(items) <= MaxLines

(* A call is told that its cart changed only after MaxAttempts saves of    *)
(* other calls did go through (withCartWrite: "only after genuinely losing  *)
(* three times").                                                          *)
ConflictMeansContention ==
  \A c \in Call : outcome[c] = "conflict" => version >= MaxAttempts

(* A save does to the cart as it is now exactly what the call asked for,   *)
(* although it writes a difference computed on an older copy: the promise  *)
(* of optimisticConcurrency.  It holds for every save that no direct       *)
(* update overtook since the call read the cart.                           *)
SavesAreAtomic ==
  [][\A c \in Call :
       /\ pc[c] = "save" /\ outcome'[c] = "done" /\ version' # version
       /\ ~overtaken[c]
       => items' = Result(c, items)]_vars

(* Every element of the cart is a line that names a product (cart.model.js: *)
(* productId is required).  Violated: a removal overtakes a changed quantity. *)
EveryLineNamesAProduct == \A i \in DOMAIN items : items[i].id.sku # NoSku
=============================================================================
