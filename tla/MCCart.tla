-------------------------------- MODULE MCCart --------------------------------
(***************************************************************************)
(* Small instances of module Cart for TLC.                                 *)
(***************************************************************************)
EXTENDS Cart, TLC

CONSTANTS a, b, d     \* three SKUs

Add(skus, quantity) == [op |-> "add", skus |-> skus, quantity |-> quantity]

Held(s) == [by |-> Earlier, sku |-> s]

Update(ids, n) == [op |-> "update", ids |-> ids, quantity |-> [i \in Id |-> n]]

Had(s, n) == [id |-> Held(s), quantity |-> n]

(* A push or a raise, both at once, a raise or a push beside a full cart,  *)
(* a new quantity, a removal with a new quantity, and the direct updates.  *)
AllForms ==
  {Add(<<a>>, (a :> 1 @@ b :> 0 @@ d :> 0)),
   Add(<<b>>, (a :> 0 @@ b :> 2 @@ d :> 0)),
   Add(<<a, d>>, (a :> 1 @@ b :> 0 @@ d :> 1)),
   Update({Held(a)}, 2),
   [op |-> "update", ids |-> {Held(a), Held(b)},
    quantity |-> [i \in Id |-> IF i = Held(b) THEN 2 ELSE 0]],
   [op |-> "remove", ids |-> {Held(a)}],
   [op |-> "clear"],
   [op |-> "ordered", skus |-> {b}]}

RaiseAndRemove ==
  {Add(<<b>>, (a :> 0 @@ b :> 2 @@ d :> 0)),
   [op |-> "remove", ids |-> {Held(a)}],
   Update({Held(a)}, 2)}

EmptyOrTwoLines == {<<>>, <<Had(a, 1), Had(b, 1)>>}

TwoLines == {<<Had(a, 1), Had(b, 1)>>}

Limits322 == (a :> 3 @@ b :> 2 @@ d :> 2)

Symmetry == Permutations(Call)

=============================================================================
