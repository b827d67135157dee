------------------------------- MODULE MCOrders -------------------------------
(***************************************************************************)
(* Small instances of module Orders for TLC.                               *)
(***************************************************************************)
EXTENDS Orders, TLC

CONSTANTS a, b,          \* two SKUs
          ann, bob,      \* two idempotency namespaces
          k              \* one client-chosen key

One(s) == [sku |-> s, quantity |-> 1]
Two(s) == [sku |-> s, quantity |-> 2]

Submission(who, key, items) == [owner |-> who, key |-> key, items |-> items]

(* Retries of one submission, the same key from someone else, two lines in *)
(* both orders, one SKU twice in one order, a quantity above one.          *)
PlacementForms ==
  {Submission(ann, k, <<One(a), One(b)>>),
   Submission(bob, k, <<One(b), Two(a)>>),
   Submission(bob, NoKey, <<One(a), One(a)>>)}

(* A two-line order and a one-line order for the staff to work on. *)
StaffForms ==
  {Submission(ann, NoKey, <<Two(a), One(b)>>),
   Submission(bob, k, <<One(a)>>)}

OneForm == {Submission(ann, NoKey, <<One(a), One(b)>>)}

(* The same submission under the same key, in a shop that has enough. *)
KeyedForm == {Submission(ann, k, <<One(a), One(b)>>)}

TwoOfEach == (a :> 2 @@ b :> 2)
TwoAndOne == (a :> 2 @@ b :> 1)
ThreeAndOne == (a :> 3 @@ b :> 1)

AllCounted == (a :> "counted" @@ b :> "counted")

Symmetry == Permutations(Request) \cup Permutations(Handler)

=============================================================================
