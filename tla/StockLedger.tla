----------------------------- MODULE StockLedger -----------------------------
(***************************************************************************)
(* What the shop promises about units of stock, with no orders, requests   *)
(* or handlers in it.                                                      *)
(*                                                                         *)
(* Every SKU (a product without variants, or one variant) has a number of  *)
(* units on the shelf.  A claim is one order line's hold on units of one   *)
(* SKU.  Units move from the shelf into a claim once, when the line is     *)
(* reserved, and from the claim back to the shelf at most once, when the   *)
(* line is released; a claim that is never released keeps its units.       *)
(* Nothing else moves a unit.  Module Orders is shown to implement this.   *)
(***************************************************************************)
EXTENDS Integers, FiniteSets

CONSTANTS
  Sku,            \* the things a unit of which can be sold
  Claim,          \* the order lines that can hold units
  MaxQuantity,    \* most units one claim can hold
  InitialStock,   \* units of each SKU before anything was sold
  Backorderable   \* the SKUs whose count may be driven below zero

(* What the theorems need to know of the constants. *)
LedgerConstants ==
  /\ IsFiniteSet(Claim)
  /\ MaxQuantity \in Nat
  /\ InitialStock \in [Sku -> Nat]
  /\ Backorderable \subseteq Sku

VARIABLES
  shelf,   \* shelf[s]: units of s that may still be sold
  held     \* held[c][s]: units of s that claim c keeps off the shelf

vars == <<shelf, held>>

Quantity == 0..MaxQuantity

TypeOK ==
  /\ shelf \in [Sku -> Int]
  /\ held \in [Claim -> [Sku -> Quantity]]

-----------------------------------------------------------------------------

Init ==
  /\ shelf = InitialStock
  /\ held = [c \in Claim |-> [s \in Sku |-> 0]]

(* The units a claim wants leave the shelf, all of them or none. *)
Take(c, s, n) ==
  /\ held[c][s] = 0
  /\ s \in Backorderable \/ n <= shelf[s]
  /\ shelf' = [shelf EXCEPT ![s] = @ - n]
  /\ held' = [held EXCEPT ![c][s] = n]

(* Exactly the units a claim holds return, and the claim holds none. *)
PutBack(c, s) ==
  /\ held[c][s] # 0
  /\ shelf' = [shelf EXCEPT ![s] = @ + held[c][s]]
  /\ held' = [held EXCEPT ![c][s] = 0]

Next ==
  \E c \in Claim, s \in Sku :
    \/ \E n \in 1..MaxQuantity : Take(c, s, n)
    \/ PutBack(c, s)

Spec == Init /\ [][Next]_vars

-----------------------------------------------------------------------------

(* The units of s held by all claims, one element per unit. *)
HeldUnits(s) ==
  {u \in Claim \X (1..MaxQuantity) : u[2] <= held[u[1]][s]}

(* No unit is invented and none disappears: for every SKU the units on the *)
(* shelf and the units held by claims always add up to the initial stock.  *)
Conservation ==
  \A s \in Sku :
    shelf[s] + Cardinality(HeldUnits(s)) = InitialStock[s]

(* A SKU that never accepts backorders is never sold below zero. *)
NoOversell ==
  \A s \in Sku \ Backorderable : shelf[s] >= 0

=============================================================================
