------------------------------- MODULE Wishlist -------------------------------
(***************************************************************************)
(* One user's wishlist under concurrent requests                           *)
(* (modules/wishlist/wishlist.service.js).                                 *)
(*                                                                         *)
(* A request that saves reads the catalog, then which of its products are  *)
(* on the list, then how long that is, and inserts last; any other request *)
(* may act between two of its steps.  The unique index makes an insert of  *)
(* what is there a no-op.  Deletions are single statements.  A request     *)
(* that is refused before it reads the list is no step.                    *)
(***************************************************************************)
EXTENDS Integers, FiniteSets

CONSTANTS
  Product,
  Client,       \* requests in flight at a time
  MaxItems,     \* WISHLIST.MAX_ITEMS
  MaxBatch,     \* WISHLIST.MAX_BATCH_SIZE
  MaxRequests   \* bound: requests in a behaviour

ASSUME WishlistAssumption ==
  /\ IsFiniteSet(Product)
  /\ IsFiniteSet(Client) /\ Client # {}
  /\ MaxItems \in Nat /\ MaxBatch \in Nat \ {0} /\ MaxRequests \in Nat

VARIABLES
  saved,     \* the products on the list
  visible,   \* the products a shopper can see
  doing,     \* each request's next step
  wanted,    \* and the products it would save
  requested  \* requests made

wishlistVars == <<saved, visible, doing, wanted, requested>>

WishlistTypeOK ==
  /\ saved \subseteq Product /\ visible \subseteq Product
  /\ doing \in [Client -> {"idle", "looking", "checking", "counting", "inserting"}]
  /\ wanted \in [Client -> SUBSET Product]
  /\ requested \in 0..MaxRequests

WishlistInit ==
  /\ saved = {} /\ visible = Product
  /\ doing = [c \in Client |-> "idle"] /\ wanted = [c \in Client |-> {}]
  /\ requested = 0

Asks(c) ==
  /\ doing[c] = "idle" /\ requested < MaxRequests
  /\ requested' = requested + 1

Does(c, next, products) ==
  /\ doing' = [doing EXCEPT ![c] = next]
  /\ wanted' = [wanted EXCEPT ![c] = products]

AddItems(c, batch) ==
  /\ Asks(c)
  /\ Cardinality(batch) \in 1..MaxBatch /\ batch \subseteq visible
  /\ Does(c, "looking", batch)
  /\ UNCHANGED <<saved, visible>>

(* What is saved already is not counted again. *)
FindExisting(c) ==
  /\ doing[c] = "looking"
  /\ Does(c, "counting", wanted[c] \ saved)
  /\ UNCHANGED <<saved, visible, requested>>

(* Saved becomes unsaved at once; unsaved goes the way of a batch of one.  *)
Toggle(c, p) ==
  /\ Asks(c)
  /\ IF p \in saved
     THEN saved' = saved \ {p} /\ UNCHANGED <<doing, wanted>>
     ELSE Does(c, "checking", {p}) /\ UNCHANGED saved
  /\ UNCHANGED visible

CheckVisible(c) ==
  /\ doing[c] = "checking"
  /\ IF wanted[c] \subseteq visible THEN Does(c, "counting", wanted[c]) ELSE Does(c, "idle", {})
  /\ UNCHANGED <<saved, visible, requested>>

(* Mutant: the products that come are not counted. *)
AssertRoomForOne(c) ==
  /\ doing[c] = "counting"
  /\ IF Cardinality(saved) > MaxItems THEN Does(c, "idle", {})
     ELSE Does(c, "inserting", wanted[c])
  /\ UNCHANGED <<saved, visible, requested>>

AssertRoom(c) ==
  /\ doing[c] = "counting"
  /\ IF Cardinality(saved) + Cardinality(wanted[c]) > MaxItems THEN Does(c, "idle", {})
     ELSE Does(c, "inserting", wanted[c])
  /\ UNCHANGED <<saved, visible, requested>>

(* Unordered: when it breaks off, any of them may be there. *)
InsertMany(c) ==
  /\ doing[c] = "inserting"
  /\ \E products \in SUBSET wanted[c] : saved' = saved \cup products
  /\ Does(c, "idle", {})
  /\ UNCHANGED <<visible, requested>>

RemoveItems(c, batch) ==
  /\ Asks(c)
  /\ batch # {} /\ saved' = saved \ batch
  /\ UNCHANGED <<visible, doing, wanted>>

Clear(c) ==
  /\ Asks(c)
  /\ saved' = {}
  /\ UNCHANGED <<visible, doing, wanted>>

(* Staff withdraw a product, or bring it back. *)
ChangeVisibility(p) ==
  /\ requested < MaxRequests
  /\ visible' = IF p \in visible THEN visible \ {p} ELSE visible \cup {p}
  /\ UNCHANGED <<saved, doing, wanted, requested>>

WishlistNext ==
  \/ \E c \in Client :
       \/ \E batch \in SUBSET Product : AddItems(c, batch) \/ RemoveItems(c, batch)
       \/ \E p \in Product : Toggle(c, p)
       \/ FindExisting(c) \/ CheckVisible(c) \/ AssertRoom(c) \/ InsertMany(c) \/ Clear(c)
  \/ \E p \in Product : ChangeVisibility(p)

WishlistSpec == WishlistInit /\ [][WishlistNext]_wishlistVars

-------------------------------------------------------------------------------
(* Properties. *)

(* The room is counted before the insert, so requests that overlap may pass
   the limit together; the list exceeds it by a batch for each request but one
   and never by more, and what overlaps once does not add up over time
   (wishlist.service.js, assertRoom). *)
WishlistBounded ==
  Cardinality(saved) <= MaxItems + (Cardinality(Client) - 1) * MaxBatch

===============================================================================
