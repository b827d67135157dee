------------------------------ MODULE Checkout ------------------------------
(***************************************************************************)
(* One browser's way from its lines to orders: the checkout form           *)
(* (src/frontend/components/checkout/checkout-form.tsx and                 *)
(* checkout-view.tsx, lib/api/orders.ts, lib/api/client.ts) and the        *)
(* endpoint behind it (modules/order/order.service.js, placeOrder;         *)
(* middleware/authenticate.js, optionalAuthenticate).                      *)
(*                                                                         *)
(* An answer may be lost on its way, upon which the shopper tries again,   *)
(* from the same form or from a new one, as the same caller or as another: *)
(* the session may end and the access token may run out meanwhile, the     *)
(* network or the e-mail may change.  How an order is priced and reserved  *)
(* is module Orders; other tabs are module GuestCart.                      *)
(***************************************************************************)
EXTENDS Integers, Sequences, FiniteSets

CONSTANTS
  Network,         \* the addresses the API may see
  MaxErrands,      \* bound: lines put into a cart and forms opened, together
  MaxSubmissions   \* bound: requests to place an order

ASSUME CheckoutAssumption ==
  /\ {"account", "email"} \cap Network = {}
  /\ MaxErrands \in Nat /\ MaxSubmissions \in Nat

VARIABLES
  added,        \* lines so far
  basket,       \* the guest cart in the browser
  basketAtApi,  \* the account's cart
  seen,         \* the page's copy of it
  alive,        \* the API accepts the browser's session
  bearer,       \* there is an access token and it has not run out
  believes,     \* isAuthenticated
  network,      \* the address the API sees
  checkout,     \* the form
  forms,        \* forms so far
  submissions,  \* the requests to place an order
  retold,       \* history: lines with a reason to be ordered twice
  overlooked    \* history: lines with a reason to vanish

carts == <<added, basket, basketAtApi, seen>>
caller == <<alive, bearer, believes, network>>
checkoutVars == <<carts, caller, checkout, forms, submissions, retold, overlooked>>

AnyLine == 1..added
Caller == {"account", "email"} \cup Network

(* believed: isAuthenticated when it was sent; member: and rightly so.     *)
Submission == [key : Nat, by : Caller, lines : SUBSET AnyLine,
               believed : BOOLEAN, member : BOOLEAN,
               at : {"sent", "priced", "placed", "duplicate", "refused"},
               reply : {"awaited", "heard", "missed"}]

CheckoutTypeOK ==
  /\ added \in 0..MaxErrands
  /\ basket \cup basketAtApi \cup seen \subseteq AnyLine
  /\ alive \in BOOLEAN /\ bearer \in BOOLEAN /\ believes \in BOOLEAN /\ network \in Network
  /\ checkout \in [open : BOOLEAN, key : 0..forms, email : BOOLEAN]
  /\ forms \in 0..MaxErrands /\ added + forms <= MaxErrands
  /\ submissions \in Seq(Submission) /\ Len(submissions) <= MaxSubmissions
  /\ retold \cup overlooked \subseteq AnyLine

NoForm == [open |-> FALSE, key |-> 0, email |-> FALSE]

CheckoutInit ==
  /\ added = 0 /\ basket = {} /\ basketAtApi = {} /\ seen = {}
  /\ alive \in BOOLEAN /\ bearer = alive /\ believes = alive /\ network \in Network
  /\ checkout = NoForm
  /\ forms = 0 /\ submissions = <<>>
  /\ retold = {} /\ overlooked = {}

(* Who the API takes the caller for: a token that does not do is no error. *)
ScopedBy(email) ==
  IF bearer /\ alive THEN "account" ELSE IF email THEN "email" ELSE network

LinesOf(which) == UNION {submissions[i].lines : i \in which}

(* An order that the shopper may have and does not know of. *)
Pending ==
  {i \in DOMAIN submissions : submissions[i].at # "refused" /\ submissions[i].reply # "heard"}

(* From now on another key or another caller would ask for these lines.    *)
Turns == retold' = retold \cup LinesOf(Pending)

SameOrder(i, j) ==
  /\ submissions[i].key = submissions[j].key
  /\ submissions[i].by = submissions[j].by

(* The page shows no form when it has no lines. *)
Showing(lines) == checkout' = IF lines # {} THEN checkout ELSE NoForm

-------------------------------------------------------------------------------
(* The caller. *)

(* The cookie goes when the token runs out; the page does not notice.      *)
TokenExpires ==
  /\ bearer /\ bearer' = FALSE /\ Turns
  /\ UNCHANGED <<carts, alive, believes, network, checkout, forms, submissions, overlooked>>

(* On another device. *)
SessionEnds ==
  /\ alive /\ alive' = FALSE /\ Turns
  /\ UNCHANGED <<carts, bearer, believes, network, checkout, forms, submissions, overlooked>>

MoveTo(place) ==
  /\ network # place /\ network' = place /\ Turns
  /\ UNCHANGED <<carts, alive, bearer, believes, checkout, forms, submissions, overlooked>>

(* The page reads the account's cart: a missing token is renewed, if that  *)
(* is possible, and the page learns it if not.                             *)
FetchCart ==
  /\ believes /\ ~bearer
  /\ bearer' = alive /\ believes' = alive
  /\ seen' = IF alive THEN basketAtApi ELSE {}
  /\ Showing(IF alive THEN basketAtApi ELSE basket)
  /\ Turns
  /\ UNCHANGED <<added, basket, basketAtApi, alive, network, forms, submissions, overlooked>>

(* On its own page; the guest cart moves to the account, or does not.      *)
EnterAccount(moves) ==
  /\ ~believes /\ ~checkout.open
  /\ alive' = TRUE /\ bearer' = TRUE /\ believes' = TRUE
  /\ basketAtApi' = IF moves THEN basketAtApi \cup basket ELSE basketAtApi
  /\ basket' = IF moves THEN {} ELSE basket
  /\ Turns
  /\ UNCHANGED <<added, seen, network, checkout, forms, submissions, overlooked>>

LeaveAccount ==
  /\ believes
  /\ alive' = FALSE /\ bearer' = FALSE /\ believes' = FALSE /\ seen' = {}
  /\ Showing(basket) /\ Turns
  /\ UNCHANGED <<added, basket, basketAtApi, network, forms, submissions, overlooked>>

-------------------------------------------------------------------------------
(* The shopper. *)

AddLine ==
  LET n == added + 1
  IN
  /\ ~checkout.open /\ n + forms <= MaxErrands /\ added' = n
  /\ \/ believes /\ alive /\ basketAtApi' = basketAtApi \cup {n} /\ UNCHANGED basket
     \/ ~believes /\ basket' = basket \cup {n} /\ UNCHANGED basketAtApi
  /\ bearer' = believes
  /\ Turns
  /\ UNCHANGED <<seen, alive, believes, network, checkout, forms, submissions, overlooked>>

(* Middleware renews the token, or finds that it cannot be; a form has one *)
(* key for its life.                                                       *)
OpenCheckout ==
  /\ ~checkout.open /\ added + forms < MaxErrands /\ forms' = forms + 1
  /\ bearer' = alive /\ believes' = alive
  /\ seen' = IF alive THEN basketAtApi ELSE {}
  /\ (IF alive THEN basketAtApi ELSE basket) # {}
  /\ checkout' = [open |-> TRUE, key |-> forms + 1, email |-> FALSE]
  /\ Turns
  /\ UNCHANGED <<added, basket, basketAtApi, alive, network, submissions, overlooked>>

EditEmail ==
  /\ checkout.open /\ checkout' = [checkout EXCEPT !.email = ~@] /\ Turns
  /\ UNCHANGED <<carts, caller, forms, submissions, overlooked>>

(* To another page: an answer is still heard. *)
LeaveCheckout ==
  /\ checkout.open /\ checkout' = NoForm
  /\ UNCHANGED <<carts, caller, forms, submissions, retold, overlooked>>

(* Nobody is left to hear an answer. *)
ReloadCheckout ==
  /\ checkout' = NoForm
  /\ submissions' = [i \in DOMAIN submissions |->
                       IF submissions[i].reply = "awaited"
                       THEN [submissions[i] EXCEPT !.reply = "missed"] ELSE submissions[i]]
  /\ submissions' # submissions
  /\ UNCHANGED <<carts, caller, forms, retold, overlooked>>

Submits(key) ==
  LET asked == IF believes THEN seen ELSE basket
      by == ScopedBy(checkout.email /\ ~believes)
  IN
  /\ checkout.open /\ Len(submissions) < MaxSubmissions
  /\ submissions' = Append(submissions,
       [key |-> key, by |-> by, lines |-> asked, believed |-> believes,
        member |-> believes /\ alive, at |-> "sent", reply |-> "awaited"])
  (* Neither cart will learn of an order of this kind; and an order under   *)
  (* this key may hold other lines.                                         *)
  /\ retold' = retold \cup (IF believes /\ by # "account" THEN asked ELSE {})
  /\ overlooked' = overlooked \cup
       (IF \E i \in DOMAIN submissions : submissions[i].key = key /\ submissions[i].lines # asked
        THEN asked ELSE {})
  /\ UNCHANGED <<carts, caller, checkout, forms>>

Submitting(key) ==
  \E i \in DOMAIN submissions : submissions[i].key = key /\ submissions[i].reply = "awaited"

(* Mutant: a key for every submission. *)
SubmitAnew ==
  /\ ~Submitting(MaxErrands + Len(submissions))
  /\ Submits(MaxErrands + Len(submissions) + 1)

OnSubmit == ~Submitting(checkout.key) /\ Submits(checkout.key)

-------------------------------------------------------------------------------
(* placeOrder. *)

Becomes(i, at) == submissions' = [submissions EXCEPT ![i].at = at]

Existing(i) == \E j \in DOMAIN submissions : submissions[j].at = "placed" /\ SameOrder(i, j)

FindExisting ==
  \E i \in DOMAIN submissions :
    /\ submissions[i].at = "sent"
    /\ Becomes(i, IF Existing(i) THEN "duplicate" ELSE "priced")
    /\ UNCHANGED <<carts, caller, checkout, forms, retold, overlooked>>

(* The lines of an account's order leave its cart, or that fails.          *)
WriteOrder(i, cleared) ==
  LET ordered == IF submissions[i].by = "account" THEN submissions[i].lines ELSE {}
  IN
  /\ submissions[i].at = "priced" /\ ~Existing(i)
  /\ Becomes(i, "placed")
  /\ basketAtApi' = IF cleared THEN basketAtApi \ ordered ELSE basketAtApi
  /\ retold' = IF cleared THEN retold ELSE retold \cup ordered
  /\ UNCHANGED <<added, basket, seen, caller, checkout, forms, overlooked>>

(* Out of stock, a failure, or a key that was taken meanwhile. *)
RefuseOrder(i) ==
  /\ submissions[i].at \in {"sent", "priced"}
  /\ Becomes(i, "refused")
  /\ UNCHANGED <<carts, caller, checkout, forms, retold, overlooked>>

-------------------------------------------------------------------------------
(* The answer. *)

Replies(i, reply) ==
  /\ submissions[i].reply = "awaited"
  /\ submissions' = [j \in DOMAIN submissions |->
                       IF j = i \/ (reply = "heard" /\ SameOrder(i, j))
                       THEN [submissions[j] EXCEPT !.reply = reply] ELSE submissions[j]]
  /\ UNCHANGED <<added, basketAtApi, seen, caller, forms, retold>>

(* A new order, or the one that was there: a guest's cart is emptied, and  *)
(* the page goes on to the receipt from wherever it is.                    *)
HearOrder(i) ==
  /\ submissions[i].at \in {"placed", "duplicate"} /\ Replies(i, "heard")
  /\ basket' = IF submissions[i].believed THEN basket ELSE {}
  /\ overlooked' = overlooked \cup (basket \ (submissions[i].lines \cup basket'))
  /\ checkout' = NoForm

HearRefusal(i) ==
  /\ submissions[i].at = "refused" /\ Replies(i, "missed")
  /\ UNCHANGED <<basket, checkout, overlooked>>

(* Taken for a failure. *)
LoseAnswerTo(i) ==
  /\ submissions[i].at # "refused" /\ Replies(i, "missed")
  /\ UNCHANGED <<basket, checkout, overlooked>>

CheckoutNext ==
  \/ TokenExpires \/ SessionEnds \/ FetchCart \/ LeaveAccount
  \/ \E place \in Network : MoveTo(place)
  \/ \E moves \in BOOLEAN : EnterAccount(moves)
  \/ AddLine \/ OpenCheckout \/ EditEmail \/ LeaveCheckout \/ ReloadCheckout \/ OnSubmit
  \/ FindExisting
  \/ \E i \in DOMAIN submissions :
       \/ \E cleared \in BOOLEAN : WriteOrder(i, cleared)
       \/ RefuseOrder(i) \/ HearOrder(i) \/ HearRefusal(i) \/ LoseAnswerTo(i)

CheckoutSpec == CheckoutInit /\ [][CheckoutNext]_checkoutVars

-------------------------------------------------------------------------------
(* Properties. *)

(* A line is ordered once however often the shopper tries again.  A second
   order for it needs an answer that was not heard before the next attempt
   came under another key or from another caller, an order that the API did
   not take for the account's, or an account's cart that could not be emptied;
   and a line leaves the carts without an order only when it was added while an
   answer was on its way, or the form had asked for other lines before
   (checkout-form.tsx, onSubmit; order.service.js, scopedIdempotencyKey and
   placeOrder). *)
LinesOrderedOnce ==
  \A n \in AnyLine :
    LET orders == {i \in DOMAIN submissions :
                     submissions[i].at = "placed" /\ n \in submissions[i].lines}
    IN
    /\ Cardinality(orders) <= 1 \/ n \in retold
    /\ n \in basket \cup basketAtApi \cup overlooked \/ orders # {}

(* "a signed-in order is linked to its account automatically"
   (order.routes.js): what a page places with a session that is alive is the
   account's. *)
SignedInOrdersAreLinked ==
  \A i \in DOMAIN submissions :
    submissions[i].at = "placed" /\ submissions[i].member => submissions[i].by = "account"

===============================================================================
