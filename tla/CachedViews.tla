---------------------------- MODULE CachedViews ----------------------------
(***************************************************************************)
(* What the storefront shows of the account's cart                         *)
(* (src/frontend/hooks/use-cart.ts) and of its wishlist                    *)
(* (hooks/use-wishlist.ts; hooks/use-admin-products.ts treats "featured"   *)
(* the same way): a copy that every write changes before, or when, its     *)
(* answer arrives, and that a fetch replaces.                              *)
(*                                                                         *)
(* A state of the cart or the list is its number.  One page is open; it    *)
(* makes the only changes.                                                 *)
(***************************************************************************)
EXTENDS Integers

CONSTANTS
  Tap,        \* writes on their way at a time
  MaxChanges, \* bound: writes the API carries out
  MaxTaps     \* bound: writes asked for

ASSUME CachedViewsAssumption == MaxChanges \in Nat /\ MaxTaps \in Nat

VARIABLES
  view,      \* what is shown: the cart, or the hearts
  content,   \* the API's state
  shown,     \* the page's copy
  write,     \* the writes
  fetch,     \* the fetch that is under way, if any
  taps,      \* writes asked for
  newest,    \* history: the newest answer the page has had
  unlucky    \* history: what else went wrong

viewsVars == <<view, content, shown, write, fetch, taps, newest, unlucky>>

Guess == -1
State == 0..MaxChanges
Copy == State \cup {Guess}

Write == [kind : {"none", "quantity", "removal", "toggle"},
          at : {"idle", "sent", "done", "refused", "unheard"},
          previous : Copy, answer : State]
NoWrite == [kind |-> "none", at |-> "idle", previous |-> 0, answer |-> 0]

CachedViewsTypeOK ==
  /\ view \in {"cart", "hearts"} /\ content \in State /\ shown \in Copy
  /\ write \in [Tap -> Write]
  /\ fetch \in [at : {"none", "asked", "read"}, answer : State]
  /\ taps \in 0..MaxTaps /\ newest \in State
  /\ unlucky \subseteq {"overtaken", "unread", "late"}

NoFetch == [at |-> "none", answer |-> 0]
NewFetch == [at |-> "asked", answer |-> 0]

CachedViewsInit ==
  /\ view \in {"cart", "hearts"}
  /\ content = 0 /\ shown = 0
  /\ write = [m \in Tap |-> NoWrite] /\ fetch = NoFetch
  /\ taps = 0 /\ newest = 0 /\ unlucky = {}

-------------------------------------------------------------------------------
(* The page asks. *)

Sends(m, kind, previous) ==
  /\ write[m].at = "idle" /\ taps < MaxTaps /\ taps' = taps + 1
  /\ write' = [write EXCEPT ![m] = [NoWrite EXCEPT !.kind = kind, !.at = "sent",
                                                   !.previous = previous]]
  /\ UNCHANGED <<view, content, newest, unlucky>>

(* onMutate: a fetch under way is cancelled, and the result is guessed.    *)
SetQuantity(m) ==
  view = "cart" /\ Sends(m, "quantity", shown) /\ shown' = Guess /\ fetch' = NoFetch

ToggleHeart(m) ==
  view = "hearts" /\ Sends(m, "toggle", shown) /\ shown' = Guess /\ fetch' = NoFetch

(* removeItems and clear guess nothing. *)
RemoveLines(m) ==
  view = "cart" /\ Sends(m, "removal", 0) /\ UNCHANGED <<shown, fetch>>

(* A component that shows it is mounted. *)
Mount ==
  /\ fetch.at = "none" /\ fetch' = NewFetch
  /\ UNCHANGED <<view, content, shown, write, taps, newest, unlucky>>

-------------------------------------------------------------------------------
(* The API. *)

CarryOut(m) ==
  /\ write[m].at \in {"sent", "unheard"} /\ content < MaxChanges
  /\ content' = content + 1
  /\ write' = [write EXCEPT ![m] = IF @.at = "sent"
                                   THEN [@ EXCEPT !.at = "done", !.answer = content + 1]
                                   ELSE NoWrite]
  /\ UNCHANGED <<view, shown, fetch, taps, newest, unlucky>>

Decline(m) ==
  /\ write[m].at \in {"sent", "unheard"}
  /\ write' = [write EXCEPT ![m] = IF @.at = "sent" THEN [@ EXCEPT !.at = "refused"]
                                   ELSE NoWrite]
  /\ UNCHANGED <<view, content, shown, fetch, taps, newest, unlucky>>

AnswerFetch ==
  /\ fetch.at = "asked"
  /\ fetch' = [at |-> "read", answer |-> content]
  /\ UNCHANGED <<view, content, shown, write, taps, newest, unlucky>>

-------------------------------------------------------------------------------
(* The page hears. *)

(* The answer becomes the copy. *)
Absorb(n) ==
  /\ shown' = n
  /\ newest' = IF n > newest THEN n ELSE newest
  /\ unlucky' = unlucky \cup (IF n < newest /\ view = "cart" THEN {"overtaken"} ELSE {})

Succeed(m) ==
  /\ write[m].at = "done"
  /\ write' = [write EXCEPT ![m] = NoWrite]
  /\ IF write[m].kind = "toggle"
     THEN fetch' = NewFetch /\ UNCHANGED <<shown, newest, unlucky>>
     ELSE Absorb(write[m].answer) /\ UNCHANGED fetch
  /\ UNCHANGED <<view, content, taps>>

(* Mutant: the roll-back is trusted. *)
RollBackOnly(m) ==
  /\ shown' = IF write[m].kind = "removal" THEN shown ELSE write[m].previous
  /\ UNCHANGED <<view, content, fetch, taps, newest>>

(* The guess is taken back, and the truth is asked for. *)
RollBack(m) ==
  /\ shown' = IF write[m].kind = "removal" THEN shown ELSE write[m].previous
  /\ fetch' = NewFetch
  /\ UNCHANGED <<view, content, taps, newest>>

BeRefused(m) ==
  /\ write[m].at = "refused" /\ RollBack(m)
  /\ write' = [write EXCEPT ![m] = NoWrite]
  /\ UNCHANGED unlucky

(* No answer, to a write that was carried out or may be yet. *)
GiveUp(m) ==
  /\ write[m].at \in {"sent", "done"} /\ RollBack(m)
  /\ write' = [write EXCEPT ![m] = IF @.at = "done" THEN NoWrite
                                   ELSE [NoWrite EXCEPT !.at = "unheard"]]
  /\ unlucky' = unlucky \cup (IF write[m].at = "sent" THEN {"late"} ELSE {})

LandFetch ==
  /\ fetch.at = "read" /\ fetch' = NoFetch
  /\ Absorb(fetch.answer)
  /\ UNCHANGED <<view, content, write, taps>>

(* It is tried twice. *)
FailFetch ==
  /\ fetch.at # "none" /\ fetch' = NoFetch
  /\ unlucky' = unlucky \cup {"unread"}
  /\ UNCHANGED <<view, content, shown, write, taps, newest>>

CachedViewsNext ==
  \/ \E m \in Tap : \/ SetQuantity(m) \/ ToggleHeart(m) \/ RemoveLines(m) \/ CarryOut(m)
                    \/ Decline(m) \/ Succeed(m) \/ BeRefused(m) \/ GiveUp(m)
  \/ Mount \/ AnswerFetch \/ LandFetch \/ FailFetch

CachedViewsSpec == CachedViewsInit /\ [][CachedViewsNext]_viewsVars

-------------------------------------------------------------------------------
(* Properties. *)

(* When nothing is on its way any more, the page shows what the API has.
   Excused are a fetch that failed, a write carried out after the page had
   given it up, and, in the cart only, an answer that lands after a newer one:
   the hearts are fetched again after every write, and no order of answers,
   refusals, cancelled fetches and roll-backs leaves them wrong (use-cart.ts,
   absorb and onFailure; use-wishlist.ts, onMutate and onSettled). *)
QuietViewIsTrue ==
  (\A m \in Tap : write[m].at = "idle") /\ fetch.at = "none" /\ unlucky = {}
    => shown = content

===============================================================================
