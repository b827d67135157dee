----------------------------- MODULE GuestCart -----------------------------
(***************************************************************************)
(* The cart of a shopper who has not signed in, kept in the browser, and   *)
(* its move to the account's cart (src/frontend/lib/cart/guest-cart.ts,    *)
(* components/cart/guest-cart-merge.tsx, hooks/use-add-to-cart.ts).        *)
(*                                                                         *)
(* Every tab has a copy of the entries, read from local storage when its   *)
(* page loads; a change writes the whole copy back.  A tab learns that the *)
(* browser has a session by signing in, or by moving to another page.      *)
(* Quantities, prices and a storage that refuses to write are left out.    *)
(***************************************************************************)
EXTENDS Integers, Sequences, FiniteSets

CONSTANTS
  Tab,
  BatchSize,    \* entries sent in one request
  MaxEntries,  \* bound: entries added
  MaxPosts     \* bound: requests made

ASSUME GuestCartAssumption ==
  /\ BatchSize \in Nat /\ MaxEntries \in Nat /\ MaxPosts \in Nat

VARIABLES
  kept,      \* local storage
  entries,   \* each tab's copy
  session,   \* the browser has a session
  knows,     \* the tabs that know it
  inFlight,  \* the move each tab waits for, 0 for none
  posts,     \* the requests made
  received,  \* how often the account got each entry
  dropped,   \* history: entries the shopper took out or ordered
  mayDouble, \* history: entries with a reason to arrive twice
  mayVanish  \* history: entries with a reason not to arrive

cartStory == <<dropped, mayDouble, mayVanish>>
guestCartVars == <<kept, entries, session, knows, inFlight, posts, received, cartStory>>

Entry == 1..Len(received)

(* heeded: the page that sent it is still there and has had no answer.     *)
Post == [tab : Tab, items : SUBSET Entry, at : {"sent", "applied", "refused"},
         heeded : BOOLEAN]

GuestCartTypeOK ==
  /\ kept \subseteq Entry /\ entries \in [Tab -> SUBSET Entry]
  /\ session \in BOOLEAN /\ knows \subseteq Tab
  /\ inFlight \in [Tab -> 0..Len(posts)]
  /\ posts \in Seq(Post) /\ Len(posts) <= MaxPosts
  /\ received \in Seq(Nat) /\ Len(received) <= MaxEntries
  /\ dropped \cup mayDouble \cup mayVanish \subseteq Entry

GuestCartInit ==
  /\ kept = {} /\ entries = [t \in Tab |-> {}]
  /\ session = FALSE /\ knows = {}
  /\ inFlight = [t \in Tab |-> 0] /\ posts = <<>> /\ received = <<>>
  /\ dropped = {} /\ mayDouble = {} /\ mayVanish = {}

(* The requests of a tab that the server has or may get. *)
Underway(t) == {i \in DOMAIN posts : posts[i].tab = t /\ posts[i].at # "refused" /\ posts[i].heeded}
Items(open) == UNION {posts[i].items : i \in open}

(* The copy replaces what other tabs have written since it was read. *)
Commit(t, copy) ==
  /\ entries' = [entries EXCEPT ![t] = copy]
  /\ kept' = copy

Stale(t) == entries[t] \ kept
Unseen(t) == kept \ entries[t]

-------------------------------------------------------------------------------
(* Signed out. *)

AddGuestEntry(t) ==
  LET n == Len(received) + 1
  IN
  /\ t \notin knows /\ n <= MaxEntries
  /\ received' = Append(received, 0)
  /\ Commit(t, entries[t] \cup {n})
  /\ mayDouble' = mayDouble \cup Stale(t)
  /\ mayVanish' = mayVanish \cup Unseen(t) \cup (IF Underway(t) # {} THEN {n} ELSE {})
  /\ UNCHANGED <<session, knows, inFlight, posts, dropped>>

(* Some lines, or all of them after an order. *)
RemoveGuestEntries(t, ids) ==
  /\ t \notin knows /\ ids # {} /\ ids \subseteq entries[t]
  /\ Commit(t, entries[t] \ ids)
  /\ dropped' = dropped \cup ids
  /\ mayDouble' = mayDouble \cup Stale(t)
  /\ mayVanish' = mayVanish \cup Unseen(t)
  /\ UNCHANGED <<session, knows, inFlight, posts, received>>

-------------------------------------------------------------------------------
(* The effect of GuestCartMerge, in a tab that knows the session and has   *)
(* this copy and waits for that move.                                      *)

FirstOf(copy) == {n \in copy : Cardinality({m \in copy : m < n}) < BatchSize}

MergeGuestCart(t, copy, waitsFor) ==
  IF waitsFor # 0 \/ copy = {}
  THEN inFlight' = [inFlight EXCEPT ![t] = waitsFor] /\ UNCHANGED <<posts, mayVanish>>
  ELSE /\ Len(posts) < MaxPosts
       /\ posts' = Append(posts, [tab |-> t, items |-> FirstOf(copy), at |-> "sent",
                                  heeded |-> TRUE])
       /\ inFlight' = [inFlight EXCEPT ![t] = Len(posts) + 1]
       /\ mayVanish' = mayVanish \cup (copy \ FirstOf(copy))

(* A tab moves what another is moving, or has moved since. *)
AlsoElsewhere(t) == Stale(t) \cup Items(UNION {Underway(u) : u \in Tab \ {t}})

SignInTab(t) ==
  /\ t \notin knows /\ knows' = knows \cup {t} /\ session' = TRUE
  /\ MergeGuestCart(t, entries[t], inFlight[t])
  /\ mayDouble' = mayDouble \cup AlsoElsewhere(t)
  /\ UNCHANGED <<kept, entries, received, dropped>>

(* The promise is forgotten, the request goes on. *)
SignOutTab(t) ==
  /\ t \in knows /\ knows' = knows \ {t} /\ session' = FALSE
  /\ inFlight' = [inFlight EXCEPT ![t] = 0]
  /\ mayDouble' = mayDouble \cup Items(Underway(t))
  /\ UNCHANGED <<kept, entries, posts, received, dropped, mayVanish>>

(* Mutant: the promise is held by the component, which is mounted anew. *)
NavigateAnew(t) ==
  /\ session /\ knows' = knows \cup {t}
  /\ MergeGuestCart(t, entries[t], 0)
  /\ mayDouble' = mayDouble \cup AlsoElsewhere(t)
  /\ UNCHANGED <<kept, entries, session, received, dropped>>

(* Another page of the site: the component is mounted anew, and the tab    *)
(* learns of a session that began elsewhere.                               *)
Navigate(t) ==
  /\ session /\ knows' = knows \cup {t}
  /\ MergeGuestCart(t, entries[t], inFlight[t])
  /\ mayDouble' = mayDouble \cup AlsoElsewhere(t)
  /\ UNCHANGED <<kept, entries, session, received, dropped>>

(* ... or that one ended elsewhere. *)
NavigateSignedOut(t) ==
  /\ ~session /\ t \in knows /\ knows' = knows \ {t}
  /\ inFlight' = [inFlight EXCEPT ![t] = 0]
  /\ mayDouble' = mayDouble \cup Items(Underway(t))
  /\ UNCHANGED <<kept, entries, session, posts, received, dropped, mayVanish>>

(* The page loads afresh: nobody hears the answers it waited for. *)
ReloadTab(t) ==
  /\ entries' = [entries EXCEPT ![t] = kept]
  /\ knows' = IF session THEN knows \cup {t} ELSE knows \ {t}
  /\ inFlight' = [inFlight EXCEPT ![t] = 0]
  /\ posts' = [i \in DOMAIN posts |->
                 IF posts[i].tab = t THEN [posts[i] EXCEPT !.heeded = FALSE] ELSE posts[i]]
  /\ mayDouble' = mayDouble \cup Items(Underway(t))
  /\ UNCHANGED <<kept, session, received, dropped, mayVanish>>

-------------------------------------------------------------------------------
(* The API, and its answers. *)

Moves(i, at) == posts' = [posts EXCEPT ![i].at = at]

(* All of it or nothing. *)
ApplyPost(i) ==
  /\ posts[i].at = "sent" /\ Moves(i, "applied")
  /\ received' = [n \in Entry |-> IF n \in posts[i].items THEN received[n] + 1
                                  ELSE received[n]]
  /\ UNCHANGED <<kept, entries, session, knows, inFlight, cartStory>>

RefusePost(i) ==
  /\ posts[i].at = "sent" /\ Moves(i, "refused")
  /\ UNCHANGED <<kept, entries, session, knows, inFlight, received, cartStory>>

(* The promise is released when a move has settled, even one of before the *)
(* last sign-out, whose promise was another: what the tab is moving now is *)
(* moved again by the next page.                                           *)
Settled(i) ==
  /\ posts[i].heeded /\ posts' = [posts EXCEPT ![i].heeded = FALSE]
  /\ inFlight' = [inFlight EXCEPT ![posts[i].tab] = 0]
  /\ UNCHANGED <<session, knows, received, dropped>>

(* clearGuestCart, whatever the copy holds by now. *)
HearMoved(i) ==
  LET t == posts[i].tab
  IN
  /\ posts[i].at = "applied" /\ Settled(i)
  /\ Commit(t, {})
  /\ mayVanish' = mayVanish \cup Unseen(t)
  /\ UNCHANGED mayDouble

HearRefused(i) ==
  /\ posts[i].at = "refused" /\ Settled(i)
  /\ mayDouble' = mayDouble \cup Items(Underway(posts[i].tab))
  /\ UNCHANGED <<kept, entries, mayVanish>>

(* No answer: taken for a failure, whatever became of the request. *)
HearNothing(i) ==
  /\ posts[i].at # "refused" /\ Settled(i)
  /\ mayDouble' = mayDouble \cup Items(Underway(posts[i].tab))
  /\ UNCHANGED <<kept, entries, mayVanish>>

GuestCartNext ==
  \/ \E t \in Tab :
       \/ AddGuestEntry(t) \/ \E ids \in SUBSET entries[t] : RemoveGuestEntries(t, ids)
       \/ SignInTab(t) \/ SignOutTab(t) \/ Navigate(t) \/ NavigateSignedOut(t) \/ ReloadTab(t)
  \/ \E i \in DOMAIN posts :
       ApplyPost(i) \/ RefusePost(i) \/ HearMoved(i) \/ HearRefused(i) \/ HearNothing(i)

GuestCartSpec == GuestCartInit /\ [][GuestCartNext]_guestCartVars

-------------------------------------------------------------------------------
(* Properties. *)

(* An entry reaches the account once, or is still in the browser.  It arrives
   twice only when its request was out of sight (no answer, signed out or
   reloaded before one), a move from before the last sign-out failed meanwhile,
   or a second tab had a copy of it; it is gone only when the shopper took it
   out, a second tab wrote over it, it did not fit in the batch, or it was added
   after signing out of a move that was still under way (guest-cart-merge.tsx,
   mergeGuestCart and the promise at module scope). *)
EntriesMoveOnce ==
  \A n \in Entry :
    /\ received[n] <= 1 \/ n \in mayDouble
    /\ received[n] >= 1 \/ n \in kept \cup dropped \cup mayVanish

===============================================================================
