-------------------------------- MODULE Browser --------------------------------
(***************************************************************************)
(* One browser's session cookies: the page server that renews them         *)
(* (src/frontend/proxy.ts), the client (src/frontend/lib/api/client.ts,    *)
(* auth.ts) and the API that rotates refresh tokens                        *)
(* (modules/auth/auth.service.js).                                         *)
(*                                                                         *)
(* A page request carries the cookies the browser held when it was sent    *)
(* and its answer may change them when it lands: requests overtake each    *)
(* other on the way there and back.  So do they and a sign-out, of which   *)
(* there is one at a time.  The server is one process.  A request with no  *)
(* refresh token changes nothing here and is no step.                      *)
(***************************************************************************)
EXTENDS Integers

CONSTANTS
  Page,       \* page requests on their way at a time
  MaxTokens,  \* bound: token pairs issued
  MaxPages    \* bound: page requests and sign-outs in a behaviour

ASSUME BrowserAssumption == MaxTokens \in Nat /\ MaxPages \in Nat

VARIABLES
  jar,      \* the cookies: numbers of token pairs, 0 for none
  leaving,  \* the sign-out, and the cookies it was sent with
  page,     \* the page requests
  renewal,     \* the refresh that a page request started
  held,     \* the refresh tokens the API has a session for
  voided,   \* pairs up to this one carry an old token version
  aged,     \* access tokens up to this one have a minute left at most
  minted,   \* pairs issued
  sent,     \* page requests and sign-outs made
  causes,   \* history: what befell a refresh token
  alarmed   \* history: the API took a request for a replay

served == <<held, voided, aged, minted>>
story == <<causes, alarmed>>
browserVars == <<jar, leaving, page, renewal, served, sent, story>>

Cookies == [refresh : 0..minted, access : 0..minted]
NoCookies == [refresh |-> 0, access |-> 0]

(* on: the request whose refresh it waits for; issued: the pair to write   *)
(* back, 0 to delete the cookies; excused: its refresh token was good when *)
(* it was sent, or about to be replaced.                                   *)
PageRequest == [at : {"idle", "sent", "waiting", "answered"}, cookies : Cookies,
                on : Page, issued : 0..minted, excused : BOOLEAN]

(* again: with the access token renewed; ended: it is answered. *)
Leaving == [at : {"no", "sent", "again", "ended"}, cookies : Cookies]
NotLeaving == [at |-> "no", cookies |-> NoCookies]

BrowserTypeOK ==
  /\ jar \in Cookies /\ leaving \in Leaving
  /\ page \in [Page -> PageRequest]
  /\ renewal \in [Page -> {"none", "called", "issued", "failed"}]
  /\ held \subseteq 1..minted /\ voided \in 0..minted /\ aged \in 0..minted
  /\ minted \in 0..MaxTokens /\ sent \in 0..MaxPages
  /\ causes \subseteq {"late", "lost", "reordered", "signedOut"} /\ alarmed \in BOOLEAN

NoPage(p) == [at |-> "idle", cookies |-> NoCookies, on |-> p, issued |-> 0, excused |-> FALSE]

BrowserInit ==
  /\ jar = NoCookies /\ leaving = NotLeaving
  /\ page = [p \in Page |-> NoPage(p)]
  /\ renewal = [p \in Page |-> "none"]
  /\ held = {} /\ voided = 0 /\ aged = 0 /\ minted = 0
  /\ sent = 0
  /\ causes = {} /\ alarmed = FALSE

RefreshToken(p) == page[p].cookies.refresh

(* An answer that replaces the token, or deletes it, is on its way or      *)
(* about to be.                                                            *)
Replacing(t) ==
  \/ leaving.at = "ended" /\ leaving.cookies.refresh = t
  \/ \E p \in Page : RefreshToken(p) = t /\ (renewal[p] # "none" \/ page[p].at = "answered")

-------------------------------------------------------------------------------
(* The browser. *)

Issue(jars) ==
  /\ minted < MaxTokens /\ minted' = minted + 1
  /\ jar' = jars

SignIn ==
  /\ Issue([refresh |-> minted + 1, access |-> minted + 1])
  /\ held' = held \cup {minted + 1}
  /\ UNCHANGED <<leaving, page, renewal, voided, aged, sent, story>>

SignOut ==
  /\ leaving.at = "no" /\ sent < MaxPages /\ sent' = sent + 1
  /\ jar.refresh # 0
  /\ leaving' = [at |-> "sent", cookies |-> jar]
  /\ UNCHANGED <<jar, page, renewal, served, story>>

(* The access token had lapsed and a page request brought a new one. *)
RetrySignOut ==
  /\ leaving.at = "sent" /\ leaving.cookies.access <= aged /\ jar.access > aged
  /\ leaving' = [at |-> "again", cookies |-> jar]
  /\ UNCHANGED <<jar, page, renewal, served, sent, story>>

(* The API ends the session of the refresh token that came along. *)
EndSession ==
  LET t == leaving.cookies.refresh IN
  /\ leaving.at \in {"sent", "again"} /\ leaving.cookies.access > voided
  /\ leaving' = [leaving EXCEPT !.at = "ended"]
  /\ held' = held \ {t}
  /\ causes' = causes \cup (IF t \in held /\ \E p \in Page : RefreshToken(p) = t
                            THEN {"signedOut"} ELSE {})
  /\ UNCHANGED <<jar, page, renewal, voided, aged, minted, sent, alarmed>>

(* The answer lands and deletes both cookies, whatever they are by then. *)
SignedOut ==
  /\ leaving.at = "ended"
  /\ leaving' = NotLeaving /\ jar' = NoCookies
  /\ UNCHANGED <<page, renewal, served, sent, story>>

(* The call fails, or its answer is lost: the page forgets its own token. *)
SignOutFails ==
  /\ leaving.at # "no"
  /\ leaving' = NotLeaving /\ jar' = [jar EXCEPT !.access = 0]
  /\ causes' = causes \cup (IF leaving.at = "ended" THEN {"lost"} ELSE {})
  /\ UNCHANGED <<page, renewal, served, sent, alarmed>>

(* The API was not reached, or a renewal did not help. *)
ClearSession ==
  /\ jar.access # 0
  /\ jar' = [jar EXCEPT !.access = 0]
  /\ UNCHANGED <<leaving, page, renewal, served, sent, story>>

Age ==
  /\ aged < jar.access
  /\ aged' = jar.access
  /\ UNCHANGED <<jar, leaving, page, renewal, held, voided, minted, sent, story>>

(* Navigation, data fetches, and renew after a 401. *)
SendPage(p) ==
  /\ page[p].at = "idle" /\ sent < MaxPages /\ sent' = sent + 1
  /\ jar.refresh # 0
  /\ page' = [page EXCEPT ![p] =
                [NoPage(p) EXCEPT !.at = "sent", !.cookies = jar,
                   !.excused = jar.refresh \in held \/ Replacing(jar.refresh)]]
  /\ UNCHANGED <<jar, leaving, renewal, served, story>>

-------------------------------------------------------------------------------
(* The page server. *)

(* The access token is good for a while, and the API knows its user. *)
FetchUser(p) ==
  /\ page[p].at = "sent"
  /\ page[p].cookies.access > aged /\ page[p].cookies.access > voided
  /\ page' = [page EXCEPT ![p] = NoPage(p)]
  /\ UNCHANGED <<jar, leaving, renewal, served, sent, story>>

(* Mutant: every request makes a call of its own. *)
RefreshAlone(p) ==
  LET t == RefreshToken(p)
  IN
  /\ page[p].at = "sent"
  /\ page' = [page EXCEPT ![p].at = "waiting", ![p].on = p]
  /\ renewal' = [renewal EXCEPT ![p] = "called"]
  /\ causes' = causes \cup (IF t \notin held /\ page[p].excused THEN {"late"} ELSE {})
  /\ UNCHANGED <<jar, leaving, served, sent, alarmed>>

(* One refresh per token: a request that finds one in flight waits for it. *)
Refresh(p) ==
  LET t == RefreshToken(p)
      inFlight == {q \in Page : renewal[q] # "none" /\ RefreshToken(q) = t}
  IN
  /\ page[p].at = "sent"
  /\ \/ /\ inFlight = {}
        /\ page' = [page EXCEPT ![p].at = "waiting", ![p].on = p]
        /\ renewal' = [renewal EXCEPT ![p] = "called"]
        /\ causes' = causes \cup (IF t \notin held /\ page[p].excused THEN {"late"} ELSE {})
     \/ /\ \E q \in inFlight : page' = [page EXCEPT ![p].at = "waiting", ![p].on = q]
        /\ UNCHANGED <<renewal, causes>>
  /\ UNCHANGED <<jar, leaving, served, sent, alarmed>>

(* The API: the token's session gets the next token. *)
RotateToken(p) ==
  /\ renewal[p] = "called" /\ RefreshToken(p) \in held
  /\ minted < MaxTokens /\ minted' = minted + 1
  /\ held' = (held \ {RefreshToken(p)}) \cup {minted + 1}
  /\ renewal' = [renewal EXCEPT ![p] = "issued"]
  /\ page' = [page EXCEPT ![p].issued = minted + 1]
  /\ UNCHANGED <<jar, leaving, voided, aged, sent, story>>

(* The API: a token of an old version is refused; one of this version that *)
(* no session has is taken for stolen, and every session ends.             *)
RefuseRevoked(p) ==
  /\ renewal[p] = "called" /\ RefreshToken(p) <= voided
  /\ renewal' = [renewal EXCEPT ![p] = "failed"]
  /\ UNCHANGED <<jar, leaving, page, served, sent, story>>

DetectReuse(p) ==
  /\ renewal[p] = "called" /\ RefreshToken(p) > voided /\ RefreshToken(p) \notin held
  /\ held' = {} /\ voided' = minted
  /\ alarmed' = TRUE
  /\ renewal' = [renewal EXCEPT ![p] = "failed"]
  /\ UNCHANGED <<jar, leaving, page, aged, minted, sent, causes>>

(* The API is not reached, or its answer is not. *)
Outage(p) ==
  /\ renewal[p] \in {"called", "issued"}
  /\ renewal' = [renewal EXCEPT ![p] = "failed"]
  /\ UNCHANGED <<jar, leaving, page, served, sent, story>>

(* Everyone who waits gets the same answer. *)
Settle(p) ==
  /\ renewal[p] \in {"issued", "failed"}
  /\ page' = [q \in Page |->
                IF page[q].at = "waiting" /\ page[q].on = p
                THEN [page[q] EXCEPT !.at = "answered",
                        !.issued = IF renewal[p] = "issued" THEN page[p].issued ELSE 0]
                ELSE page[q]]
  /\ renewal' = [renewal EXCEPT ![p] = "none"]
  /\ UNCHANGED <<jar, leaving, served, sent, story>>

(* The answer lands: new cookies, or none. *)
WriteCookies(p) ==
  LET n == page[p].issued
  IN
  /\ page[p].at = "answered"
  /\ jar' = [refresh |-> n, access |-> n]
  /\ page' = [page EXCEPT ![p] = NoPage(p)]
  /\ causes' = causes \cup (IF n # 0 /\ jar.refresh \notin {n, RefreshToken(p)}
                            THEN {"reordered"} ELSE {})
  /\ UNCHANGED <<leaving, renewal, served, sent, alarmed>>

(* The answer does not reach the browser. *)
LoseAnswer(p) ==
  /\ page[p].at = "answered"
  /\ page' = [page EXCEPT ![p] = NoPage(p)]
  /\ causes' = causes \cup {"lost"}
  /\ UNCHANGED <<jar, leaving, renewal, served, sent, alarmed>>

BrowserNext ==
  \/ SignIn \/ ClearSession \/ Age
  \/ SignOut \/ RetrySignOut \/ EndSession \/ SignedOut \/ SignOutFails
  \/ \E p \in Page :
       \/ SendPage(p) \/ FetchUser(p) \/ Refresh(p) \/ RotateToken(p) \/ RefuseRevoked(p)
       \/ DetectReuse(p) \/ Outage(p) \/ Settle(p) \/ WriteCookies(p) \/ LoseAnswer(p)

BrowserSpec == BrowserInit /\ [][BrowserNext]_browserVars

-------------------------------------------------------------------------------
(* Properties. *)

(* The API takes this browser for a thief only when a page request was
   overtaken by the answer to another that renewed the same token, when an
   answer with a new token got lost or landed after the browser had moved on,
   or when the user signed out with a request on its way.  Requests that reach
   the server together never set it off, nor does an outage
   (proxy.ts, refresh; auth.service.js, refresh). *)
AlarmsHaveACause == alarmed => causes # {}

(* "The API being unreachable is not the same as being signed out; the caller
   ... leaves cookies alone" (proxy.ts, callApi): but for a sign-out, the
   browser's refresh token goes only when its session is over. *)
OutageKeepsCookies ==
  [][jar.refresh # 0 /\ jar'.refresh = 0 /\ leaving' = leaving
       => jar.refresh \notin held']_browserVars

===============================================================================
