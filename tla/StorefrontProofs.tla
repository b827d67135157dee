--------------------------- MODULE StorefrontProofs ---------------------------
(***************************************************************************)
(* Proofs about modules Browser, CachedViews, GuestCart and Checkout, for  *)
(* any number of page requests, tokens, writes, changes, tabs, entries,    *)
(* moves, forms and submissions; and that each part of module MCStorefront *)
(* behaves as it does alone.                                               *)
(***************************************************************************)
EXTENDS MCStorefront, CartProofs

-------------------------------------------------------------------------------
(* Session cookies: why an alarm has a cause. *)

(* A page request carries a token of its own, and waits for a refresh of   *)
(* that token, which is the only one.                                      *)
Waits(p) ==
  /\ page[p].at = "idle" <=> RefreshToken(p) = 0
  /\ renewal[p] # "none" => page[p].at = "waiting" /\ page[p].on = p
  /\ page[p].at = "waiting" =>
       /\ renewal[page[p].on] # "none"
       /\ RefreshToken(page[p].on) = RefreshToken(p)
  /\ \A q \in Page :
       renewal[p] # "none" /\ renewal[q] # "none" /\ RefreshToken(p) = RefreshToken(q) => p = q

Issued(p) == renewal[p] = "issued" \/ page[p].at = "answered"

GoodFor(t) == t \in held \/ t <= voided

(* Unless something befell a token: the browser never goes back to an     *)
(* older one, the one it has is good or being replaced, what replaces it   *)
(* is good, and a refresh is asked for with a good one.                    *)
Orderly ==
  /\ jar.refresh # 0 =>
       /\ GoodFor(jar.refresh) \/ Replacing(jar.refresh)
       /\ leaving.cookies.refresh <= jar.refresh
  /\ \A p \in Page :
       /\ jar.refresh # 0 => RefreshToken(p) <= jar.refresh
       /\ Issued(p) /\ page[p].issued # 0 =>
            /\ RefreshToken(p) < page[p].issued
            /\ jar.refresh = RefreshToken(p) => GoodFor(page[p].issued)
       /\ page[p].at = "sent" => page[p].excused \/ RefreshToken(p) <= voided
       /\ renewal[p] = "called" => GoodFor(RefreshToken(p))

BrowserInv ==
  /\ BrowserTypeOK
  /\ \A p \in Page : Waits(p)
  /\ causes = {} => Orderly
  /\ AlarmsHaveACause

LEMMA PageTypes ==
  ASSUME BrowserTypeOK
  PROVE  /\ minted \in Nat /\ voided \in Nat /\ aged \in Nat /\ sent \in Nat
         /\ jar.refresh \in 0..minted /\ jar.access \in 0..minted
         /\ leaving.cookies \in Cookies /\ leaving.cookies.refresh \in 0..minted
         /\ \A p \in Page :
              /\ page[p] \in PageRequest
              /\ page[p].at \in {"idle", "sent", "waiting", "answered"}
              /\ page[p].on \in Page /\ page[p].issued \in 0..minted
              /\ page[p].cookies \in Cookies
              /\ RefreshToken(p) \in 0..minted /\ page[p].cookies.access \in 0..minted
  BY BrowserAssumption DEF BrowserTypeOK, Cookies, PageRequest, Leaving, RefreshToken

LEMMA TypesGrow ==
  ASSUME BrowserTypeOK, minted' = minted + 1
  PROVE  /\ Cookies \subseteq Cookies' /\ PageRequest \subseteq PageRequest'
         /\ Leaving \subseteq Leaving'
<1>1. 0..minted \subseteq 0..minted'
  BY PageTypes
<1>2. Cookies \subseteq Cookies'
  BY <1>1 DEF Cookies
<1>3. QED
  BY <1>1, <1>2 DEF PageRequest, Leaving

LEMMA TypesStay ==
  ASSUME UNCHANGED minted
  PROVE  Cookies' = Cookies /\ PageRequest' = PageRequest /\ Leaving' = Leaving
  BY DEF Cookies, PageRequest, Leaving

LEMMA NoPageType ==
  ASSUME NEW p \in Page, BrowserTypeOK
  PROVE  NoPage(p) \in PageRequest
  BY PageTypes DEF NoPage, NoCookies, PageRequest, Cookies

LEMMA BrowserStarts ==
  BrowserInit => BrowserInv
<1> SUFFICES ASSUME BrowserInit
             PROVE  BrowserInv
  OBVIOUS
<1> USE DEF BrowserInit
<1>1. BrowserTypeOK
  <2>1. jar \in Cookies
    BY DEF NoCookies, Cookies
  <2>2. \A p \in Page : NoPage(p) \in PageRequest
    <3>1. NoCookies \in Cookies /\ 0 \in 0..minted
      BY DEF NoCookies, Cookies
    <3>2. QED
      BY <3>1 DEF NoPage, PageRequest
  <2>3. page \in [Page -> PageRequest] /\ renewal \in [Page -> {"none", "called", "issued", "failed"}]
    BY <2>2
  <2>4. alarmed \in BOOLEAN /\ causes \subseteq {"late", "lost", "reordered", "signedOut"}
    BY Zenon
  <2>5. /\ held \subseteq 1..minted /\ voided \in 0..minted /\ aged \in 0..minted
        /\ minted \in 0..MaxTokens /\ sent \in 0..MaxPages
    BY BrowserAssumption
  <2>6. leaving \in Leaving
    BY <2>1 DEF NotLeaving, Leaving
  <2>7. QED
    BY <2>1, <2>3, <2>4, <2>5, <2>6 DEF BrowserTypeOK
<1>2. \A p \in Page : Waits(p)
  BY DEF Waits, NoPage, NoCookies, RefreshToken
<1>3. Orderly
  BY DEF Orderly, Issued, NoPage, NoCookies, RefreshToken
<1>4. QED
  BY <1>1, <1>2, <1>3 DEF BrowserInv, AlarmsHaveACause

LEMMA SignInSteps ==
  ASSUME BrowserInv, SignIn
  PROVE  BrowserInv'
<1> USE DEF BrowserInv, SignIn, Issue, story
<1>1. BrowserTypeOK'
  <2>1. jar' \in Cookies'
    BY PageTypes DEF Cookies
  <2>2. page' \in [Page -> PageRequest']
    BY TypesGrow DEF BrowserTypeOK
  <2>3. leaving' \in Leaving'
    BY TypesGrow DEF BrowserTypeOK
  <2>4. QED
    BY <2>1, <2>2, <2>3, PageTypes, BrowserAssumption DEF BrowserTypeOK
<1>2. (\A p \in Page : Waits(p))'
  BY DEF Waits, RefreshToken
<1>3. (causes = {} => Orderly)'
  BY PageTypes DEF Orderly, Issued, GoodFor, RefreshToken, Replacing
<1>4. AlarmsHaveACause'
  BY DEF AlarmsHaveACause
<1>5. QED
  BY <1>1, <1>2, <1>3, <1>4

LEMMA SignOutSteps ==
  ASSUME BrowserInv, SignOut \/ RetrySignOut
  PROVE  BrowserInv'
<1>1. PICK at \in {"sent", "again"} :
        /\ leaving.at \in {"no", "sent"} /\ leaving' = [at |-> at, cookies |-> jar]
        /\ jar.refresh # 0 => leaving'.cookies.refresh <= jar.refresh
        /\ UNCHANGED <<jar, page, renewal, held, voided, aged, minted, causes, alarmed>>
        /\ sent' \in 0..MaxPages
  BY PageTypes, BrowserAssumption DEF SignOut, RetrySignOut, BrowserInv, BrowserTypeOK,
     served, story
<1>2. BrowserTypeOK'
  <2>1. leaving' \in Leaving
    BY <1>1 DEF BrowserInv, BrowserTypeOK, Leaving
  <2>2. QED
    BY <1>1, <2>1, TypesStay DEF BrowserInv, BrowserTypeOK
<1>3. (\A p \in Page : Waits(p))'
  BY <1>1 DEF BrowserInv, Waits, RefreshToken
<1>4. (causes = {} => Orderly)'
  BY <1>1 DEF BrowserInv, Orderly, Issued, GoodFor, RefreshToken, Replacing
<1>5. QED
  BY <1>1, <1>2, <1>3, <1>4 DEF BrowserInv, AlarmsHaveACause

(* A session that ends on the way, with its token still in the browser. *)
LEMMA EndSteps ==
  ASSUME BrowserInv, EndSession
  PROVE  BrowserInv'
<1>0. PICK t : t = leaving.cookies.refresh
  OBVIOUS
<1>1. /\ leaving.at \in {"sent", "again"} /\ leaving' = [leaving EXCEPT !.at = "ended"]
      /\ held' = held \ {t}
      /\ causes' = causes \cup (IF t \in held /\ \E p \in Page : RefreshToken(p) = t
                                THEN {"signedOut"} ELSE {})
      /\ UNCHANGED <<jar, page, renewal, voided, aged, minted, sent, alarmed>>
  BY <1>0 DEF EndSession
<1>2. /\ leaving' \in Leaving /\ leaving'.at = "ended"
      /\ leaving'.cookies = leaving.cookies /\ leaving'.cookies.refresh = t
  BY <1>0, <1>1 DEF BrowserInv, BrowserTypeOK, Leaving
<1>3. BrowserTypeOK'
  BY <1>1, <1>2, TypesStay DEF BrowserInv, BrowserTypeOK
<1>4. (\A p \in Page : Waits(p))'
  BY <1>1 DEF BrowserInv, Waits, RefreshToken
<1>5. (causes = {} => Orderly)'
  <2> SUFFICES ASSUME causes' = {}
               PROVE  Orderly'
    OBVIOUS
  <2>1. Orderly /\ (t \notin held \/ \A p \in Page : RefreshToken(p) # t)
    BY <1>1 DEF BrowserInv
  <2>2. \A s : GoodFor(s) => s = t \/ GoodFor(s)'
    BY <1>1 DEF GoodFor
  <2>3. \A s : Replacing(s) => Replacing(s)'
    BY <1>1 DEF Replacing, RefreshToken
  <2>4. Replacing(t)'
    BY <1>2 DEF Replacing
  <2>5. jar'.refresh # 0 => /\ (GoodFor(jar.refresh) \/ Replacing(jar.refresh))'
                           /\ leaving'.cookies.refresh <= jar'.refresh
    <3>1. PICK r : r = jar.refresh /\ r = jar'.refresh
      BY <1>1
    <3>2. r # 0 => (GoodFor(r) \/ Replacing(r)) /\ leaving.cookies.refresh <= r
      BY <2>1, <3>1 DEF Orderly
    <3>3. r = t => Replacing(r)'
      BY <1>2 DEF Replacing
    <3>4. r # 0 => (GoodFor(r) \/ Replacing(r))'
      BY <2>2, <2>3, <3>2, <3>3
    <3>5. QED
      BY <1>2, <3>1, <3>2, <3>4 DEF GoodFor, Replacing
  <2>6. ASSUME NEW p \in Page, Issued(p)', page'[p].issued # 0
        PROVE  /\ RefreshToken(p)' < page'[p].issued
               /\ (jar.refresh = RefreshToken(p) => GoodFor(page[p].issued))'
    <3>1. Issued(p) /\ page'[p] = page[p] /\ RefreshToken(p)' = RefreshToken(p)
      BY <1>1, <2>6 DEF Issued, RefreshToken
    <3>2. PICK n : n = page[p].issued
      OBVIOUS
    <3>3. /\ RefreshToken(p) < n
          /\ jar.refresh = RefreshToken(p) => GoodFor(n)
          /\ jar.refresh # 0 => t <= jar.refresh
      BY <1>0, <2>1, <2>6, <3>1, <3>2 DEF Orderly
    <3>4. RefreshToken(p) # 0
      BY <3>1 DEF BrowserInv, Waits, Issued
    <3>5. jar.refresh = RefreshToken(p) => n # t
      BY <1>0, <3>2, <3>3, <3>4, PageTypes DEF BrowserInv
    <3>6. jar.refresh = RefreshToken(p) => GoodFor(n)'
      BY <2>2, <3>3, <3>5
    <3>7. QED
      BY <1>1, <3>1, <3>2, <3>3, <3>6
  <2>7. ASSUME NEW p \in Page, renewal'[p] = "called"
        PROVE  GoodFor(RefreshToken(p))'
    <3>1. PICK r : r = RefreshToken(p) /\ r = RefreshToken(p)'
      BY <1>1 DEF RefreshToken
    <3>2. GoodFor(r) /\ (t \notin held \/ r # t)
      BY <1>1, <2>1, <2>7, <3>1 DEF Orderly
    <3>3. GoodFor(r)'
      BY <1>1, <3>2 DEF GoodFor
    <3>4. QED
      BY <3>1, <3>3 DEF GoodFor
  <2>8. \A p \in Page :
          /\ jar'.refresh # 0 => RefreshToken(p)' <= jar'.refresh
          /\ page'[p].at = "sent" => page'[p].excused \/ RefreshToken(p)' <= voided'
    BY <1>1, <2>1 DEF Orderly, RefreshToken
  <2>9. QED
    BY <2>5, <2>6, <2>7, <2>8 DEF Orderly
<1>6. QED
  BY <1>1, <1>3, <1>4, <1>5 DEF BrowserInv, AlarmsHaveACause

LEMMA LeftSteps ==
  ASSUME BrowserInv, SignedOut \/ SignOutFails
  PROVE  BrowserInv'
<1>1. /\ leaving' = NotLeaving
      /\ jar' = NoCookies \/ jar' = [jar EXCEPT !.access = 0]
      /\ causes' = causes \/ causes' = causes \cup {"lost"}
      /\ causes' = {} => jar' = NoCookies \/ leaving.at # "ended"
      /\ UNCHANGED <<page, renewal, held, voided, aged, minted, sent, alarmed>>
  BY DEF SignedOut, SignOutFails, served, story
<1>2. BrowserTypeOK'
  <2>1. NoCookies \in Cookies /\ jar' \in Cookies
    BY <1>1, PageTypes DEF BrowserInv, BrowserTypeOK, NoCookies, Cookies
  <2>2. leaving' \in Leaving
    BY <1>1, <2>1 DEF NotLeaving, Leaving
  <2>3. causes' \subseteq {"late", "lost", "reordered", "signedOut"}
    BY <1>1 DEF BrowserInv, BrowserTypeOK
  <2>4. QED
    BY <1>1, <2>1, <2>2, <2>3, TypesStay DEF BrowserInv, BrowserTypeOK
<1>3. (\A p \in Page : Waits(p))'
  BY <1>1 DEF BrowserInv, Waits, RefreshToken
<1>4. (causes = {} => Orderly)'
  <2> SUFFICES ASSUME causes' = {}
               PROVE  Orderly'
    OBVIOUS
  <2>1. Orderly
    BY <1>1 DEF BrowserInv
  <2>2. jar'.refresh = 0 \/ (jar'.refresh = jar.refresh /\ leaving.at # "ended")
    BY <1>1 DEF BrowserInv, BrowserTypeOK, Cookies, NoCookies
  <2>3. leaving'.cookies.refresh = 0
    BY <1>1 DEF NotLeaving, NoCookies
  <2>4. \A p \in Page : RefreshToken(p) # 0 => RefreshToken(p) \in Nat
    BY PageTypes DEF BrowserInv
  <2>5. QED
    BY <1>1, <2>1, <2>2, <2>3, <2>4, PageTypes
    DEF BrowserInv, Orderly, Issued, GoodFor, RefreshToken, Replacing, Waits
<1>5. QED
  BY <1>1, <1>2, <1>3, <1>4 DEF BrowserInv, AlarmsHaveACause

LEMMA CookieSteps ==
  ASSUME BrowserInv, ClearSession \/ Age
  PROVE  BrowserInv'
<1> USE DEF BrowserInv, ClearSession, Age, served, story
<1>1. BrowserTypeOK'
  <2>1. jar' \in Cookies'
    BY PageTypes DEF BrowserTypeOK, Cookies, NoCookies
  <2>2. QED
    BY <2>1, PageTypes, TypesStay DEF BrowserTypeOK
<1>2. (\A p \in Page : Waits(p))'
  BY DEF Waits, RefreshToken
<1>3. (causes = {} => Orderly)'
  BY PageTypes DEF Orderly, Issued, GoodFor, RefreshToken, Replacing, BrowserTypeOK, Cookies
<1>4. AlarmsHaveACause'
  BY DEF AlarmsHaveACause
<1>5. QED
  BY <1>1, <1>2, <1>3, <1>4

LEMMA SendSteps ==
  ASSUME BrowserInv, NEW p \in Page, SendPage(p)
  PROVE  BrowserInv'
<1> USE DEF BrowserInv, SendPage, served, story
<1> DEFINE request == [NoPage(p) EXCEPT !.at = "sent", !.cookies = jar,
                         !.excused = jar.refresh \in held \/ Replacing(jar.refresh)]
<1>1. /\ request \in PageRequest /\ request.at = "sent" /\ request.cookies = jar
      /\ request.issued = 0
      /\ request.excused = (jar.refresh \in held \/ Replacing(jar.refresh))
  BY NoPageType DEF NoPage, NoCookies, PageRequest, BrowserTypeOK
<1>2. page' = [page EXCEPT ![p] = request]
  OBVIOUS
<1> HIDE DEF request
<1>3. BrowserTypeOK'
  <2>1. sent' \in 0..MaxPages
    BY PageTypes, BrowserAssumption DEF BrowserTypeOK
  <2>2. page' \in [Page -> PageRequest']
    BY <1>1, <1>2, TypesStay DEF BrowserTypeOK
  <2>3. QED
    BY <2>1, <2>2, TypesStay DEF BrowserTypeOK
<1>4. (\A q \in Page : Waits(q))'
  BY <1>1, <1>2, PageTypes DEF Waits, RefreshToken, BrowserTypeOK
<1>5. (causes = {} => Orderly)'
  <2> SUFFICES ASSUME causes' = {}
               PROVE  Orderly'
    OBVIOUS
  <2>1. Orderly /\ jar' = jar /\ held' = held /\ voided' = voided /\ renewal' = renewal
    OBVIOUS
  <2>2. \A q \in Page : q # p => page'[q] = page[q]
    BY <1>2
  <2>3. page'[p] = request /\ renewal[p] = "none" /\ RefreshToken(p) = 0
    BY <1>2 DEF BrowserTypeOK, Waits
  <2>4. \A t : t # 0 /\ Replacing(t) => Replacing(t)'
    BY <2>1, <2>2, <2>3 DEF Replacing, RefreshToken
  <2>5. RefreshToken(p)' = jar.refresh
    BY <1>1, <2>3 DEF RefreshToken
  <2>6. request.excused \/ jar.refresh <= voided
    BY <1>1, <2>1 DEF Orderly, GoodFor
  <2>7. QED
    BY <1>1, <2>1, <2>2, <2>3, <2>4, <2>5, <2>6, PageTypes DEF Orderly, Issued, GoodFor, RefreshToken
<1>6. AlarmsHaveACause'
  BY DEF AlarmsHaveACause
<1>7. QED
  BY <1>3, <1>4, <1>5, <1>6
(* A request that is over leaves the others as they were. *)
LEMMA RequestEnds ==
  ASSUME BrowserInv, NEW p \in Page, page[p].at \in {"sent", "answered"},
         page' = [page EXCEPT ![p] = NoPage(p)], UNCHANGED renewal
  PROVE  /\ renewal[p] = "none" /\ page'[p].at = "idle" /\ RefreshToken(p)' = 0
         /\ page'[p].issued = 0
         /\ \A q \in Page : q # p => page'[q] = page[q] /\ RefreshToken(q)' = RefreshToken(q)
         /\ \A q \in Page : Waits(q)'
<1>1. renewal[p] = "none"
  BY DEF BrowserInv, Waits
<1>2. page'[p] = NoPage(p) /\ \A q \in Page : q # p => page'[q] = page[q]
  BY DEF BrowserInv, BrowserTypeOK
<1>3. /\ page'[p].at = "idle" /\ RefreshToken(p)' = 0 /\ page'[p].issued = 0
      /\ \A q \in Page : q # p => RefreshToken(q)' = RefreshToken(q)
  BY <1>2 DEF NoPage, NoCookies, RefreshToken
<1>4. \A q \in Page : Waits(q)'
  BY <1>1, <1>2, <1>3, PageTypes DEF BrowserInv, Waits
<1>5. QED
  BY <1>1, <1>2, <1>3, <1>4

LEMMA FetchSteps ==
  ASSUME BrowserInv, NEW p \in Page, FetchUser(p)
  PROVE  BrowserInv'
<1>1. /\ page' = [page EXCEPT ![p] = NoPage(p)] /\ page[p].at = "sent"
      /\ UNCHANGED <<jar, leaving, renewal, held, voided, aged, minted, sent, causes, alarmed>>
  BY DEF FetchUser, served, story
<1>2. BrowserTypeOK'
  BY <1>1, NoPageType, TypesStay DEF BrowserInv, BrowserTypeOK
<1>5. /\ renewal[p] = "none" /\ page'[p].at = "idle" /\ page'[p].cookies.refresh = 0
      /\ page'[p].issued = 0
      /\ \A q \in Page : q # p => page'[q] = page[q]
  BY <1>1, RequestEnds DEF RefreshToken
<1>3. (causes = {} => Orderly)'
  <2> SUFFICES ASSUME causes' = {}
               PROVE  Orderly'
    OBVIOUS
  <2>1. Orderly
    BY <1>1 DEF BrowserInv
  <2>2. \A t : t # 0 /\ Replacing(t) => Replacing(t)'
    BY <1>1, <1>5 DEF Replacing, RefreshToken
  <2>3. \A q \in Page : Issued(q)' => Issued(q) /\ page'[q] = page[q]
    BY <1>1, RequestEnds DEF Issued
  <2>4. \A q \in Page : jar.refresh # 0 => RefreshToken(q)' <= jar.refresh
    BY <1>1, <1>5, <2>1, PageTypes DEF Orderly, BrowserInv, RefreshToken
  <2>5. \A q \in Page : page'[q].at # "idle" => page'[q] = page[q] /\ RefreshToken(q)' = RefreshToken(q)
    BY <1>1, RequestEnds
  <2>6. \A q \in Page : renewal[q] = "called" => RefreshToken(q)' = RefreshToken(q)
    BY <1>1, RequestEnds
  <2>7. QED
    BY <1>1, <2>1, <2>2, <2>3, <2>4, <2>5, <2>6, RequestEnds DEF Orderly, GoodFor, Issued, RefreshToken
<1>4. QED
  BY <1>1, <1>2, <1>3, RequestEnds DEF BrowserInv, AlarmsHaveACause

LEMMA LoseSteps ==
  ASSUME BrowserInv, NEW p \in Page, LoseAnswer(p)
  PROVE  BrowserInv'
<1>1. /\ page' = [page EXCEPT ![p] = NoPage(p)] /\ page[p].at = "answered"
      /\ causes' = causes \cup {"lost"}
      /\ UNCHANGED <<jar, leaving, renewal, held, voided, aged, minted, sent, alarmed>>
  BY DEF LoseAnswer, served
<1>2. BrowserTypeOK'
  BY <1>1, NoPageType, TypesStay DEF BrowserInv, BrowserTypeOK
<1>3. QED
  BY <1>1, <1>2, RequestEnds DEF BrowserInv, AlarmsHaveACause

LEMMA WriteSteps ==
  ASSUME BrowserInv, NEW p \in Page, WriteCookies(p)
  PROVE  BrowserInv'
<1>0. PICK n : n = page[p].issued
  OBVIOUS
<1>1. /\ page' = [page EXCEPT ![p] = NoPage(p)] /\ page[p].at = "answered"
      /\ jar' = [refresh |-> n, access |-> n]
      /\ causes' = causes \cup (IF n # 0 /\ jar.refresh \notin {n, RefreshToken(p)}
                                THEN {"reordered"} ELSE {})
      /\ UNCHANGED <<leaving, renewal, held, voided, aged, minted, sent, alarmed>>
  BY <1>0 DEF WriteCookies, served
<1>2. n \in 0..minted
  BY <1>0, PageTypes DEF BrowserInv
<1>3. BrowserTypeOK'
  <2>1. jar' \in Cookies
    BY <1>1, <1>2 DEF Cookies
  <2>2. causes' \subseteq {"late", "lost", "reordered", "signedOut"}
    BY <1>1 DEF BrowserInv, BrowserTypeOK
  <2>3. QED
    BY <1>1, <2>1, <2>2, NoPageType, TypesStay DEF BrowserInv, BrowserTypeOK
<1>6. /\ renewal[p] = "none" /\ page'[p].at = "idle" /\ page'[p].cookies.refresh = 0
      /\ page'[p].issued = 0
      /\ \A q \in Page : q # p => page'[q] = page[q]
  BY <1>1, RequestEnds DEF RefreshToken
<1>4. (causes = {} => Orderly)'
  <2> SUFFICES ASSUME causes' = {}
               PROVE  Orderly'
    OBVIOUS
  <2>1. Orderly /\ (n = 0 \/ jar.refresh \in {n, RefreshToken(p)})
    BY <1>1 DEF BrowserInv
  <2>2. jar'.refresh = n
    BY <1>1
  <2>3. Issued(p) /\ (n # 0 => RefreshToken(p) < n /\ (jar.refresh = RefreshToken(p) => GoodFor(n)))
    BY <1>0, <1>1, <2>1 DEF Issued, Orderly
  <2>10. n # 0 => \A q \in Page : RefreshToken(q) <= n /\ (RefreshToken(q) = n => jar.refresh = n)
    <3>1. RefreshToken(p) # 0
      BY <1>1 DEF BrowserInv, Waits
    <3>2. \A q \in Page : jar.refresh # 0 => RefreshToken(q) <= jar.refresh
      BY <2>1 DEF Orderly
    <3>3. QED
      BY <1>2, <2>1, <2>3, <3>1, <3>2, PageTypes DEF BrowserInv
  <2>4. n # 0 => (GoodFor(n) \/ Replacing(n))'
    <3>1. CASE jar.refresh = n /\ n # 0 /\ Replacing(n)
      <4>1. CASE leaving.at = "ended" /\ leaving.cookies.refresh = n
        BY <1>1, <4>1 DEF Replacing
      <4>2. CASE ~(leaving.at = "ended" /\ leaving.cookies.refresh = n)
        <5>1. PICK q \in Page :
                RefreshToken(q) = n /\ (renewal[q] # "none" \/ page[q].at = "answered")
          BY <3>1, <4>2 DEF Replacing
        <5>2. q # p
          BY <2>3, <3>1, <5>1, PageTypes DEF BrowserInv
        <5>3. QED
          BY <1>1, <5>1, <5>2, RequestEnds DEF Replacing
      <4>3. QED
        BY <4>1, <4>2
    <3>2. CASE GoodFor(n)
      BY <1>1, <3>2 DEF GoodFor
    <3>3. QED
      BY <2>1, <2>3, <3>1, <3>2 DEF Orderly
  <2>5. \A q \in Page : n # 0 => RefreshToken(q)' <= n
    BY <1>1, <1>2, <1>6, <2>10 DEF RefreshToken
  <2>6. \A q \in Page : Issued(q)' => q # p /\ Issued(q) /\ page'[q] = page[q]
    BY <1>1, RequestEnds DEF Issued
  <2>7. ASSUME NEW q \in Page, Issued(q)', page'[q].issued # 0
        PROVE  /\ RefreshToken(q)' < page'[q].issued
               /\ n = RefreshToken(q)' => GoodFor(page[q].issued)'
    <3>1. /\ q # p /\ Issued(q) /\ page'[q] = page[q] /\ RefreshToken(q)' = RefreshToken(q)
          /\ RefreshToken(q) # 0
      BY <1>1, <2>6, <2>7, RequestEnds DEF BrowserInv, Waits, Issued
    <3>2. RefreshToken(q) < page[q].issued /\ (jar.refresh = RefreshToken(q) => GoodFor(page[q].issued))
      BY <2>1, <2>7, <3>1 DEF Orderly
    <3>3. n = RefreshToken(q) => jar.refresh = n
      BY <2>10, <3>1
    <3>4. QED
      BY <1>1, <3>1, <3>2, <3>3 DEF GoodFor
  <2>8. \A q \in Page :
          /\ page'[q].at = "sent" => page'[q].excused \/ RefreshToken(q)' <= voided'
          /\ renewal'[q] = "called" => GoodFor(RefreshToken(q))'
    BY <1>1, <2>1, RequestEnds DEF Orderly, GoodFor
  <2>11. n # 0 => leaving.cookies.refresh <= n
    <3>1. RefreshToken(p) # 0
      BY <1>1 DEF BrowserInv, Waits
    <3>2. jar.refresh # 0 => leaving.cookies.refresh <= jar.refresh
      BY <2>1 DEF Orderly
    <3>3. QED
      BY <1>2, <2>1, <2>3, <3>1, <3>2, PageTypes DEF BrowserInv
  <2>12. jar'.refresh # 0 => leaving'.cookies.refresh <= jar'.refresh
    BY <1>1, <2>2, <2>11
  <2>9. QED
    BY <2>2, <2>4, <2>5, <2>7, <2>8, <2>12 DEF Orderly
<1>5. QED
  BY <1>1, <1>3, <1>4, RequestEnds DEF BrowserInv, AlarmsHaveACause

LEMMA RefreshSteps ==
  ASSUME BrowserInv, NEW p \in Page, Refresh(p)
  PROVE  BrowserInv'
<1>1. PICK q \in Page :
        /\ page[p].at = "sent" /\ page' = [page EXCEPT ![p].at = "waiting", ![p].on = q]
        /\ \/ /\ q = p
              /\ \A w \in Page : renewal[w] # "none" => RefreshToken(w) # RefreshToken(p)
              /\ renewal' = [renewal EXCEPT ![p] = "called"]
              /\ causes' = causes \cup (IF RefreshToken(p) \notin held /\ page[p].excused
                                        THEN {"late"} ELSE {})
           \/ /\ renewal[q] # "none" /\ RefreshToken(q) = RefreshToken(p)
              /\ UNCHANGED <<renewal, causes>>
        /\ UNCHANGED <<jar, leaving, held, voided, aged, minted, sent, alarmed>>
  BY DEF Refresh, served
<1>2. /\ renewal[p] = "none"
      /\ page'[p].at = "waiting" /\ page'[p].on = q /\ page'[p].cookies = page[p].cookies
      /\ \A w \in Page : w # p => page'[w] = page[w] /\ renewal'[w] = renewal[w]
      /\ renewal'[p] \in {"none", "called"}
  BY <1>1, PageTypes DEF BrowserInv, BrowserTypeOK, Waits, PageRequest
<1>3. BrowserTypeOK'
  <2>1. page' \in [Page -> PageRequest]
    <3>1. [page[p] EXCEPT !.at = "waiting", !.on = q] \in PageRequest
      <4>1. page[p] \in PageRequest /\ q \in Page
        BY PageTypes DEF BrowserInv
      <4>2. QED
        BY <4>1 DEF PageRequest
    <3>2. page' = [page EXCEPT ![p] = [page[p] EXCEPT !.at = "waiting", !.on = q]]
      BY <1>1 DEF BrowserInv, BrowserTypeOK
    <3>3. QED
      BY <3>1, <3>2 DEF BrowserInv, BrowserTypeOK
  <2>2. causes' \subseteq {"late", "lost", "reordered", "signedOut"}
    BY <1>1 DEF BrowserInv, BrowserTypeOK
  <2>3. renewal' \in [Page -> {"none", "called", "issued", "failed"}]
    BY <1>1 DEF BrowserInv, BrowserTypeOK
  <2>4. QED
    BY <1>1, <2>1, <2>2, <2>3, TypesStay DEF BrowserInv, BrowserTypeOK
<1>4. (\A w \in Page : Waits(w))'
  BY <1>1, <1>2, PageTypes DEF BrowserInv, BrowserTypeOK, Waits, RefreshToken
<1>5. (causes = {} => Orderly)'
  <2> SUFFICES ASSUME causes' = {}
               PROVE  Orderly'
    OBVIOUS
  <2>1. Orderly
    BY <1>1 DEF BrowserInv
  <2>2. \A t : Replacing(t) => Replacing(t)'
    BY <1>1, <1>2 DEF Replacing, RefreshToken
  <2>3. \A w \in Page : Issued(w)' => w # p /\ Issued(w)
    BY <1>1, <1>2 DEF Issued, BrowserInv, BrowserTypeOK
  <2>4. renewal'[p] = "called" => GoodFor(RefreshToken(p))
    BY <1>1, <1>2, <2>1 DEF Orderly, GoodFor
  <2>5. \A w \in Page : /\ RefreshToken(w)' = RefreshToken(w)
                        /\ w # p => page'[w] = page[w]
                        /\ page'[w].at = "sent" => w # p
                        /\ renewal'[w] = "called" => GoodFor(RefreshToken(w))
    BY <1>2, <2>1, <2>4 DEF Orderly, RefreshToken
  <2>6. \A t : GoodFor(t) => GoodFor(t)'
    BY <1>1 DEF GoodFor
  <2>7. \A w \in Page :
          /\ jar'.refresh # 0 => RefreshToken(w)' <= jar'.refresh
          /\ page'[w].at = "sent" => page'[w].excused \/ RefreshToken(w)' <= voided'
          /\ renewal'[w] = "called" => GoodFor(RefreshToken(w))'
    BY <1>1, <2>1, <2>5 DEF Orderly, GoodFor
  <2>8. ASSUME NEW w \in Page, Issued(w)', page'[w].issued # 0
        PROVE  /\ RefreshToken(w)' < page'[w].issued
               /\ (jar.refresh = RefreshToken(w) => GoodFor(page[w].issued))'
    <3>1. Issued(w) /\ page'[w] = page[w] /\ RefreshToken(w)' = RefreshToken(w)
      BY <2>3, <2>5, <2>8
    <3>2. /\ RefreshToken(w) < page[w].issued
          /\ jar.refresh = RefreshToken(w) => GoodFor(page[w].issued)
      BY <2>1, <2>8, <3>1 DEF Orderly
    <3>3. QED
      BY <1>1, <3>1, <3>2 DEF GoodFor
  <2>9. (jar.refresh # 0 => GoodFor(jar.refresh) \/ Replacing(jar.refresh))'
    BY <1>1, <2>1, <2>2 DEF Orderly, GoodFor
  <2>10. jar'.refresh # 0 => leaving'.cookies.refresh <= jar'.refresh
    BY <1>1, <2>1 DEF Orderly
  <2>11. QED
    BY <2>7, <2>8, <2>9, <2>10 DEF Orderly
<1>6. QED
  BY <1>1, <1>3, <1>4, <1>5 DEF BrowserInv, AlarmsHaveACause

LEMMA RotateSteps ==
  ASSUME BrowserInv, NEW p \in Page, RotateToken(p)
  PROVE  BrowserInv'
<1>0. PICK n : n = minted + 1
  OBVIOUS
<1>1. /\ renewal[p] = "called" /\ RefreshToken(p) \in held /\ minted < MaxTokens
      /\ minted' = n /\ held' = (held \ {RefreshToken(p)}) \cup {n}
      /\ renewal' = [renewal EXCEPT ![p] = "issued"]
      /\ page' = [page EXCEPT ![p].issued = n]
      /\ UNCHANGED <<jar, leaving, voided, aged, sent, causes, alarmed>>
  BY <1>0 DEF RotateToken, story
<1>2. /\ renewal'[p] = "issued"
      /\ page'[p].at = "waiting" /\ page'[p].on = p /\ page'[p].cookies = page[p].cookies
      /\ page'[p].issued = n /\ page'[p].excused = page[p].excused
      /\ \A w \in Page : w # p => page'[w] = page[w] /\ renewal'[w] = renewal[w]
  BY <1>1, PageTypes DEF BrowserInv, BrowserTypeOK, Waits, PageRequest
<1>3. BrowserTypeOK'
  <2>1. page' \in [Page -> PageRequest']
    <3>1. [page[p] EXCEPT !.issued = n] \in PageRequest'
      <4>1. n \in 0..minted' /\ page[p] \in PageRequest'
        BY <1>0, <1>1, PageTypes, TypesGrow DEF BrowserInv
      <4>2. QED
        BY <4>1 DEF PageRequest
    <3>2. QED
      BY <1>0, <1>1, <3>1, TypesGrow DEF BrowserInv, BrowserTypeOK
  <2>2. held' \subseteq 1..minted' /\ minted' \in 0..MaxTokens
    BY <1>0, <1>1, PageTypes, BrowserAssumption DEF BrowserInv, BrowserTypeOK
  <2>3. /\ jar' \in Cookies' /\ leaving' \in Leaving'
        /\ voided' \in 0..minted' /\ aged' \in 0..minted'
    BY <1>0, <1>1, PageTypes, TypesGrow DEF BrowserInv, BrowserTypeOK
  <2>4. QED
    BY <1>1, <2>1, <2>2, <2>3 DEF BrowserInv, BrowserTypeOK
<1>4. (\A w \in Page : Waits(w))'
  BY <1>1, <1>2, PageTypes DEF BrowserInv, BrowserTypeOK, Waits, RefreshToken
<1>5. (causes = {} => Orderly)'
  <2> SUFFICES ASSUME causes' = {}
               PROVE  Orderly'
    OBVIOUS
  <2>1. Orderly
    BY <1>1 DEF BrowserInv
  <2>2. \A t : Replacing(t) => Replacing(t)'
    BY <1>1, <1>2 DEF Replacing, RefreshToken
  <2>3. Replacing(RefreshToken(p))'
    BY <1>1, <1>2 DEF Replacing, RefreshToken
  <2>4. \A t : GoodFor(t) => t = RefreshToken(p) \/ GoodFor(t)'
    BY <1>1 DEF GoodFor
  <2>5. (jar.refresh # 0 => GoodFor(jar.refresh) \/ Replacing(jar.refresh))'
    <3>1. PICK t : t = jar.refresh /\ t = jar'.refresh
      BY <1>1
    <3>2. t # 0 => GoodFor(t) \/ Replacing(t)
      BY <2>1, <3>1 DEF Orderly
    <3>3. PICK r : r = RefreshToken(p)
      OBVIOUS
    <3>4. t = r => Replacing(t)'
      BY <1>1, <1>2, <3>3 DEF Replacing, RefreshToken
    <3>5. QED
      BY <2>2, <2>4, <3>1, <3>2, <3>3, <3>4
  <2>6. ASSUME NEW q \in Page, Issued(q)', page'[q].issued # 0
        PROVE  /\ RefreshToken(q)' < page'[q].issued
               /\ (jar.refresh = RefreshToken(q) => GoodFor(page[q].issued))'
    <3>1. CASE q = p
      <4>1. page'[p].issued = n /\ RefreshToken(p)' = RefreshToken(p) /\ n \in held'
        BY <1>1, <1>2 DEF RefreshToken
      <4>2. RefreshToken(p) < n
        BY <1>0, PageTypes DEF BrowserInv
      <4>3. QED
        BY <3>1, <4>1, <4>2 DEF GoodFor
    <3>2. CASE q # p
      <4>1. Issued(q) /\ page'[q] = page[q] /\ RefreshToken(q)' = RefreshToken(q)
        BY <1>1, <1>2, <2>6, <3>2 DEF Issued, RefreshToken
      <4>2. PICK m : m = page[q].issued
        OBVIOUS
      <4>3. /\ RefreshToken(q) < m
            /\ jar.refresh = RefreshToken(q) => GoodFor(m)
            /\ jar.refresh # 0 => RefreshToken(p) <= jar.refresh
        BY <2>1, <2>6, <4>1, <4>2 DEF Orderly
      <4>4. RefreshToken(q) # 0
        BY <1>1, <4>1 DEF BrowserInv, Waits, Issued
      <4>5. jar.refresh = RefreshToken(q) => m # RefreshToken(p)
        BY <4>2, <4>3, <4>4, PageTypes DEF BrowserInv
      <4>6. jar.refresh = RefreshToken(q) => GoodFor(m)'
        BY <2>4, <4>3, <4>5
      <4>7. QED
        BY <1>1, <4>1, <4>2, <4>3, <4>6
    <3>3. QED
      BY <3>1, <3>2
  <2>7. ASSUME NEW q \in Page, renewal'[q] = "called"
        PROVE  GoodFor(RefreshToken(q))'
    <3>1. q # p /\ renewal[q] = "called"
      BY <1>1, <1>2, <2>7
    <3>2. PICK r : r = RefreshToken(q)
      OBVIOUS
    <3>3. RefreshToken(q)' = r
      BY <1>2, <3>1, <3>2 DEF RefreshToken
    <3>4. GoodFor(r) /\ r # RefreshToken(p)
      BY <1>1, <2>1, <3>1, <3>2 DEF Orderly, BrowserInv, Waits
    <3>5. GoodFor(r)'
      BY <2>4, <3>4
    <3>6. QED
      BY <3>3, <3>5 DEF GoodFor
  <2>8. \A q \in Page :
          /\ jar'.refresh # 0 => RefreshToken(q)' <= jar'.refresh
          /\ page'[q].at = "sent" => page'[q].excused \/ RefreshToken(q)' <= voided'
    BY <1>1, <1>2, <2>1 DEF Orderly, RefreshToken
  <2>9. jar'.refresh # 0 => leaving'.cookies.refresh <= jar'.refresh
    BY <1>1, <2>1 DEF Orderly
  <2>10. QED
    BY <2>5, <2>6, <2>7, <2>8, <2>9 DEF Orderly
<1>6. QED
  BY <1>1, <1>3, <1>4, <1>5 DEF BrowserInv, AlarmsHaveACause

LEMMA FailSteps ==
  ASSUME BrowserInv, NEW p \in Page, RefuseRevoked(p) \/ Outage(p)
  PROVE  BrowserInv'
<1>1. /\ renewal[p] \in {"called", "issued"} /\ renewal' = [renewal EXCEPT ![p] = "failed"]
      /\ UNCHANGED <<jar, leaving, page, held, voided, aged, minted, sent, causes, alarmed>>
  BY DEF RefuseRevoked, Outage, served, story
<1>2. renewal'[p] = "failed" /\ \A q \in Page : q # p => renewal'[q] = renewal[q]
  BY <1>1 DEF BrowserInv, BrowserTypeOK
<1>3. BrowserTypeOK'
  BY <1>1, TypesStay DEF BrowserInv, BrowserTypeOK
<1>4. (\A q \in Page : Waits(q))'
  BY <1>1, <1>2 DEF BrowserInv, Waits, RefreshToken
<1>5. (causes = {} => Orderly)'
  BY <1>1, <1>2 DEF BrowserInv, Orderly, Issued, GoodFor, RefreshToken, Replacing
<1>6. QED
  BY <1>1, <1>3, <1>4, <1>5 DEF BrowserInv, AlarmsHaveACause

(* A refresh that an orderly past led to is not taken for a replay. *)
LEMMA ReuseSteps ==
  ASSUME BrowserInv, NEW p \in Page, DetectReuse(p)
  PROVE  BrowserInv'
<1>1. /\ renewal[p] = "called" /\ ~GoodFor(RefreshToken(p))
      /\ held' = {} /\ voided' = minted /\ alarmed' = TRUE
      /\ renewal' = [renewal EXCEPT ![p] = "failed"]
      /\ UNCHANGED <<jar, leaving, page, aged, minted, sent, causes>>
  BY PageTypes DEF DetectReuse, GoodFor, BrowserInv
<1>2. causes # {}
  BY <1>1 DEF BrowserInv, Orderly
<1>3. renewal'[p] = "failed" /\ \A q \in Page : q # p => renewal'[q] = renewal[q]
  BY <1>1 DEF BrowserInv, BrowserTypeOK
<1>4. BrowserTypeOK'
  BY <1>1, TypesStay, PageTypes DEF BrowserInv, BrowserTypeOK
<1>5. (\A q \in Page : Waits(q))'
  BY <1>1, <1>3 DEF BrowserInv, Waits, RefreshToken
<1>6. QED
  BY <1>1, <1>2, <1>4, <1>5 DEF BrowserInv, AlarmsHaveACause

LEMMA SettleSteps ==
  ASSUME BrowserInv, NEW p \in Page, Settle(p)
  PROVE  BrowserInv'
<1> DEFINE Waiting(q) == page[q].at = "waiting" /\ page[q].on = p
<1>0. PICK n : n = IF renewal[p] = "issued" THEN page[p].issued ELSE 0
  OBVIOUS
<1>1. /\ renewal[p] \in {"issued", "failed"} /\ renewal' = [renewal EXCEPT ![p] = "none"]
      /\ page' = [q \in Page |-> IF Waiting(q)
                                 THEN [page[q] EXCEPT !.at = "answered", !.issued = n]
                                 ELSE page[q]]
      /\ UNCHANGED <<jar, leaving, held, voided, aged, minted, sent, causes, alarmed>>
  BY <1>0 DEF Settle, served, story
<1>10. jar' = jar /\ held' = held /\ voided' = voided
  BY <1>1
<1>2. n \in 0..minted
  BY <1>0, PageTypes DEF BrowserInv
<1>3. \A q \in Page :
        /\ page[q] \in PageRequest /\ page'[q] \in PageRequest
        /\ Waiting(q) => /\ page'[q].at = "answered" /\ page'[q].issued = n
                         /\ page'[q].cookies = page[q].cookies
        /\ ~Waiting(q) => page'[q] = page[q]
  <2> SUFFICES ASSUME NEW q \in Page
               PROVE  /\ page[q] \in PageRequest /\ page'[q] \in PageRequest
                      /\ Waiting(q) => /\ page'[q].at = "answered" /\ page'[q].issued = n
                                       /\ page'[q].cookies = page[q].cookies
                      /\ ~Waiting(q) => page'[q] = page[q]
    OBVIOUS
  <2>1. page[q] \in PageRequest
    BY PageTypes DEF BrowserInv
  <2>2. QED
    BY <1>1, <1>2, <2>1 DEF PageRequest
<1>4. renewal'[p] = "none" /\ \A q \in Page : q # p => renewal'[q] = renewal[q]
  BY <1>1 DEF BrowserInv, BrowserTypeOK
<1>5. /\ Waiting(p) /\ \A q \in Page : Waiting(q) => RefreshToken(q) = RefreshToken(p)
      /\ \A q \in Page : RefreshToken(q)' = RefreshToken(q)
  <2>1. Waiting(p) /\ \A q \in Page : Waiting(q) => RefreshToken(q) = RefreshToken(p)
    BY <1>1 DEF BrowserInv, Waits
  <2>2. \A q \in Page : page'[q].cookies = page[q].cookies
    BY <1>3
  <2>3. QED
    BY <2>1, <2>2 DEF RefreshToken
<1>6. BrowserTypeOK'
  <2>1. page' \in [Page -> PageRequest]
    BY <1>1, <1>3
  <2>2. QED
    BY <1>1, <2>1, TypesStay DEF BrowserInv, BrowserTypeOK
<1>7. (\A q \in Page : Waits(q))'
  <2> SUFFICES ASSUME NEW q \in Page
               PROVE  Waits(q)'
    OBVIOUS
  <2>1. \A w \in Page : page'[w].at = "waiting" =>
          ~Waiting(w) /\ page'[w] = page[w] /\ page[w].on # p
    BY <1>3
  <2>2. \A w \in Page : renewal'[w] # "none" => w # p /\ renewal[w] # "none" /\ ~Waiting(w)
    BY <1>4 DEF BrowserInv, Waits
  <2>3. page'[q].at = "idle" <=> page[q].at = "idle"
    BY <1>3
  <2> HIDE DEF Waiting
  <2>4. page'[q].at = "waiting" =>
          /\ renewal'[page'[q].on] # "none"
          /\ page'[q].on \in Page /\ RefreshToken(page[q].on) = RefreshToken(q)
          /\ page'[q].on = page[q].on
    BY <1>4, <2>1, PageTypes DEF BrowserInv, Waits
  <2>5. renewal'[q] # "none" => page'[q].at = "waiting" /\ page'[q].on = q
    BY <1>3, <2>2 DEF BrowserInv, Waits
  <2>6. \A w \in Page : renewal'[q] # "none" /\ renewal'[w] # "none"
                          /\ RefreshToken(q) = RefreshToken(w) => q = w
    BY <2>2 DEF BrowserInv, Waits
  <2>7. page[q].at = "idle" <=> RefreshToken(q) = 0
    BY DEF BrowserInv, Waits
  <2>8. QED
    BY <1>5, <2>3, <2>4, <2>5, <2>6, <2>7 DEF Waits, RefreshToken
<1>8. (causes = {} => Orderly)'
  <2> SUFFICES ASSUME causes' = {}
               PROVE  Orderly'
    OBVIOUS
  <2>1. Orderly
    BY <1>1 DEF BrowserInv
  <2>2. \A t : Replacing(t) => Replacing(t)'
    <3> SUFFICES ASSUME NEW t, Replacing(t)
                 PROVE  Replacing(t)'
      OBVIOUS
    <3>1. CASE leaving.at = "ended" /\ leaving.cookies.refresh = t
      BY <1>1, <3>1 DEF Replacing
    <3>2. CASE ~(leaving.at = "ended" /\ leaving.cookies.refresh = t)
      <4>1. PICK q \in Page :
              RefreshToken(q) = t /\ (renewal[q] # "none" \/ page[q].at = "answered")
        BY <3>2 DEF Replacing
      <4>2. renewal'[q] # "none" \/ page'[q].at = "answered"
        BY <1>3, <1>4, <1>5, <4>1
      <4>3. RefreshToken(q)' = t
        BY <1>3, <1>5, <4>1 DEF RefreshToken
      <4>4. QED
        BY <4>2, <4>3 DEF Replacing
    <3>3. QED
      BY <3>1, <3>2
  <2>3. (jar.refresh # 0 => GoodFor(jar.refresh) \/ Replacing(jar.refresh))'
    BY <1>1, <2>1, <2>2 DEF Orderly, GoodFor
  <2>4. ASSUME NEW q \in Page, Issued(q)', page'[q].issued # 0
        PROVE  /\ RefreshToken(q)' < page'[q].issued
               /\ (jar.refresh = RefreshToken(q) => GoodFor(page[q].issued))'
    <3>1. CASE Waiting(q)
      <4>1. page'[q].issued = n /\ n # 0 /\ RefreshToken(q)' = RefreshToken(p)
        BY <1>3, <1>5, <2>4, <3>1
      <4>2. Issued(p) /\ n = page[p].issued
        BY <1>0, <1>1, <4>1 DEF Issued
      <4>3. RefreshToken(p) < n /\ (jar.refresh = RefreshToken(p) => GoodFor(n))
        BY <2>1, <4>1, <4>2 DEF Orderly
      <4>4. RefreshToken(q)' < page'[q].issued
        BY <4>1, <4>3
      <4>5. jar'.refresh = RefreshToken(q)' => GoodFor(n)
        BY <1>1, <4>1, <4>3
      <4>6. QED
        BY <1>10, <4>1, <4>4, <4>5 DEF GoodFor, RefreshToken
    <3>2. CASE ~Waiting(q)
      <4>1. Issued(q) /\ page'[q] = page[q] /\ RefreshToken(q)' = RefreshToken(q)
        BY <1>3, <1>4, <1>5, <2>4, <3>2 DEF Issued
      <4>2. /\ RefreshToken(q) < page[q].issued
            /\ jar.refresh = RefreshToken(q) => GoodFor(page[q].issued)
        BY <2>1, <2>4, <4>1 DEF Orderly
      <4>3. RefreshToken(q)' < page'[q].issued
        BY <4>1, <4>2
      <4>4. jar'.refresh = RefreshToken(q)' => GoodFor(page[q].issued)
        BY <1>1, <4>1, <4>2
      <4>5. QED
        BY <1>10, <4>1, <4>3, <4>4 DEF GoodFor, RefreshToken
    <3>3. QED
      BY <3>1, <3>2
  <2>5. \A q \in Page :
          /\ jar'.refresh # 0 => RefreshToken(q)' <= jar'.refresh
          /\ page'[q].at = "sent" => page'[q].excused \/ RefreshToken(q)' <= voided'
          /\ renewal'[q] = "called" => GoodFor(RefreshToken(q))'
    <3> SUFFICES ASSUME NEW q \in Page
                 PROVE  /\ jar'.refresh # 0 => RefreshToken(q)' <= jar'.refresh
                        /\ page'[q].at = "sent" => page'[q].excused \/ RefreshToken(q)' <= voided'
                        /\ renewal'[q] = "called" => GoodFor(RefreshToken(q))'
      OBVIOUS
    <3>1. page'[q].at = "sent" => page'[q] = page[q]
      BY <1>3
    <3>2. renewal'[q] = "called" => renewal[q] = "called"
      BY <1>4
    <3>3. GoodFor(RefreshToken(q))' = GoodFor(RefreshToken(q))
      BY <1>5, <1>10 DEF GoodFor
    <3>4. /\ jar.refresh # 0 => RefreshToken(q) <= jar.refresh
          /\ page[q].at = "sent" => page[q].excused \/ RefreshToken(q) <= voided
          /\ renewal[q] = "called" => GoodFor(RefreshToken(q))
      BY <2>1 DEF Orderly
    <3>5. RefreshToken(q)' = RefreshToken(q)
      BY <1>5
    <3>6. QED
      BY <1>10, <3>1, <3>2, <3>3, <3>4, <3>5
  <2>6. jar'.refresh # 0 => leaving'.cookies.refresh <= jar'.refresh
    BY <1>1, <2>1 DEF Orderly
  <2>7. QED
    BY <2>3, <2>4, <2>5, <2>6 DEF Orderly
<1>9. QED
  BY <1>1, <1>6, <1>7, <1>8 DEF BrowserInv, AlarmsHaveACause

LEMMA BrowserInvariant ==
  BrowserSpec => []BrowserInv
<1>1. BrowserInv /\ [BrowserNext]_browserVars => BrowserInv'
  <2>1. ASSUME BrowserInv, BrowserNext
        PROVE  BrowserInv'
    BY <2>1, SignInSteps, SignOutSteps, EndSteps, LeftSteps, CookieSteps, SendSteps, FetchSteps, RefreshSteps,
       RotateSteps, FailSteps, ReuseSteps, SettleSteps, WriteSteps, LoseSteps
    DEF BrowserNext
  <2>2. ASSUME BrowserInv, UNCHANGED browserVars
        PROVE  BrowserInv'
    <3>1. UNCHANGED <<jar, leaving, page, renewal, held, voided, aged, minted, sent, causes, alarmed>>
      BY <2>2 DEF browserVars, served, story
    <3>2. BrowserTypeOK'
      BY <2>2, <3>1, TypesStay DEF BrowserInv, BrowserTypeOK
    <3>5. (\A p \in Page : Waits(p))'
      BY <2>2, <3>1 DEF BrowserInv, Waits, RefreshToken
    <3>6. AlarmsHaveACause'
      BY <2>2, <3>1 DEF BrowserInv, AlarmsHaveACause
    <3>3. (causes = {} => Orderly)'
      BY <2>2, <3>1 DEF BrowserInv, Orderly, Issued, GoodFor, RefreshToken, Replacing
    <3>4. QED
      BY <3>2, <3>3, <3>5, <3>6 DEF BrowserInv
  <2>3. QED
    BY <2>1, <2>2
<1>2. QED
  BY <1>1, BrowserStarts, PTL DEF BrowserSpec

(* Type correctness of the cookies, the page requests and the sessions
   (proxy.ts, client.ts). *)
THEOREM BrowserTyped ==
  BrowserSpec => []BrowserTypeOK
<1>1. BrowserInv => BrowserTypeOK
  BY DEF BrowserInv
<1>2. QED
  BY <1>1, BrowserInvariant, PTL

(* However page requests, sign-ins and outages interleave, the API takes the
   browser for a thief only after one of the listed mishaps (proxy.ts, refresh;
   auth.service.js, refresh). *)
THEOREM AlarmsAreExplained ==
  BrowserSpec => []AlarmsHaveACause
<1>1. BrowserInv => AlarmsHaveACause
  BY DEF BrowserInv
<1>2. QED
  BY <1>1, BrowserInvariant, PTL

-------------------------------------------------------------------------------
(* What a page shows: why a quiet page shows the truth. *)

Quiet == \A m \in Tap : write[m].at = "idle"

(* The newest state of the cart has been heard, or will be.                *)
Due ==
  \/ newest = content
  \/ \E m \in Tap : \/ write[m].at \in {"sent", "refused"}
                    \/ write[m].at = "done" /\ write[m].answer = content
  \/ fetch.at = "asked"
  \/ fetch.at = "read" /\ fetch.answer = content

CartDue ==
  /\ Due
  /\ shown = newest \/ ~Quiet \/ fetch.at # "none"

(* The hearts are asked for after the last write.                          *)
HeartsDue ==
  Quiet =>
    \/ fetch.at = "asked"
    \/ fetch.at = "read" /\ fetch.answer = content
    \/ fetch.at = "none" /\ shown = content

HeardOf ==
  /\ newest <= content /\ fetch.answer <= content
  /\ \A m \in Tap :
       /\ write[m].answer <= content
       /\ write[m].kind = "toggle" => view = "hearts"
       /\ write[m].at \in {"sent", "done", "refused"} /\ view = "hearts" =>
            write[m].kind = "toggle"

ViewsInv ==
  /\ CachedViewsTypeOK
  /\ HeardOf
  /\ unlucky = {} =>
       /\ \A m \in Tap : write[m].at # "unheard"
       /\ view = "cart" => CartDue
       /\ view = "hearts" => HeartsDue

LEMMA WriteTypes ==
  ASSUME CachedViewsTypeOK
  PROVE  /\ content \in Nat /\ newest \in Nat /\ fetch.answer \in Nat /\ shown \in Copy
         /\ \A m \in Tap : /\ write[m] \in Write /\ write[m].answer \in Nat
                           /\ write[m].previous \in Copy
                           /\ write[m].at \in {"idle", "sent", "done", "refused", "unheard"}
                           /\ write[m].kind \in {"none", "quantity", "removal", "toggle"}
  BY CachedViewsAssumption DEF CachedViewsTypeOK, State, Write

LEMMA NoWriteType ==
  /\ NoWrite \in Write /\ NoWrite.at = "idle" /\ NoWrite.answer = 0 /\ NoWrite.kind = "none"
  /\ NoFetch.at = "none" /\ NoFetch.answer = 0 /\ NewFetch.at = "asked" /\ NewFetch.answer = 0
  /\ NoFetch \in [at : {"none", "asked", "read"}, answer : State]
  /\ NewFetch \in [at : {"none", "asked", "read"}, answer : State]
  BY CachedViewsAssumption DEF NoWrite, Write, Copy, State, NoFetch, NewFetch

LEMMA ViewsStart ==
  CachedViewsInit => ViewsInv
<1> SUFFICES ASSUME CachedViewsInit
             PROVE  ViewsInv
  OBVIOUS
<1> USE DEF CachedViewsInit
<1>1. CachedViewsTypeOK
  BY NoWriteType, CachedViewsAssumption DEF CachedViewsTypeOK, State, Copy
<1>2. HeardOf
  BY NoWriteType DEF HeardOf
<1>3. CartDue /\ HeartsDue /\ \A m \in Tap : write[m].at # "unheard"
  BY NoWriteType DEF CartDue, HeartsDue, Due
<1>4. QED
  BY <1>1, <1>2, <1>3 DEF ViewsInv

LEMMA SendWriteSteps ==
  ASSUME ViewsInv, NEW m \in Tap, SetQuantity(m) \/ ToggleHeart(m) \/ RemoveLines(m)
  PROVE  ViewsInv'
<1>1. PICK kind \in {"quantity", "removal", "toggle"}, previous \in Copy :
        /\ Sends(m, kind, previous) /\ (kind = "toggle" <=> view = "hearts")
        /\ shown' \in Copy /\ fetch' \in {fetch, NoFetch}
  <2>1. shown \in Copy /\ 0 \in Copy /\ Guess \in Copy
    BY CachedViewsAssumption DEF ViewsInv, CachedViewsTypeOK, Copy, State
  <2>2. CASE SetQuantity(m)
    BY <2>1, <2>2 DEF SetQuantity
  <2>3. CASE ToggleHeart(m)
    BY <2>1, <2>3 DEF ToggleHeart
  <2>4. CASE RemoveLines(m)
    BY <2>1, <2>4 DEF RemoveLines
  <2>5. QED
    BY <2>2, <2>3, <2>4
<1> DEFINE w == [NoWrite EXCEPT !.kind = kind, !.at = "sent", !.previous = previous]
<1>7. w \in Write /\ w.at = "sent" /\ w.answer = 0 /\ w.kind = kind
  <2>1. 0 \in State
    BY CachedViewsAssumption DEF State
  <2>2. QED
    BY <2>1 DEF NoWrite, Write
<1>8. /\ write' = [write EXCEPT ![m] = w]
      /\ taps' \in 0..MaxTaps
      /\ UNCHANGED <<view, content, newest, unlucky>>
  BY <1>1, CachedViewsAssumption DEF Sends, ViewsInv, CachedViewsTypeOK
<1> HIDE DEF w
<1>2. write'[m] = w /\ \A n \in Tap : n # m => write'[n] = write[n]
  BY <1>8 DEF ViewsInv, CachedViewsTypeOK
<1>3. CachedViewsTypeOK'
  BY <1>1, <1>7, <1>8, NoWriteType DEF ViewsInv, CachedViewsTypeOK
<1>4. HeardOf'
  BY <1>1, <1>2, <1>7, <1>8, NoWriteType, WriteTypes DEF ViewsInv, HeardOf
<1>5. ~Quiet' /\ Due'
  BY <1>2, <1>7 DEF Quiet, Due
<1>6. QED
  BY <1>2, <1>3, <1>4, <1>5, <1>7, <1>8 DEF ViewsInv, CartDue, HeartsDue
LEMMA ApiSteps ==
  ASSUME ViewsInv, NEW m \in Tap, CarryOut(m) \/ Decline(m)
  PROVE  ViewsInv'
<1>1. write[m].at \in {"sent", "unheard"}
      /\ UNCHANGED <<view, shown, fetch, taps, newest, unlucky>>
  BY DEF CarryOut, Decline
<1>2. PICK w \in Write :
        /\ write' = [write EXCEPT ![m] = w]
        /\ \/ /\ content' = content + 1 /\ content < MaxChanges
              /\ write[m].at = "sent" => w.at = "done" /\ w.answer = content'
           \/ /\ content' = content
              /\ write[m].at = "sent" => w.at = "refused"
        /\ w.at \in {"idle", "done", "refused"}
        /\ w.at = "idle" => write[m].at = "unheard" /\ w.kind = "none"
        /\ write[m].at = "unheard" => w.at = "idle"
        /\ w.at # "idle" => w.kind = write[m].kind
        /\ w.answer <= content'
  <2>1. write[m] \in Write /\ content \in Nat /\ write[m].answer <= content
    BY WriteTypes DEF ViewsInv, HeardOf
  <2>2. CASE CarryOut(m) /\ write[m].at = "sent"
    <3>1. content + 1 \in State /\ content' = content + 1 /\ content < MaxChanges
      BY <2>1, <2>2, CachedViewsAssumption DEF CarryOut, State
    <3>2. PICK w : w = [write[m] EXCEPT !.at = "done", !.answer = content + 1]
      OBVIOUS
    <3>3. w \in Write /\ w.at = "done" /\ w.kind = write[m].kind /\ w.answer = content + 1
      BY <2>1, <3>1, <3>2 DEF Write
    <3>4. write' = [write EXCEPT ![m] = w]
      BY <2>2, <3>2 DEF CarryOut, ViewsInv, CachedViewsTypeOK
    <3>5. w.answer <= content'
      BY <2>1, <3>1, <3>3
    <3>6. QED
      BY <2>2, <3>1, <3>3, <3>4, <3>5
  <2>3. CASE Decline(m) /\ write[m].at = "sent"
    <3>1. [write[m] EXCEPT !.at = "refused"] \in Write
      BY <2>1 DEF Write
    <3>2. write' = [write EXCEPT ![m] = [write[m] EXCEPT !.at = "refused"]] /\ content' = content
      BY <2>3 DEF Decline, ViewsInv, CachedViewsTypeOK
    <3>3. QED
      BY <1>1, <2>1, <2>3, <3>1, <3>2 DEF Write
  <2>4. CASE write[m].at = "unheard"
    <3>1. write' = [write EXCEPT ![m] = NoWrite]
      BY <2>4 DEF CarryOut, Decline, ViewsInv, CachedViewsTypeOK
    <3>2. content' = content \/ (content' = content + 1 /\ content < MaxChanges)
      BY DEF CarryOut, Decline
    <3>3. NoWrite.answer <= content'
      BY <2>1, <3>2, NoWriteType
    <3>4. write[m].at # "sent" /\ NoWrite.at = "idle" /\ NoWrite.kind = "none"
      BY <2>4, NoWriteType
    <3>5. QED
      BY <2>4, <3>1, <3>2, <3>3, <3>4, NoWriteType, Zenon
  <2>5. QED
    BY <1>1, <2>2, <2>3, <2>4
<1>3. write'[m] = w /\ \A n \in Tap : n # m => write'[n] = write[n]
  BY <1>2 DEF ViewsInv, CachedViewsTypeOK
<1>4. content' \in State /\ content <= content'
  <2>1. content \in State
    BY DEF ViewsInv, CachedViewsTypeOK
  <2>2. content' = content \/ (content' = content + 1 /\ content < MaxChanges)
    BY <1>2
  <2>3. QED
    BY <2>1, <2>2, CachedViewsAssumption DEF State
<1>5. CachedViewsTypeOK'
  BY <1>1, <1>2, <1>4 DEF ViewsInv, CachedViewsTypeOK
<1>6. HeardOf'
  <2>1. \A n \in Tap : write'[n].answer <= content'
    BY <1>2, <1>3, <1>4, WriteTypes DEF ViewsInv, HeardOf, State
  <2>2. newest' <= content' /\ fetch'.answer <= content'
    BY <1>1, <1>4, WriteTypes DEF ViewsInv, HeardOf, State
  <2>3. view' = view /\ (view = "hearts" /\ write[m].at = "sent" => write[m].kind = "toggle")
    BY <1>1 DEF ViewsInv, HeardOf
  <2>4. w.kind = "toggle" => view = "hearts"
    BY <1>2, <2>3 DEF ViewsInv, HeardOf
  <2>5. w.at \in {"sent", "done", "refused"} /\ view = "hearts" => w.kind = "toggle"
    BY <1>1, <1>2, <2>3
  <2>6. QED
    BY <1>1, <1>3, <2>1, <2>2, <2>3, <2>4, <2>5 DEF ViewsInv, HeardOf
<1>7. ASSUME unlucky' = {}
      PROVE  ~Quiet' /\ Due' /\ \A n \in Tap : write'[n].at # "unheard"
  <2>1. write[m].at = "sent" /\ \A n \in Tap : write[n].at # "unheard"
    BY <1>1, <1>7 DEF ViewsInv
  <2>2. w.at \in {"done", "refused"} /\ (w.at = "done" => w.answer = content')
    BY <1>2, <2>1
  <2>3. QED
    BY <1>3, <2>1, <2>2 DEF Quiet, Due
<1>8. QED
  BY <1>5, <1>6, <1>7 DEF ViewsInv, CartDue, HeartsDue

LEMMA AskAgainSteps ==
  ASSUME ViewsInv, Mount \/ AnswerFetch
  PROVE  ViewsInv'
<1>1. /\ UNCHANGED <<view, content, shown, write, taps, newest, unlucky>>
      /\ \/ fetch.at = "none" /\ fetch' = NewFetch
         \/ fetch.at = "asked" /\ fetch' = [at |-> "read", answer |-> content]
  BY DEF Mount, AnswerFetch
<1>2. /\ fetch' \in [at : {"none", "asked", "read"}, answer : State]
      /\ fetch'.at = "asked" \/ (fetch'.at = "read" /\ fetch'.answer = content)
      /\ fetch'.answer <= content
  BY <1>1, NoWriteType, WriteTypes DEF ViewsInv, CachedViewsTypeOK
<1>3. CachedViewsTypeOK' /\ HeardOf'
  BY <1>1, <1>2 DEF ViewsInv, CachedViewsTypeOK, HeardOf
<1>4. CartDue' /\ HeartsDue'
  BY <1>1, <1>2 DEF CartDue, HeartsDue, Due
<1>5. QED
  BY <1>1, <1>3, <1>4 DEF ViewsInv

LEMMA SucceedSteps ==
  ASSUME ViewsInv, NEW m \in Tap, Succeed(m)
  PROVE  ViewsInv'
<1>0. PICK n : n = write[m].answer
  OBVIOUS
<1>1. /\ write[m].at = "done" /\ write' = [write EXCEPT ![m] = NoWrite]
      /\ UNCHANGED <<view, content, taps>>
      /\ \/ /\ write[m].kind = "toggle" /\ fetch' = NewFetch /\ UNCHANGED <<shown, newest, unlucky>>
         \/ /\ write[m].kind # "toggle" /\ Absorb(n) /\ UNCHANGED fetch
  BY <1>0 DEF Succeed
<1>2. write'[m] = NoWrite /\ \A k \in Tap : k # m => write'[k] = write[k]
  BY <1>1 DEF ViewsInv, CachedViewsTypeOK
<1>3. n \in State /\ n \in Nat /\ n <= content /\ n \in Copy
  BY <1>0, WriteTypes DEF ViewsInv, HeardOf, Write, Copy
<1>4. CASE write[m].kind = "toggle"
  <2>1. view = "hearts" /\ fetch' = NewFetch /\ UNCHANGED <<shown, newest, unlucky>>
    BY <1>1, <1>4 DEF ViewsInv, HeardOf
  <2>2. CachedViewsTypeOK'
    BY <1>1, <2>1, NoWriteType DEF ViewsInv, CachedViewsTypeOK
  <2>3. HeardOf'
    BY <1>1, <1>2, <2>1, NoWriteType, WriteTypes DEF ViewsInv, HeardOf
  <2>4. HeartsDue' /\ view' = "hearts"
    BY <1>1, <2>1, NoWriteType DEF HeartsDue
  <2>5. \A k \in Tap : unlucky' = {} => write'[k].at # "unheard"
    BY <1>2, <2>1, NoWriteType DEF ViewsInv
  <2>6. QED
    BY <2>2, <2>3, <2>4, <2>5 DEF ViewsInv
<1>5. CASE write[m].kind # "toggle"
  <2>1. /\ shown' = n /\ newest' = (IF n > newest THEN n ELSE newest) /\ fetch' = fetch
        /\ unlucky' = unlucky \cup (IF n < newest /\ view = "cart" THEN {"overtaken"} ELSE {})
    BY <1>1, <1>5 DEF Absorb
  <2>2. view = "cart"
    BY <1>1, <1>5 DEF ViewsInv, HeardOf, CachedViewsTypeOK
  <2>3. newest' \in State /\ newest' <= content /\ newest' \in Nat
    BY <1>3, <2>1, WriteTypes DEF ViewsInv, HeardOf, CachedViewsTypeOK
  <2>4. CachedViewsTypeOK'
    BY <1>1, <1>3, <2>1, <2>3, NoWriteType DEF ViewsInv, CachedViewsTypeOK
  <2>5. HeardOf'
    BY <1>1, <1>2, <2>1, <2>3, NoWriteType, WriteTypes DEF ViewsInv, HeardOf
  <2>6. ASSUME unlucky' = {}
        PROVE  CartDue' /\ \A k \in Tap : write'[k].at # "unheard"
    <3>1. unlucky = {} /\ ~(n < newest) /\ newest' = n
      BY <1>3, <2>1, <2>2, <2>6, WriteTypes DEF ViewsInv
    <3>2. Due /\ \A k \in Tap : write[k].at # "unheard"
      BY <2>2, <3>1 DEF ViewsInv, CartDue
    <3>3. newest = content => n = content
      BY <1>3, <3>1, WriteTypes DEF ViewsInv
    <3>4. Due'
      <4>1. CASE \E k \in Tap : k # m /\ (write[k].at \in {"sent", "refused"}
                                           \/ (write[k].at = "done" /\ write[k].answer = content))
        BY <1>1, <1>2, <4>1 DEF Due
      <4>2. CASE write[m].answer = content \/ newest = content
        BY <1>0, <1>1, <3>1, <3>3, <4>2 DEF Due
      <4>3. CASE fetch.at = "asked" \/ (fetch.at = "read" /\ fetch.answer = content)
        BY <1>1, <2>1, <4>3 DEF Due
      <4>4. QED
        BY <1>1, <3>2, <4>1, <4>2, <4>3 DEF Due
    <3>5. QED
      BY <1>2, <2>1, <3>1, <3>2, <3>4, NoWriteType DEF CartDue
  <2>7. QED
    BY <1>1, <2>2, <2>4, <2>5, <2>6 DEF ViewsInv
<1>6. QED
  BY <1>4, <1>5

LEMMA RollBackSteps ==
  ASSUME ViewsInv, NEW m \in Tap, BeRefused(m) \/ GiveUp(m)
  PROVE  ViewsInv'
<1>1. PICK w \in Write :
        /\ write' = [write EXCEPT ![m] = w]
        /\ w.answer = 0 /\ w.kind = "none"
        /\ w.at = "unheard" \/ w.at = "idle"
        /\ w.at = "unheard" => unlucky' # {}
  <2>1. [NoWrite EXCEPT !.at = "unheard"] \in Write
    BY NoWriteType DEF Write
  <2>2. CASE BeRefused(m)
    BY <2>2, NoWriteType DEF BeRefused
  <2>3. CASE GiveUp(m)
    <3>1. write[m].at \in {"sent", "done"}
      BY <2>3 DEF GiveUp
    <3>2. CASE write[m].at = "done"
      <4>1. write' = [write EXCEPT ![m] = NoWrite]
        BY <2>3, <3>2 DEF GiveUp, ViewsInv, CachedViewsTypeOK
      <4>2. QED
        BY <4>1, NoWriteType
    <3>3. CASE write[m].at = "sent"
      <4>1. /\ write' = [write EXCEPT ![m] = [NoWrite EXCEPT !.at = "unheard"]]
            /\ "late" \in unlucky'
        BY <2>3, <3>3 DEF GiveUp, ViewsInv, CachedViewsTypeOK
      <4>2. QED
        BY <2>1, <4>1 DEF NoWrite
    <3>4. QED
      BY <3>1, <3>2, <3>3
  <2>4. QED
    BY <2>2, <2>3
<1>2. /\ shown' \in Copy /\ fetch' = NewFetch /\ UNCHANGED <<view, content, taps, newest>>
      /\ unlucky \subseteq unlucky' /\ unlucky' \subseteq {"overtaken", "unread", "late"}
  BY WriteTypes DEF BeRefused, GiveUp, RollBack, ViewsInv, CachedViewsTypeOK
<1>3. write'[m] = w /\ \A k \in Tap : k # m => write'[k] = write[k]
  BY <1>1 DEF ViewsInv, CachedViewsTypeOK
<1>4. CachedViewsTypeOK'
  BY <1>1, <1>2, NoWriteType DEF ViewsInv, CachedViewsTypeOK
<1>5. HeardOf'
  BY <1>1, <1>2, <1>3, NoWriteType, WriteTypes DEF ViewsInv, HeardOf
<1>6. CartDue' /\ HeartsDue'
  BY <1>2, NoWriteType DEF CartDue, HeartsDue, Due
<1>7. unlucky' = {} => \A k \in Tap : write'[k].at # "unheard"
  BY <1>1, <1>2, <1>3 DEF ViewsInv
<1>8. QED
  BY <1>4, <1>5, <1>6, <1>7 DEF ViewsInv

LEMMA LandSteps ==
  ASSUME ViewsInv, LandFetch
  PROVE  ViewsInv'
<1>0. PICK n : n = fetch.answer
  OBVIOUS
<1>1. /\ fetch.at = "read" /\ fetch' = NoFetch
      /\ shown' = n /\ newest' = (IF n > newest THEN n ELSE newest)
      /\ unlucky' = unlucky \cup (IF n < newest /\ view = "cart" THEN {"overtaken"} ELSE {})
      /\ UNCHANGED <<view, content, write, taps>>
  BY <1>0 DEF LandFetch, Absorb
<1>2. n \in State /\ n \in Nat /\ n <= content /\ n \in Copy
  BY <1>0, WriteTypes DEF ViewsInv, HeardOf, CachedViewsTypeOK, Copy
<1>3. newest' \in State /\ newest' <= content /\ newest' \in Nat
  BY <1>1, <1>2, WriteTypes DEF ViewsInv, HeardOf, CachedViewsTypeOK
<1>4. CachedViewsTypeOK' /\ HeardOf'
  BY <1>1, <1>2, <1>3, NoWriteType, WriteTypes DEF ViewsInv, CachedViewsTypeOK, HeardOf
<1>5. ASSUME unlucky' = {}
      PROVE  /\ view = "cart" => CartDue'
             /\ view = "hearts" => HeartsDue'
  <2>1. unlucky = {} /\ (view = "cart" => newest' = n /\ (newest = content => n = content))
    BY <1>1, <1>2, <1>5, WriteTypes DEF ViewsInv
  <2>2. ASSUME view = "cart"
        PROVE  CartDue'
    <3>1. newest = content \/ n = content => Due'
      BY <1>1, <2>1, <2>2 DEF Due
    <3>2. Due'
      BY <1>0, <1>1, <2>1, <2>2, <3>1 DEF ViewsInv, CartDue, Due
    <3>3. QED
      BY <1>1, <2>1, <2>2, <3>2 DEF CartDue
  <2>3. ASSUME view = "hearts"
        PROVE  HeartsDue'
    BY <1>0, <1>1, <2>1, <2>3, NoWriteType DEF ViewsInv, HeartsDue, Quiet
  <2>4. QED
    BY <2>2, <2>3
<1>6. QED
  BY <1>1, <1>4, <1>5 DEF ViewsInv

LEMMA ViewsInvariant ==
  CachedViewsSpec => []ViewsInv
<1>1. ViewsInv /\ [CachedViewsNext]_viewsVars => ViewsInv'
  <2>1. ASSUME ViewsInv, FailFetch
        PROVE  ViewsInv'
    <3>1. /\ fetch' = NoFetch /\ unlucky' = unlucky \cup {"unread"}
          /\ UNCHANGED <<view, content, shown, write, taps, newest>>
      BY <2>1 DEF FailFetch
    <3>2. CachedViewsTypeOK' /\ HeardOf' /\ unlucky' # {}
      BY <2>1, <3>1, NoWriteType, WriteTypes DEF ViewsInv, CachedViewsTypeOK, HeardOf
    <3>3. QED
      BY <3>2 DEF ViewsInv
  <2>2. ASSUME ViewsInv, CachedViewsNext
        PROVE  ViewsInv'
    BY <2>1, <2>2, SendWriteSteps, ApiSteps, AskAgainSteps, SucceedSteps, RollBackSteps, LandSteps
    DEF CachedViewsNext
  <2>3. ASSUME ViewsInv, UNCHANGED viewsVars
        PROVE  ViewsInv'
    BY <2>3 DEF viewsVars, ViewsInv, CachedViewsTypeOK, HeardOf, CartDue, HeartsDue, Due, Quiet
  <2>4. QED
    BY <2>2, <2>3
<1>2. QED
  BY <1>1, ViewsStart, PTL DEF CachedViewsSpec

(* Type correctness of what a page shows and of what it has asked for
   (use-cart.ts, use-wishlist.ts). *)
THEOREM ViewsTyped ==
  CachedViewsSpec => []CachedViewsTypeOK
<1>1. ViewsInv => CachedViewsTypeOK
  BY DEF ViewsInv
<1>2. QED
  BY <1>1, ViewsInvariant, PTL

(* However writes, answers, fetches and roll-backs interleave, a page with
   nothing on its way shows what the API has, unless one of the listed mishaps
   came before (use-cart.ts, absorb and onFailure; use-wishlist.ts, onSettled). *)
THEOREM QuietPagesAreTrue ==
  CachedViewsSpec => []QuietViewIsTrue
<1>1. ViewsInv => QuietViewIsTrue
  <2> SUFFICES ASSUME ViewsInv, Quiet, fetch.at = "none", unlucky = {}
               PROVE  shown = content
    BY DEF QuietViewIsTrue, Quiet
  <2>1. CASE view = "cart"
    BY <2>1 DEF ViewsInv, CartDue, Due, Quiet
  <2>2. CASE view = "hearts"
    BY <2>2 DEF ViewsInv, HeartsDue
  <2>3. QED
    BY <2>1, <2>2 DEF ViewsInv, CachedViewsTypeOK
<1>2. QED
  BY <1>1, ViewsInvariant, PTL

-------------------------------------------------------------------------------
(* What is done to each element of a sequence leaves a sequence. *)
LEMMA MappedSequence ==
  ASSUME NEW S, NEW T, NEW s \in Seq(S), NEW f \in [DOMAIN s -> T]
  PROVE  f \in Seq(T) /\ Len(f) = Len(s) /\ DOMAIN f = 1..Len(s)
<1>1. DOMAIN s = 1..Len(s) /\ Len(s) \in Nat
  OBVIOUS
<1>2. f \in [1..Len(s) -> T]
  BY <1>1
<1>3. QED
  BY <1>1, <1>2

-------------------------------------------------------------------------------
(* The guest cart: why an entry is not moved twice, and does not vanish.   *)

Reaches(i) == posts[i].at # "refused"

Awaits(i) == posts[i].heeded /\ inFlight[posts[i].tab] = i

(* What is being moved and still kept is a move its tab waits for. *)
KeptIsAwaited ==
  \A i \in DOMAIN posts :
    Reaches(i) => \A n \in (posts[i].items \cap kept) \ mayDouble : Awaits(i)

MovedByOne ==
  \A i, j \in DOMAIN posts :
    Reaches(i) /\ Reaches(j) => i = j \/ posts[i].items \cap posts[j].items \subseteq mayDouble

(* The account has what was moved, and nothing else. *)
ArrivedByMove ==
  /\ \A n \in Entry \ mayDouble :
       received[n] # 0 => /\ received[n] = 1
                          /\ \E i \in DOMAIN posts :
                               posts[i].at = "applied" /\ n \in posts[i].items
  /\ \A i \in DOMAIN posts : posts[i].at = "applied" => \A n \in posts[i].items : received[n] >= 1

(* The answer to a move empties the copy, which has nothing else. *)
CopyIsMoved ==
  \A t \in Tab : \A i \in Underway(t) : entries[t] \subseteq posts[i].items \cup mayVanish

StillSomewhere == \A n \in Entry : received[n] >= 1 \/ n \in kept \cup dropped \cup mayVanish

GuestCartInv ==
  /\ GuestCartTypeOK
  /\ KeptIsAwaited /\ MovedByOne /\ ArrivedByMove /\ CopyIsMoved /\ StillSomewhere

LEMMA PostTypes ==
  ASSUME GuestCartTypeOK
  PROVE  /\ Len(posts) \in Nat /\ DOMAIN posts = 1..Len(posts) /\ Len(received) \in Nat
         /\ DOMAIN received = Entry
         /\ \A i \in DOMAIN posts :
              /\ posts[i] \in Post
              /\ posts[i].tab \in Tab /\ posts[i].items \subseteq Entry
              /\ posts[i].at \in {"sent", "applied", "refused"} /\ posts[i].heeded \in BOOLEAN
         /\ \A t \in Tab : inFlight[t] \in 0..Len(posts) /\ entries[t] \subseteq Entry
         /\ \A n \in Entry : received[n] \in Nat
<1>1. posts \in Seq(Post) /\ received \in Seq(Nat)
  BY DEF GuestCartTypeOK
<1>2. /\ Len(posts) \in Nat /\ DOMAIN posts = 1..Len(posts) /\ Len(received) \in Nat
      /\ DOMAIN received = Entry /\ \A n \in Entry : received[n] \in Nat
  BY <1>1 DEF Entry
<1>3. \A i \in DOMAIN posts : posts[i] \in Post
  BY <1>1
<1>4. QED
  BY <1>2, <1>3 DEF GuestCartTypeOK, Post

LEMMA GuestCartStarts ==
  GuestCartInit => GuestCartInv
<1> SUFFICES ASSUME GuestCartInit
             PROVE  GuestCartInv
  OBVIOUS
<1> USE DEF GuestCartInit
<1>1. posts = <<>> /\ received = <<>> /\ DOMAIN posts = {} /\ Entry = {}
  BY DEF Entry
<1>2. GuestCartTypeOK
  <2>1. posts \in Seq(Post) /\ received \in Seq(Nat) /\ Len(posts) = 0 /\ Len(received) = 0
    BY <1>1
  <2>2. inFlight \in [Tab -> 0..Len(posts)]
    BY <2>1
  <2>3. /\ kept \subseteq Entry /\ entries \in [Tab -> SUBSET Entry]
        /\ session \in BOOLEAN /\ knows \subseteq Tab
        /\ dropped \cup mayDouble \cup mayVanish \subseteq Entry
    OBVIOUS
  <2>4. Len(posts) <= MaxPosts /\ Len(received) <= MaxEntries
    BY <2>1, GuestCartAssumption
  <2>5. QED
    BY <2>1, <2>2, <2>3, <2>4 DEF GuestCartTypeOK
<1>3. KeptIsAwaited /\ MovedByOne /\ ArrivedByMove /\ CopyIsMoved /\ StillSomewhere
  BY <1>1 DEF KeptIsAwaited, MovedByOne, ArrivedByMove, CopyIsMoved, StillSomewhere, Underway
<1>4. QED
  BY <1>2, <1>3 DEF GuestCartInv

LEMMA GuestEntrySteps ==
  ASSUME GuestCartInv, NEW t \in Tab,
         AddGuestEntry(t) \/ \E ids \in SUBSET entries[t] : RemoveGuestEntries(t, ids)
  PROVE  GuestCartInv'
<1>1. CASE AddGuestEntry(t)
  <2> DEFINE n == Len(received) + 1
  <2> USE <1>1 DEF AddGuestEntry, Commit
  <2>1. GuestCartTypeOK
    BY DEF GuestCartInv
  <2>2. Entry' = Entry \cup {n} /\ n \notin Entry /\ Len(received') = n /\ n \in Nat
    BY <2>1, PostTypes DEF Entry, GuestCartTypeOK
  <2>3. received'[n] = 0 /\ \A m \in Entry : received'[m] = received[m]
    BY <2>1, PostTypes DEF Entry, GuestCartTypeOK
  <2>4. /\ kept' = entries[t] \cup {n} /\ mayDouble' = mayDouble \cup Stale(t)
        /\ mayVanish' = mayVanish \cup Unseen(t) \cup (IF Underway(t) # {} THEN {n} ELSE {})
        /\ entries' = [entries EXCEPT ![t] = entries[t] \cup {n}]
        /\ UNCHANGED <<inFlight, posts, dropped>>
    OBVIOUS
  <2> HIDE DEF n
  <2>5. GuestCartTypeOK'
    <3>1. Post \subseteq Post'
      BY <2>2 DEF Post
    <3>2. posts' \in Seq(Post') /\ Len(posts') <= MaxPosts
      BY <3>1, <2>1 DEF GuestCartTypeOK
    <3>3. received' \in Seq(Nat) /\ Len(received') <= MaxEntries
      BY <2>1, <2>2 DEF GuestCartTypeOK, n
    <3>4. kept' \subseteq Entry' /\ entries' \in [Tab -> SUBSET Entry']
      BY <2>1, <2>2, <2>4 DEF GuestCartTypeOK
    <3>5. dropped' \cup mayDouble' \cup mayVanish' \subseteq Entry'
      BY <2>1, <2>2, <2>4 DEF GuestCartTypeOK, Stale, Unseen
    <3>6. session' \in BOOLEAN /\ knows' \subseteq Tab /\ inFlight' \in [Tab -> 0..Len(posts')]
      BY <2>1 DEF GuestCartTypeOK
    <3>7. QED
      BY <3>2, <3>3, <3>4, <3>5, <3>6 DEF GuestCartTypeOK
  <2>6. KeptIsAwaited'
    BY <2>1, <2>2, <2>4, PostTypes DEF GuestCartInv, KeptIsAwaited, Reaches, Awaits, Stale
  <2>7. MovedByOne'
    BY <2>4 DEF GuestCartInv, MovedByOne, Reaches
  <2>8. ArrivedByMove'
    BY <2>1, <2>2, <2>3, <2>4, PostTypes DEF GuestCartInv, ArrivedByMove
  <2>9. CopyIsMoved'
    BY <2>1, <2>4, PostTypes DEF GuestCartInv, CopyIsMoved, Underway, GuestCartTypeOK
  <2>10. StillSomewhere'
    BY <2>2, <2>3, <2>4 DEF GuestCartInv, StillSomewhere, Unseen
  <2>11. QED
    BY <2>5, <2>6, <2>7, <2>8, <2>9, <2>10 DEF GuestCartInv
<1>2. ASSUME NEW ids \in SUBSET entries[t], RemoveGuestEntries(t, ids)
      PROVE  GuestCartInv'
  <2> USE <1>2 DEF RemoveGuestEntries, Commit
  <2>1. GuestCartTypeOK
    BY DEF GuestCartInv
  <2>2. Entry' = Entry /\ Post' = Post
    BY DEF Entry, Post
  <2>3. GuestCartTypeOK'
    BY <2>1, <2>2, PostTypes DEF GuestCartTypeOK, Stale, Unseen
  <2>4. KeptIsAwaited'
    BY <2>1 DEF GuestCartInv, KeptIsAwaited, Reaches, Awaits, Stale
  <2>5. MovedByOne'
    BY DEF GuestCartInv, MovedByOne, Reaches
  <2>6. ArrivedByMove'
    BY <2>2 DEF GuestCartInv, ArrivedByMove
  <2>7. CopyIsMoved'
    BY <2>1 DEF GuestCartInv, CopyIsMoved, Underway, GuestCartTypeOK
  <2>8. StillSomewhere'
    BY <2>1, <2>2 DEF GuestCartInv, StillSomewhere, Unseen
  <2>9. QED
    BY <2>3, <2>4, <2>5, <2>6, <2>7, <2>8 DEF GuestCartInv
<1>3. QED
  BY <1>1, <1>2

(* A move that a tab did not know of, and does not wait for, is one of     *)
(* another tab, and marks what it holds.                                   *)
LEMMA MergeSteps ==
  ASSUME GuestCartInv, NEW t \in Tab, knows' \subseteq Tab, session' \in BOOLEAN,
         MergeGuestCart(t, entries[t], inFlight[t]),
         mayDouble' = mayDouble \cup AlsoElsewhere(t),
         UNCHANGED <<kept, entries, received, dropped>>
  PROVE  GuestCartInv'
<1>1. GuestCartTypeOK
  BY DEF GuestCartInv
<1>2. Entry' = Entry /\ Post' = Post
  BY DEF Entry, Post
<1>3. AlsoElsewhere(t) \subseteq Entry
  BY <1>1, PostTypes DEF AlsoElsewhere, Items, Underway, Stale
<1>4. CASE inFlight[t] # 0 \/ entries[t] = {}
  <2>1. UNCHANGED <<posts, mayVanish>> /\ inFlight' = inFlight
    BY <1>1, <1>4 DEF MergeGuestCart, GuestCartTypeOK
  <2>2. GuestCartTypeOK'
    BY <1>1, <1>2, <1>3, <2>1 DEF GuestCartTypeOK
  <2>3. KeptIsAwaited' /\ MovedByOne'
    BY <2>1 DEF GuestCartInv, KeptIsAwaited, MovedByOne, Reaches, Awaits
  <2>4. ArrivedByMove' /\ CopyIsMoved' /\ StillSomewhere'
    BY <1>2, <2>1 DEF GuestCartInv, ArrivedByMove, CopyIsMoved, StillSomewhere, Underway
  <2>5. QED
    BY <2>2, <2>3, <2>4 DEF GuestCartInv
<1>5. CASE ~(inFlight[t] # 0 \/ entries[t] = {})
  <2> DEFINE p == Len(posts) + 1
             moved == FirstOf(entries[t])
             new == [tab |-> t, items |-> moved, at |-> "sent", heeded |-> TRUE]
  <2>1. /\ Len(posts) < MaxPosts /\ posts' = Append(posts, new)
        /\ inFlight' = [inFlight EXCEPT ![t] = p]
        /\ mayVanish' = mayVanish \cup (entries[t] \ moved)
    BY <1>5 DEF MergeGuestCart
  <2>2. moved \subseteq entries[t] /\ moved \subseteq Entry
    BY <1>1, PostTypes DEF FirstOf
  <2>3. new \in Post
    BY <2>2 DEF Post
  <2>4. /\ new.tab = t /\ new.items = moved /\ new.at = "sent" /\ new.heeded
        /\ p \in Nat /\ p \notin DOMAIN posts /\ p # 0
    BY <1>1, PostTypes
  <2> HIDE DEF new, moved
  <2>5. /\ posts' \in Seq(Post) /\ Len(posts') = p /\ DOMAIN posts' = DOMAIN posts \cup {p}
        /\ posts'[p] = new /\ \A i \in DOMAIN posts : posts'[i] = posts[i]
    BY <1>1, <2>1, <2>3, PostTypes DEF GuestCartTypeOK
  <2>6. /\ inFlight[t] = 0 /\ inFlight'[t] = p
        /\ \A u \in Tab \ {t} : inFlight'[u] = inFlight[u]
    BY <1>1, <1>5, <2>1 DEF GuestCartTypeOK
  <2>7. p \in 0..p /\ 0..Len(posts) \subseteq 0..p
    BY <1>1, PostTypes
  <2> HIDE DEF p
  <2>8. GuestCartTypeOK'
    <3>1. inFlight' \in [Tab -> 0..Len(posts')]
      BY <1>1, <2>1, <2>5, <2>7 DEF GuestCartTypeOK
    <3>2. Len(posts') <= MaxPosts
      BY <1>1, <2>1, <2>5, PostTypes, GuestCartAssumption DEF p
    <3>3. dropped' \cup mayDouble' \cup mayVanish' \subseteq Entry
      BY <1>1, <1>3, <2>1, PostTypes DEF GuestCartTypeOK
    <3>4. QED
      BY <1>1, <1>2, <2>5, <3>1, <3>2, <3>3 DEF GuestCartTypeOK
  (* The tab waits for nothing, so nothing it keeps is being moved unless   *)
  (* by another.                                                            *)
  <2>9. \A i \in DOMAIN posts : Reaches(i) => posts[i].items \cap moved \subseteq mayDouble'
    <3> SUFFICES ASSUME NEW i \in DOMAIN posts, Reaches(i), NEW n \in posts[i].items \cap moved,
                        n \notin mayDouble'
                 PROVE  FALSE
      OBVIOUS
    <3>1. n \in kept /\ n \notin mayDouble
      BY <2>2 DEF AlsoElsewhere, Stale
    <3>2. Awaits(i)
      BY <3>1 DEF GuestCartInv, KeptIsAwaited
    <3>3. posts[i].tab # t
      BY <1>1, <2>6, <3>2, PostTypes DEF Awaits
    <3>4. i \in Underway(posts[i].tab) /\ posts[i].tab \in Tab \ {t}
      BY <1>1, <3>2, <3>3, PostTypes DEF Underway, Awaits, Reaches
    <3>5. n \in Items(UNION {Underway(u) : u \in Tab \ {t}})
      BY <3>4 DEF Items
    <3>6. QED
      BY <3>5 DEF AlsoElsewhere
  <2>10. KeptIsAwaited'
    <3> SUFFICES ASSUME NEW i \in DOMAIN posts', Reaches(i)',
                        NEW n \in (posts[i].items \cap kept)' \ mayDouble'
                 PROVE  Awaits(i)'
      BY DEF KeptIsAwaited
    <3>1. CASE i = p
      BY <3>1, <2>4, <2>5, <2>6 DEF Awaits
    <3>2. CASE i \in DOMAIN posts
      <4>1. Awaits(i)
        BY <3>2, <2>5 DEF GuestCartInv, KeptIsAwaited, Reaches
      <4>2. posts[i].tab # t
        BY <1>1, <3>2, <4>1, <2>6, PostTypes DEF Awaits
      <4>3. QED
        BY <1>1, <3>2, <4>1, <4>2, <2>5, <2>6, PostTypes DEF Awaits
    <3>3. QED
      BY <3>1, <3>2, <2>5
  <2>11. MovedByOne'
    <3> SUFFICES ASSUME NEW i \in DOMAIN posts', NEW j \in DOMAIN posts',
                        Reaches(i)', Reaches(j)', i # j
                 PROVE  (posts[i].items \cap posts[j].items \subseteq mayDouble)'
      BY DEF MovedByOne
    <3>1. CASE i \in DOMAIN posts /\ j \in DOMAIN posts
      BY <3>1, <2>5 DEF GuestCartInv, MovedByOne, Reaches
    <3>2. CASE i = p /\ j \in DOMAIN posts
      BY <3>2, <2>4, <2>5, <2>9 DEF Reaches
    <3>3. CASE j = p /\ i \in DOMAIN posts
      BY <3>3, <2>4, <2>5, <2>9 DEF Reaches
    <3>4. QED
      BY <3>1, <3>2, <3>3, <2>5
  <2>12. ArrivedByMove'
    <3>1. \A n \in Entry \ mayDouble' :
            received[n] # 0 => /\ received[n] = 1
                               /\ \E i \in DOMAIN posts' :
                                    posts'[i].at = "applied" /\ n \in posts'[i].items
      BY <2>5 DEF GuestCartInv, ArrivedByMove
    <3>2. \A i \in DOMAIN posts' :
            posts'[i].at = "applied" => \A n \in posts'[i].items : received[n] >= 1
      BY <2>4, <2>5 DEF GuestCartInv, ArrivedByMove
    <3>3. QED
      BY <1>2, <3>1, <3>2 DEF ArrivedByMove
  <2>13. CopyIsMoved'
    <3> SUFFICES ASSUME NEW u \in Tab, NEW i \in Underway(u)'
                 PROVE  (entries[u] \subseteq posts[i].items \cup mayVanish)'
      BY DEF CopyIsMoved
    <3>1. CASE i = p
      BY <3>1, <2>1, <2>4, <2>5 DEF Underway
    <3>2. CASE i \in DOMAIN posts
      BY <3>2, <2>1, <2>5 DEF GuestCartInv, CopyIsMoved, Underway
    <3>3. QED
      BY <3>1, <3>2, <2>5 DEF Underway
  <2>14. StillSomewhere'
    BY <1>2, <2>1 DEF GuestCartInv, StillSomewhere
  <2>15. QED
    BY <2>8, <2>10, <2>11, <2>12, <2>13, <2>14 DEF GuestCartInv
<1>6. QED
  BY <1>4, <1>5

(* What the tab waited for may be moved again. *)
LEMMA ForgetSteps ==
  ASSUME GuestCartInv, NEW t \in Tab, SignOutTab(t) \/ NavigateSignedOut(t)
  PROVE  GuestCartInv'
<1>1. /\ inFlight' = [inFlight EXCEPT ![t] = 0] /\ mayDouble' = mayDouble \cup Items(Underway(t))
      /\ session' \in BOOLEAN /\ knows' = knows \ {t}
      /\ UNCHANGED <<kept, entries, posts, received, dropped, mayVanish>>
  BY DEF SignOutTab, NavigateSignedOut, GuestCartInv, GuestCartTypeOK
<1>2. GuestCartTypeOK
  BY DEF GuestCartInv
<1>3. Entry' = Entry /\ Post' = Post
  BY <1>1 DEF Entry, Post
<1>4. Items(Underway(t)) \subseteq Entry
  BY <1>2, PostTypes DEF Items, Underway
<1>5. GuestCartTypeOK'
  BY <1>1, <1>2, <1>3, <1>4, PostTypes DEF GuestCartTypeOK
<1>6. KeptIsAwaited'
  <2> SUFFICES ASSUME NEW i \in DOMAIN posts, Reaches(i),
                      NEW n \in (posts[i].items \cap kept) \ mayDouble'
               PROVE  Awaits(i)'
    BY <1>1 DEF KeptIsAwaited, Reaches
  <2>1. Awaits(i)
    BY <1>1 DEF GuestCartInv, KeptIsAwaited
  <2>2. posts[i].tab # t
    <3>1. SUFFICES i \notin Underway(t)
      BY <2>1 DEF Awaits, Underway, Reaches
    <3>2. QED
      BY <1>1 DEF Items
  <2>3. QED
    BY <1>1, <1>2, <2>1, <2>2, PostTypes DEF Awaits, GuestCartTypeOK
<1>7. MovedByOne'
  BY <1>1 DEF GuestCartInv, MovedByOne, Reaches
<1>8. ArrivedByMove' /\ CopyIsMoved' /\ StillSomewhere'
  BY <1>1, <1>3 DEF GuestCartInv, ArrivedByMove, CopyIsMoved, StillSomewhere, Underway
<1>9. QED
  BY <1>5, <1>6, <1>7, <1>8 DEF GuestCartInv

LEMMA ReloadSteps ==
  ASSUME GuestCartInv, NEW t \in Tab, ReloadTab(t)
  PROVE  GuestCartInv'
<1> USE DEF ReloadTab
<1>1. GuestCartTypeOK
  BY DEF GuestCartInv
<1>2. Entry' = Entry /\ Post' = Post
  BY DEF Entry, Post
<1>3. Items(Underway(t)) \subseteq Entry
  BY <1>1, PostTypes DEF Items, Underway
<1>4. \A i \in DOMAIN posts :
        /\ posts'[i] \in Post /\ posts'[i].tab = posts[i].tab
        /\ posts'[i].items = posts[i].items /\ posts'[i].at = posts[i].at
        /\ posts'[i].heeded = (posts[i].heeded /\ posts[i].tab # t)
  BY <1>1, PostTypes DEF Post
<1>5. /\ posts' \in Seq(Post) /\ Len(posts') = Len(posts) /\ DOMAIN posts' = DOMAIN posts
  <2>1. posts' \in [DOMAIN posts -> Post] /\ posts \in Seq(Post)
    BY <1>1, <1>4 DEF GuestCartTypeOK
  <2>2. QED
    BY <2>1, MappedSequence
<1>6. \A i \in DOMAIN posts : Reaches(i)' = Reaches(i)
  BY <1>4 DEF Reaches
<1>7. GuestCartTypeOK'
  BY <1>1, <1>2, <1>3, <1>5 DEF GuestCartTypeOK
<1>8. KeptIsAwaited'
  <2> SUFFICES ASSUME NEW i \in DOMAIN posts, Reaches(i),
                      NEW n \in (posts[i].items \cap kept) \ mayDouble'
               PROVE  Awaits(i)'
    BY <1>4, <1>5, <1>6 DEF KeptIsAwaited
  <2>1. Awaits(i)
    BY DEF GuestCartInv, KeptIsAwaited
  <2>2. posts[i].tab # t
    <3>1. SUFFICES i \notin Underway(t)
      BY <2>1 DEF Awaits, Underway, Reaches
    <3>2. QED
      BY DEF Items
  <2>3. QED
    BY <1>1, <1>4, <2>1, <2>2, PostTypes DEF Awaits, GuestCartTypeOK
<1>9. MovedByOne'
  BY <1>4, <1>5, <1>6 DEF GuestCartInv, MovedByOne
<1>10. ArrivedByMove'
  BY <1>2, <1>4, <1>5 DEF GuestCartInv, ArrivedByMove
<1>11. CopyIsMoved'
  <2> SUFFICES ASSUME NEW u \in Tab, NEW i \in Underway(u)'
               PROVE  (entries[u] \subseteq posts[i].items \cup mayVanish)'
    BY DEF CopyIsMoved
  <2>1. i \in Underway(u) /\ u # t
    BY <1>4, <1>5 DEF Underway
  <2>2. QED
    BY <1>1, <1>4, <2>1 DEF GuestCartInv, CopyIsMoved, GuestCartTypeOK, Underway
<1>12. StillSomewhere'
  BY <1>2 DEF GuestCartInv, StillSomewhere
<1>13. QED
  BY <1>7, <1>8, <1>9, <1>10, <1>11, <1>12 DEF GuestCartInv

LEMMA PostAtApiSteps ==
  ASSUME GuestCartInv, NEW i \in DOMAIN posts, ApplyPost(i) \/ RefusePost(i)
  PROVE  GuestCartInv'
<1>1. /\ posts[i].at = "sent" /\ UNCHANGED <<kept, entries, session, knows, inFlight, cartStory>>
      /\ \E at \in {"applied", "refused"} : posts' = [posts EXCEPT ![i].at = at]
  BY DEF ApplyPost, RefusePost, Moves
<1>2. PICK at \in {"applied", "refused"} : posts' = [posts EXCEPT ![i].at = at]
  BY <1>1
<1>3. GuestCartTypeOK
  BY DEF GuestCartInv
<1>4. /\ \A j \in DOMAIN posts :
           /\ posts'[j] \in Post /\ posts'[j].tab = posts[j].tab
           /\ posts'[j].items = posts[j].items /\ posts'[j].heeded = posts[j].heeded
      /\ \A j \in DOMAIN posts \ {i} : posts'[j] = posts[j]
      /\ posts'[i].at = at
  BY <1>2, <1>3, PostTypes DEF Post
<1>5. posts' \in Seq(Post) /\ Len(posts') = Len(posts) /\ DOMAIN posts' = DOMAIN posts
  <2>1. posts \in Seq(Post) /\ posts' \in [DOMAIN posts -> Post]
    BY <1>2, <1>3, <1>4 DEF GuestCartTypeOK
  <2>2. QED
    BY <2>1, MappedSequence
<1>6. /\ received' \in Seq(Nat) /\ Len(received') = Len(received) /\ DOMAIN received' = Entry
      /\ at = "applied" => \A n \in Entry : received'[n] = IF n \in posts[i].items
                                                          THEN received[n] + 1 ELSE received[n]
      /\ at = "refused" => received' = received
  <2>1. CASE ApplyPost(i)
    <3>1. at = "applied"
      <4>1. posts' = [posts EXCEPT ![i].at = "applied"] /\ posts[i] \in Post
        BY <2>1, <1>3, PostTypes DEF ApplyPost, Moves
      <4>2. posts'[i].at = "applied"
        BY <4>1 DEF Post
      <4>3. QED
        BY <4>2, <1>4
    <3>2. received' \in [DOMAIN received -> Nat] /\ received \in Seq(Nat)
      BY <2>1, <1>3, PostTypes DEF ApplyPost, GuestCartTypeOK
    <3>3. received' \in Seq(Nat) /\ Len(received') = Len(received) /\ DOMAIN received' = Entry
      BY <3>2, <1>3, MappedSequence, PostTypes DEF Entry
    <3>4. QED
      BY <2>1, <3>1, <3>3 DEF ApplyPost
  <2>2. CASE RefusePost(i)
    <3>1. at = "refused"
      <4>1. posts' = [posts EXCEPT ![i].at = "refused"] /\ posts[i] \in Post
        BY <2>2, <1>3, PostTypes DEF RefusePost, Moves
      <4>2. posts'[i].at = "refused"
        BY <4>1 DEF Post
      <4>3. QED
        BY <4>2, <1>4
    <3>2. QED
      BY <2>2, <3>1, <1>3, PostTypes DEF RefusePost, GuestCartTypeOK
  <2>3. QED
    BY <2>1, <2>2
<1>7. Entry' = Entry /\ Post' = Post
  BY <1>6 DEF Entry, Post
<1>8. UNCHANGED <<dropped, mayDouble, mayVanish>>
  BY <1>1 DEF cartStory
<1>9. GuestCartTypeOK'
  BY <1>1, <1>3, <1>5, <1>6, <1>7, <1>8 DEF GuestCartTypeOK
<1>10. \A j \in DOMAIN posts : Reaches(j)' => Reaches(j)
  BY <1>1, <1>4 DEF Reaches
<1>11. KeptIsAwaited' /\ MovedByOne'
  BY <1>1, <1>4, <1>5, <1>8, <1>10 DEF GuestCartInv, KeptIsAwaited, MovedByOne, Awaits
<1>12. ArrivedByMove'
  <2>1. ASSUME NEW n \in Entry, n \notin mayDouble, received'[n] # 0
        PROVE  received'[n] = 1 /\ \E j \in DOMAIN posts :
                                     posts'[j].at = "applied" /\ n \in posts'[j].items
    <3>1. CASE at = "applied" /\ n \in posts[i].items
      <4>1. received[n] = 0
        <5>1. ASSUME received[n] # 0 PROVE FALSE
          <6>1. PICK j \in DOMAIN posts : posts[j].at = "applied" /\ n \in posts[j].items
            BY <2>1, <5>1 DEF GuestCartInv, ArrivedByMove
          <6>2. j = i
            BY <6>1, <3>1, <2>1, <1>1 DEF GuestCartInv, MovedByOne, Reaches
          <6>3. QED
            BY <6>1, <6>2, <1>1
        <5>2. QED
          BY <5>1
      <4>2. QED
        BY <3>1, <4>1, <1>4, <1>6
    <3>2. CASE ~(at = "applied" /\ n \in posts[i].items)
      <4>1. received'[n] = received[n]
        BY <3>2, <1>6
      <4>2. PICK j \in DOMAIN posts : posts[j].at = "applied" /\ n \in posts[j].items
        BY <2>1, <4>1 DEF GuestCartInv, ArrivedByMove
      <4>3. j # i
        BY <4>2, <1>1
      <4>4. QED
        BY <2>1, <4>1, <4>2, <4>3, <1>4 DEF GuestCartInv, ArrivedByMove
    <3>3. QED
      BY <3>1, <3>2
  <2>2. ASSUME NEW j \in DOMAIN posts, posts'[j].at = "applied", NEW n \in posts'[j].items
        PROVE  received'[n] >= 1
    <3>1. n \in posts[j].items /\ n \in Entry /\ received[n] \in Nat
      BY <2>2, <1>3, <1>4, PostTypes
    <3>2. j # i => received[n] >= 1
      BY <2>2, <3>1, <1>4 DEF GuestCartInv, ArrivedByMove
    <3>3. QED
      BY <2>2, <3>1, <3>2, <1>4, <1>6
  <2>3. QED
    BY <2>1, <2>2, <1>5, <1>7, <1>8 DEF ArrivedByMove
<1>13. CopyIsMoved'
  BY <1>1, <1>4, <1>5, <1>8, <1>10 DEF GuestCartInv, CopyIsMoved, Underway, Reaches
<1>14. StillSomewhere'
  <2>1. \A n \in Entry : received'[n] \in Nat /\ received[n] \in Nat /\ received'[n] >= received[n]
    <3>1. \A n \in Entry : received[n] \in Nat
      BY <1>3, PostTypes
    <3>2. CASE at = "applied"
      BY <3>1, <3>2, <1>6
    <3>3. CASE at = "refused"
      BY <3>1, <3>3, <1>6
    <3>4. QED
      BY <3>2, <3>3
  <2>2. QED
    BY <1>1, <1>3, <1>6, <1>7, <1>8, <2>1, PostTypes DEF GuestCartInv, StillSomewhere
<1>15. QED
  BY <1>9, <1>11, <1>12, <1>13, <1>14 DEF GuestCartInv

(* A settled move leaves nothing of its tab awaited. *)
LEMMA SettledSteps ==
  ASSUME GuestCartInv, NEW i \in DOMAIN posts, HearMoved(i) \/ HearRefused(i) \/ HearNothing(i)
  PROVE  GuestCartInv'
<1> DEFINE t == posts[i].tab
<1>1. GuestCartTypeOK
  BY DEF GuestCartInv
<1>2. /\ posts[i].heeded /\ posts' = [posts EXCEPT ![i].heeded = FALSE]
      /\ inFlight' = [inFlight EXCEPT ![t] = 0]
      /\ UNCHANGED <<session, knows, received, dropped>>
  BY DEF HearMoved, HearRefused, HearNothing, Settled
<1>3. \/ /\ posts[i].at = "applied" /\ kept' = {} /\ entries' = [entries EXCEPT ![t] = {}]
         /\ mayVanish' = mayVanish \cup Unseen(t) /\ mayDouble' = mayDouble
      \/ /\ mayDouble' = mayDouble \cup Items(Underway(t))
         /\ UNCHANGED <<kept, entries, mayVanish>>
  BY DEF HearMoved, HearRefused, HearNothing, Commit
<1>4. t \in Tab
  BY <1>1, PostTypes
<1>5. /\ \A j \in DOMAIN posts :
           /\ posts'[j] \in Post /\ posts'[j].tab = posts[j].tab
           /\ posts'[j].items = posts[j].items /\ posts'[j].at = posts[j].at
           /\ posts'[j].heeded => posts[j].heeded
      /\ \A j \in DOMAIN posts \ {i} : posts'[j] = posts[j]
      /\ ~posts'[i].heeded
  BY <1>1, <1>2, PostTypes DEF Post
<1>6. posts' \in Seq(Post) /\ Len(posts') = Len(posts) /\ DOMAIN posts' = DOMAIN posts
  <2>1. posts \in Seq(Post) /\ posts' \in [DOMAIN posts -> Post]
    BY <1>1, <1>2, <1>5 DEF GuestCartTypeOK
  <2>2. QED
    BY <2>1, MappedSequence
<1>7. Entry' = Entry /\ Post' = Post
  BY <1>2 DEF Entry, Post
<1>8. Items(Underway(t)) \subseteq Entry /\ Unseen(t) \subseteq Entry
  BY <1>1, PostTypes DEF Items, Underway, Unseen, GuestCartTypeOK
<1>9. inFlight'[t] = 0 /\ \A u \in Tab \ {t} : inFlight'[u] = inFlight[u]
  BY <1>1, <1>2, <1>4 DEF GuestCartTypeOK
<1> HIDE DEF t
<1>10. GuestCartTypeOK'
  <2>1. inFlight' \in [Tab -> 0..Len(posts')]
    <3>1. 0 \in 0..Len(posts) /\ Len(posts') = Len(posts) /\ inFlight \in [Tab -> 0..Len(posts)]
      BY <1>1, <1>6, PostTypes DEF GuestCartTypeOK
    <3>2. QED
      BY <1>2, <3>1
  <2>2. /\ kept' \subseteq Entry /\ entries' \in [Tab -> SUBSET Entry]
        /\ mayDouble' \cup mayVanish' \subseteq Entry
    BY <1>1, <1>3, <1>8 DEF GuestCartTypeOK
  <2>3. QED
    BY <1>1, <1>2, <1>6, <1>7, <2>1, <2>2 DEF GuestCartTypeOK
<1>11. \A j \in DOMAIN posts : Reaches(j)' = Reaches(j)
  BY <1>5 DEF Reaches
<1>12. KeptIsAwaited'
  <2> SUFFICES ASSUME NEW j \in DOMAIN posts, Reaches(j),
                      NEW n \in (posts[j].items \cap kept') \ mayDouble'
               PROVE  Awaits(j)'
    BY <1>5, <1>6, <1>11 DEF KeptIsAwaited
  <2>1. mayDouble' = mayDouble \cup Items(Underway(t)) /\ kept' = kept
    BY <1>3
  <2>2. Awaits(j)
    BY <2>1 DEF GuestCartInv, KeptIsAwaited
  <2>3. posts[j].tab # t
    <3>1. SUFFICES j \notin Underway(t)
      BY <2>2 DEF Awaits, Underway, Reaches
    <3>2. QED
      BY <2>1 DEF Items
  <2>4. QED
    BY <1>1, <1>5, <1>9, <2>2, <2>3, PostTypes DEF Awaits, t
<1>13. MovedByOne'
  <2>1. mayDouble \subseteq mayDouble'
    BY <1>3
  <2>2. QED
    BY <1>5, <1>6, <1>11, <2>1 DEF GuestCartInv, MovedByOne
<1>14. ArrivedByMove'
  <2>1. mayDouble \subseteq mayDouble'
    BY <1>3
  <2>2. QED
    BY <1>2, <1>5, <1>6, <1>7, <2>1 DEF GuestCartInv, ArrivedByMove
<1>15. CopyIsMoved'
  <2> SUFFICES ASSUME NEW u \in Tab, NEW j \in Underway(u)'
               PROVE  entries'[u] \subseteq posts'[j].items \cup mayVanish'
    BY DEF CopyIsMoved
  <2>1. j \in Underway(u) /\ j \in DOMAIN posts
    BY <1>5, <1>6 DEF Underway
  <2>2. entries[u] \subseteq posts[j].items \cup mayVanish
    BY <2>1 DEF GuestCartInv, CopyIsMoved
  <2>3. entries'[u] \subseteq entries[u] /\ mayVanish \subseteq mayVanish'
    BY <1>1, <1>3 DEF GuestCartTypeOK
  <2>4. QED
    BY <1>5, <2>1, <2>2, <2>3
<1>16. StillSomewhere'
  <2>1. CASE kept' = kept
    BY <1>2, <1>3, <1>7, <2>1 DEF GuestCartInv, StillSomewhere
  <2>2. CASE /\ posts[i].at = "applied"
             /\ mayVanish' = mayVanish \cup Unseen(t) /\ mayDouble' = mayDouble
    <3>1. i \in Underway(t)
      BY <1>2, <2>2 DEF Underway, t
    <3>2. entries[t] \subseteq posts[i].items \cup mayVanish
      BY <3>1, <1>4 DEF GuestCartInv, CopyIsMoved
    <3>3. \A n \in posts[i].items : received[n] >= 1
      BY <2>2 DEF GuestCartInv, ArrivedByMove
    <3>4. QED
      BY <1>2, <1>7, <2>2, <3>2, <3>3 DEF GuestCartInv, StillSomewhere, Unseen
  <2>3. QED
    BY <1>3, <2>1, <2>2
<1>17. QED
  BY <1>10, <1>12, <1>13, <1>14, <1>15, <1>16 DEF GuestCartInv

LEMMA GuestCartSteps ==
  GuestCartInv /\ [GuestCartNext]_guestCartVars => GuestCartInv'
<1> SUFFICES ASSUME GuestCartInv, [GuestCartNext]_guestCartVars
             PROVE  GuestCartInv'
  OBVIOUS
<1>1. ASSUME NEW t \in Tab, SignInTab(t) \/ Navigate(t)
      PROVE  GuestCartInv'
  <2>1. knows' \subseteq Tab /\ session' \in BOOLEAN
    BY <1>1 DEF SignInTab, Navigate, GuestCartInv, GuestCartTypeOK
  <2>2. /\ MergeGuestCart(t, entries[t], inFlight[t])
        /\ mayDouble' = mayDouble \cup AlsoElsewhere(t)
        /\ UNCHANGED <<kept, entries, received, dropped>>
    BY <1>1 DEF SignInTab, Navigate
  <2>3. QED
    BY <2>1, <2>2, MergeSteps
<1>2. CASE UNCHANGED guestCartVars
  BY <1>2 DEF guestCartVars, cartStory, GuestCartInv, GuestCartTypeOK, KeptIsAwaited, MovedByOne,
     ArrivedByMove, CopyIsMoved, StillSomewhere, Reaches, Awaits, Underway, Entry, Post
<1>3. CASE GuestCartNext
  BY <1>1, <1>3, GuestEntrySteps, ForgetSteps, ReloadSteps, PostAtApiSteps, SettledSteps
     DEF GuestCartNext
<1>4. QED
  BY <1>2, <1>3

LEMMA GuestCartInvariant ==
  GuestCartSpec => []GuestCartInv
<1>1. QED
  BY GuestCartStarts, GuestCartSteps, PTL DEF GuestCartSpec

(* What local storage and each tab's copy hold are entries that were added, and a
   tab waits for a move that was made (guest-cart.ts, guest-cart-merge.tsx). *)
THEOREM GuestCartTyped ==
  GuestCartSpec => []GuestCartTypeOK
<1>1. GuestCartInv => GuestCartTypeOK
  BY DEF GuestCartInv
<1>2. QED
  BY GuestCartInvariant, <1>1, PTL

(* For any number of tabs, entries and moves: an entry reaches the account twice only
   for one of the listed reasons, and is lost only for one of them
   (guest-cart-merge.tsx, mergeGuestCart). *)
THEOREM GuestEntriesMoveOnce ==
  GuestCartSpec => []EntriesMoveOnce
<1>1. GuestCartInv => EntriesMoveOnce
  <2> SUFFICES ASSUME GuestCartInv, NEW n \in Entry
               PROVE  /\ received[n] <= 1 \/ n \in mayDouble
                      /\ received[n] >= 1 \/ n \in kept \cup dropped \cup mayVanish
    BY DEF EntriesMoveOnce
  <2>1. received[n] \in Nat
    BY PostTypes DEF GuestCartInv
  <2>2. received[n] <= 1 \/ n \in mayDouble
    BY <2>1 DEF GuestCartInv, ArrivedByMove
  <2>3. QED
    BY <2>2 DEF GuestCartInv, StillSomewhere
<1>2. QED
  BY GuestCartInvariant, <1>1, PTL

-------------------------------------------------------------------------------
(* Checkout: why a line is ordered once.                                   *)

Placed(i) == submissions[i].at = "placed"

Asked == IF believes THEN seen ELSE basket

(* An order, or what may still become one. *)
Live(i) == Placed(i) \/ (submissions[i].at \in {"sent", "priced"} /\ ~Existing(i))

(* The page believes what the API knows, unless something befell it. *)
CallerKnown ==
  /\ bearer => believes
  /\ \A i \in DOMAIN submissions :
       /\ submissions[i].by = "account" => submissions[i].believed
       /\ submissions[i].believed /\ submissions[i].by # "account" =>
            submissions[i].lines \subseteq retold

CartsApart ==
  /\ basket \cap (basketAtApi \cup seen) = {}
  /\ \A i \in DOMAIN submissions : submissions[i].believed => submissions[i].lines \cap basket = {}

(* One submission at a time under the key of a form; the page may lose its *)
(* belief while the form is open, never gain it.                           *)
OneForm ==
  /\ \A i \in DOMAIN submissions :
       /\ submissions[i].key <= forms
       /\ checkout.open /\ believes /\ submissions[i].key = checkout.key => submissions[i].believed
  /\ \A k, i \in DOMAIN submissions :
       submissions[k].key = submissions[i].key =>
         /\ submissions[i].reply = "awaited" => k <= i
         /\ k < i => /\ submissions[i].believed => submissions[k].believed
                     /\ \/ submissions[k].lines = submissions[i].lines
                        \/ submissions[i].lines \subseteq overlooked

(* A second attempt asks for the same order as the first. *)
SameAgain ==
  checkout.open =>
    \A i \in Pending :
      \/ submissions[i].lines \subseteq retold
      \/ /\ submissions[i].key = checkout.key
         /\ submissions[i].by = ScopedBy(checkout.email /\ ~believes)

OneOrder ==
  \A i, j \in DOMAIN submissions :
    /\ Live(i) /\ Live(j) =>
         SameOrder(i, j) \/ submissions[i].lines \cap submissions[j].lines \subseteq retold
    /\ Placed(i) /\ Placed(j) /\ SameOrder(i, j) => i = j

AnsweredForOne ==
  \A i \in DOMAIN submissions :
    submissions[i].at = "duplicate" \/ submissions[i].reply = "heard" => Existing(i)

(* What was ordered is not asked for again. *)
OrderedIsOut ==
  \A i \in DOMAIN submissions :
    LET out(lines) == submissions[i].lines \cap lines \subseteq retold
    IN
    /\ Placed(i) /\ submissions[i].reply = "heard" =>
         out(basket \cup basketAtApi) /\ (checkout.open => out(Asked))
    /\ Placed(i) /\ submissions[i].by = "account" => out(basketAtApi)
    /\ i \in Pending /\ ~submissions[i].believed => out(basketAtApi)

LineIsSomewhere ==
  \A n \in AnyLine :
    \/ n \in basket \cup basketAtApi \cup overlooked
    \/ \E i \in DOMAIN submissions : Placed(i) /\ n \in submissions[i].lines

CheckoutInv ==
  /\ CheckoutTypeOK
  /\ CallerKnown /\ CartsApart /\ OneForm /\ SameAgain
  /\ OneOrder /\ AnsweredForOne /\ OrderedIsOut /\ LineIsSomewhere

LEMMA SubmissionTypes ==
  ASSUME CheckoutTypeOK
  PROVE  /\ Len(submissions) \in Nat /\ DOMAIN submissions = 1..Len(submissions)
         /\ added \in Nat /\ forms \in Nat
         /\ checkout.open \in BOOLEAN /\ checkout.email \in BOOLEAN /\ checkout.key \in 0..forms
         /\ \A i \in DOMAIN submissions :
              /\ i \in Nat /\ submissions[i] \in Submission
              /\ submissions[i].key \in Nat /\ submissions[i].by \in Caller
              /\ submissions[i].lines \subseteq AnyLine
              /\ submissions[i].believed \in BOOLEAN /\ submissions[i].member \in BOOLEAN
              /\ submissions[i].at \in {"sent", "priced", "placed", "duplicate", "refused"}
              /\ submissions[i].reply \in {"awaited", "heard", "missed"}
<1>1. submissions \in Seq(Submission)
  BY DEF CheckoutTypeOK
<1>2. Len(submissions) \in Nat /\ DOMAIN submissions = 1..Len(submissions)
  BY <1>1
<1>3. \A i \in DOMAIN submissions : i \in Nat /\ submissions[i] \in Submission
  BY <1>1
<1>4. added \in Nat /\ forms \in Nat
  BY CheckoutAssumption DEF CheckoutTypeOK
<1>5. checkout.open \in BOOLEAN /\ checkout.email \in BOOLEAN /\ checkout.key \in 0..forms
  BY DEF CheckoutTypeOK
<1>6. QED
  BY <1>2, <1>3, <1>4, <1>5 DEF Submission

LEMMA NoFormType ==
  ASSUME CheckoutTypeOK
  PROVE  NoForm \in [open : BOOLEAN, key : 0..forms, email : BOOLEAN] /\ ~NoForm.open
  BY SubmissionTypes DEF NoForm

LEMMA CheckoutStarts ==
  CheckoutInit => CheckoutInv
<1> SUFFICES ASSUME CheckoutInit
             PROVE  CheckoutInv
  OBVIOUS
<1> USE DEF CheckoutInit
<1>1. submissions = <<>> /\ Len(submissions) = 0 /\ DOMAIN submissions = {} /\ AnyLine = {}
  BY DEF AnyLine
<1>2. CheckoutTypeOK
  <2>1. submissions \in Seq(Submission) /\ Len(submissions) <= MaxSubmissions
    BY <1>1, CheckoutAssumption
  <2>2. added \in 0..MaxErrands /\ forms \in 0..MaxErrands /\ added + forms <= MaxErrands
    BY CheckoutAssumption
  <2>3. checkout \in [open : BOOLEAN, key : 0..forms, email : BOOLEAN]
    BY DEF NoForm
  <2>4. QED
    BY <2>1, <2>2, <2>3, <1>1 DEF CheckoutTypeOK
<1>3. ~checkout.open /\ (bearer => believes)
  BY DEF NoForm
<1>4. CallerKnown /\ CartsApart /\ OneForm /\ SameAgain
  BY <1>1, <1>3 DEF CallerKnown, CartsApart, OneForm, SameAgain
<1>5. OneOrder /\ AnsweredForOne /\ OrderedIsOut /\ LineIsSomewhere
  BY <1>1 DEF OneOrder, AnsweredForOne, OrderedIsOut, LineIsSomewhere
<1>6. QED
  BY <1>2, <1>4, <1>5 DEF CheckoutInv

(* What says nothing of the requests changes with them only. *)
LEMMA SubmissionsStay ==
  ASSUME UNCHANGED submissions
  PROVE  /\ Pending' = Pending /\ LinesOf(Pending)' = LinesOf(Pending)
         /\ \A i, j : SameOrder(i, j)' = SameOrder(i, j)
         /\ \A i : Existing(i)' = Existing(i)
         /\ \A i : Placed(i)' = Placed(i) /\ Live(i)' = Live(i)
  BY DEF Pending, LinesOf, SameOrder, Existing, Placed, Live

(* A change of the caller, the carts or the form: whatever is on its way   *)
(* is from now on asked for anew.                                          *)
LEMMA TurnKeeps ==
  ASSUME CheckoutInv, Turns, UNCHANGED <<submissions, overlooked>>,
         CheckoutTypeOK', bearer' => believes', forms' >= forms,
         basket' \cap (basketAtApi' \cup seen') = {},
         basket' \cap AnyLine \subseteq basket,
         basketAtApi' \cap AnyLine \subseteq basketAtApi \cup basket,
         basket \cup basketAtApi \cup (AnyLine' \ AnyLine) \subseteq basket' \cup basketAtApi',
         checkout'.open => \/ checkout'.key = forms + 1
                           \/ checkout.open /\ checkout'.key = checkout.key /\ (believes' => believes),
         checkout'.open =>
           Asked' \subseteq basket \cup basketAtApi \cup (IF checkout.open THEN Asked ELSE {})
  PROVE  CheckoutInv'
<1>1. CheckoutTypeOK
  BY DEF CheckoutInv
<1>2. retold \subseteq retold' /\ \A i \in Pending : submissions[i].lines \subseteq retold'
  BY DEF Turns, LinesOf
<1>3. CallerKnown'
  BY <1>2 DEF CheckoutInv, CallerKnown
<1>4. CartsApart'
  BY <1>1, SubmissionTypes DEF CheckoutInv, CartsApart
<1>5. OneForm'
  <2>1. forms \in Nat /\ forms' \in Nat
    BY <1>1, SubmissionTypes DEF CheckoutTypeOK
  <2>2. ASSUME NEW i \in DOMAIN submissions
        PROVE  /\ submissions[i].key <= forms'
               /\ checkout'.open /\ believes' /\ submissions[i].key = checkout'.key =>
                    submissions[i].believed
    <3>1. submissions[i].key <= forms /\ submissions[i].key \in Nat
      BY <1>1, SubmissionTypes DEF CheckoutInv, OneForm
    <3>2. QED
      BY <2>1, <3>1 DEF CheckoutInv, OneForm
  <2>3. QED
    BY <2>2 DEF CheckoutInv, OneForm
<1>6. SameAgain'
  BY <1>2, SubmissionsStay DEF SameAgain
<1>7. OneOrder' /\ AnsweredForOne'
  BY <1>2, SubmissionsStay DEF CheckoutInv, OneOrder, AnsweredForOne
<1>8. OrderedIsOut'
  <2> SUFFICES ASSUME NEW i \in DOMAIN submissions
               PROVE  /\ Placed(i) /\ submissions[i].reply = "heard" =>
                           /\ submissions[i].lines \cap (basket' \cup basketAtApi') \subseteq retold'
                           /\ checkout'.open => submissions[i].lines \cap Asked' \subseteq retold'
                      /\ Placed(i) /\ submissions[i].by = "account" =>
                           submissions[i].lines \cap basketAtApi' \subseteq retold'
                      /\ i \in Pending /\ ~submissions[i].believed =>
                           submissions[i].lines \cap basketAtApi' \subseteq retold'
    BY SubmissionsStay DEF OrderedIsOut
  <2>1. submissions[i].lines \subseteq AnyLine
    BY <1>1, SubmissionTypes
  <2>2. ASSUME Placed(i), submissions[i].reply = "heard"
        PROVE  /\ submissions[i].lines \cap (basket \cup basketAtApi) \subseteq retold
               /\ checkout.open => submissions[i].lines \cap Asked \subseteq retold
    BY <2>2 DEF CheckoutInv, OrderedIsOut
  <2>3. ASSUME Placed(i), submissions[i].by = "account"
        PROVE  /\ submissions[i].lines \cap basketAtApi \subseteq retold
               /\ submissions[i].lines \cap basket = {}
    BY <2>3 DEF CheckoutInv, OrderedIsOut, CallerKnown, CartsApart
  <2>4. QED
    BY <1>2, <2>1, <2>2, <2>3
<1>9. LineIsSomewhere'
  BY SubmissionsStay DEF CheckoutInv, LineIsSomewhere
<1>10. QED
  BY <1>3, <1>4, <1>5, <1>6, <1>7, <1>8, <1>9 DEF CheckoutInv

LEMMA TypesKept ==
  ASSUME CheckoutTypeOK, UNCHANGED <<submissions, overlooked>>, Turns,
         added' \in added..MaxErrands, forms' \in 0..MaxErrands, added' + forms' <= MaxErrands,
         basket' \cup basketAtApi' \cup seen' \subseteq AnyLine',
         alive' \in BOOLEAN, bearer' \in BOOLEAN, believes' \in BOOLEAN, network' \in Network,
         checkout' \in [open : BOOLEAN, key : 0..forms', email : BOOLEAN]
  PROVE  CheckoutTypeOK'
<1>1. added' \in 0..MaxErrands /\ AnyLine \subseteq AnyLine'
  BY SubmissionTypes DEF AnyLine
<1>2. Submission \subseteq Submission' /\ submissions \in Seq(Submission)
  BY <1>1 DEF Submission, Caller, CheckoutTypeOK
<1>3. submissions' \in Seq(Submission')
  BY <1>2
<1>4. LinesOf(Pending) \subseteq AnyLine
  BY SubmissionTypes DEF LinesOf, Pending
<1>5. retold' \cup overlooked' \subseteq AnyLine'
  BY <1>1, <1>4 DEF Turns, CheckoutTypeOK
<1>6. Len(submissions') <= MaxSubmissions
  BY DEF CheckoutTypeOK
<1>7. QED
  BY <1>1, <1>3, <1>5, <1>6 DEF CheckoutTypeOK

LEMMA CallerTurns ==
  ASSUME CheckoutInv,
         \/ TokenExpires \/ SessionEnds \/ EditEmail
         \/ \E place \in Network : MoveTo(place)
  PROVE  CheckoutInv'
<1>1. CheckoutTypeOK
  BY DEF CheckoutInv
<1>2. /\ UNCHANGED <<added, basket, basketAtApi, seen, believes, forms, submissions, overlooked>>
      /\ Turns /\ alive' \in BOOLEAN /\ bearer' \in BOOLEAN /\ (bearer' => bearer) /\ network' \in Network
      /\ checkout' \in [open : BOOLEAN, key : 0..forms, email : BOOLEAN]
      /\ checkout'.open = checkout.open /\ checkout'.key = checkout.key
  <2>1. CASE TokenExpires
    BY <1>1, <2>1 DEF TokenExpires, carts, CheckoutTypeOK
  <2>2. CASE SessionEnds
    BY <1>1, <2>2 DEF SessionEnds, carts, CheckoutTypeOK
  <2>3. CASE EditEmail
    BY <1>1, <2>3 DEF EditEmail, carts, caller, CheckoutTypeOK
  <2>4. CASE \E place \in Network : MoveTo(place)
    BY <1>1, <2>4 DEF MoveTo, carts, CheckoutTypeOK
  <2>5. QED
    BY <2>1, <2>2, <2>3, <2>4
<1>3. AnyLine' = AnyLine /\ Asked' = Asked
  BY <1>2 DEF AnyLine, Asked
<1>4. CheckoutTypeOK'
  <2>1. /\ added' \in added..MaxErrands /\ forms' \in 0..MaxErrands /\ added' + forms' <= MaxErrands
        /\ basket' \cup basketAtApi' \cup seen' \subseteq AnyLine' /\ believes' \in BOOLEAN
    BY <1>1, <1>2, <1>3, SubmissionTypes DEF CheckoutTypeOK
  <2>2. QED
    BY <1>1, <1>2, <2>1, TypesKept
<1>5. QED
  <2>1. forms' >= forms
    BY <1>1, <1>2, SubmissionTypes
  <2>2. basket \cap (basketAtApi \cup seen) = {} /\ (bearer => believes)
    BY DEF CheckoutInv, CartsApart, CallerKnown
  <2>3. QED
    BY <1>2, <1>3, <1>4, <2>1, <2>2, TurnKeeps

LEMMA AccountTurns ==
  ASSUME CheckoutInv,
         FetchCart \/ LeaveAccount \/ \E moves \in BOOLEAN : EnterAccount(moves)
  PROVE  CheckoutInv'
<1>1. CheckoutTypeOK
  BY DEF CheckoutInv
<1>2. basket \cap (basketAtApi \cup seen) = {} /\ (bearer => believes)
  BY DEF CheckoutInv, CartsApart, CallerKnown
<1>3. /\ UNCHANGED <<added, network, forms, submissions, overlooked>> /\ Turns
      /\ alive' \in BOOLEAN /\ bearer' \in BOOLEAN /\ believes' \in BOOLEAN /\ (bearer' => believes')
      /\ basket' \cap (basketAtApi' \cup seen') = {} /\ basket' \subseteq basket
      /\ basketAtApi' \subseteq basketAtApi \cup basket /\ seen' \subseteq AnyLine
      /\ basket \cup basketAtApi \subseteq basket' \cup basketAtApi'
      /\ checkout' = checkout \/ checkout' = NoForm
      /\ checkout'.open => (believes' => believes) /\ Asked' \subseteq basket \cup basketAtApi
  <2>1. CASE FetchCart
    BY <1>1, <1>2, <2>1, NoFormType DEF FetchCart, Showing, CheckoutTypeOK, Asked
  <2>2. CASE LeaveAccount
    BY <1>1, <1>2, <2>2, NoFormType DEF LeaveAccount, Showing, CheckoutTypeOK, Asked
  <2>3. CASE \E moves \in BOOLEAN : EnterAccount(moves)
    <3>1. PICK moves \in BOOLEAN : EnterAccount(moves)
      BY <2>3
    <3>2. QED
      BY <1>1, <1>2, <3>1 DEF EnterAccount, CheckoutTypeOK
  <2>4. QED
    BY <2>1, <2>2, <2>3
<1>4. AnyLine' = AnyLine
  BY <1>3 DEF AnyLine
<1>5. CheckoutTypeOK'
  <2>1. /\ added' \in added..MaxErrands /\ forms' \in 0..MaxErrands /\ added' + forms' <= MaxErrands
        /\ network' \in Network
    BY <1>1, <1>3, SubmissionTypes DEF CheckoutTypeOK
  <2>2. basket' \cup basketAtApi' \cup seen' \subseteq AnyLine'
    BY <1>1, <1>3, <1>4 DEF CheckoutTypeOK
  <2>3. checkout' \in [open : BOOLEAN, key : 0..forms', email : BOOLEAN]
    BY <1>1, <1>3, NoFormType DEF CheckoutTypeOK
  <2>4. QED
    BY <1>1, <1>3, <2>1, <2>2, <2>3, TypesKept
<1>6. forms' >= forms
  BY <1>1, <1>3, SubmissionTypes
<1>7. checkout'.open => checkout.open /\ checkout'.key = checkout.key /\ (believes' => believes)
  BY <1>1, <1>3, NoFormType
<1>8. QED
  BY <1>3, <1>4, <1>5, <1>6, <1>7, TurnKeeps

LEMMA ErrandTurns ==
  ASSUME CheckoutInv, AddLine \/ OpenCheckout
  PROVE  CheckoutInv'
<1>1. CheckoutTypeOK
  BY DEF CheckoutInv
<1>2. basket \cap (basketAtApi \cup seen) = {} /\ (bearer => believes)
  BY DEF CheckoutInv, CartsApart, CallerKnown
<1>3. basket \cup basketAtApi \cup seen \subseteq AnyLine /\ added \in Nat /\ forms \in Nat
  BY <1>1, SubmissionTypes DEF CheckoutTypeOK
<1>4. CASE AddLine
  <2> DEFINE n == added + 1
  <2>1. /\ ~checkout.open /\ n + forms <= MaxErrands /\ added' = n /\ bearer' = believes
        /\ \/ basketAtApi' = basketAtApi \cup {n} /\ basket' = basket
           \/ basket' = basket \cup {n} /\ basketAtApi' = basketAtApi
        /\ Turns
        /\ UNCHANGED <<seen, alive, believes, network, checkout, forms, submissions, overlooked>>
    BY <1>4 DEF AddLine
  <2>2. AnyLine' = AnyLine \cup {n} /\ n \notin AnyLine
    BY <1>3, <2>1 DEF AnyLine
  <2>3. n \in added..MaxErrands /\ forms \in 0..MaxErrands
    BY <1>1, <1>3, <2>1, CheckoutAssumption
  <2> HIDE DEF n
  <2>4. basket' \cup basketAtApi' \cup seen' \subseteq AnyLine'
    BY <1>3, <2>1, <2>2
  <2>5. /\ alive' \in BOOLEAN /\ bearer' \in BOOLEAN /\ believes' \in BOOLEAN /\ network' \in Network
        /\ checkout' \in [open : BOOLEAN, key : 0..forms', email : BOOLEAN]
    BY <1>1, <2>1 DEF CheckoutTypeOK
  <2>6. CheckoutTypeOK'
    <3>1. added' + forms' <= MaxErrands
      BY <2>1
    <3>2. QED
      BY <1>1, <2>1, <2>3, <2>4, <2>5, <3>1, TypesKept
  <2>7. basket' \cap (basketAtApi' \cup seen') = {}
    BY <1>2, <1>3, <2>1, <2>2
  <2>8. /\ basket' \cap AnyLine \subseteq basket
        /\ basketAtApi' \cap AnyLine \subseteq basketAtApi \cup basket
        /\ basket \cup basketAtApi \cup (AnyLine' \ AnyLine) \subseteq basket' \cup basketAtApi'
    BY <2>1, <2>2
  <2>9. ~checkout'.open /\ (bearer' => believes') /\ forms' >= forms
    BY <1>3, <2>1
  <2>10. QED
    BY <2>1, <2>6, <2>7, <2>8, <2>9, TurnKeeps
<1>5. CASE OpenCheckout
  <2>1. /\ added + forms < MaxErrands /\ forms' = forms + 1 /\ bearer' = alive /\ believes' = alive
        /\ seen' = IF alive THEN basketAtApi ELSE {}
        /\ checkout' = [open |-> TRUE, key |-> forms + 1, email |-> FALSE]
        /\ Turns
        /\ UNCHANGED <<added, basket, basketAtApi, alive, network, submissions, overlooked>>
    BY <1>5 DEF OpenCheckout
  <2>2. AnyLine' = AnyLine /\ checkout'.key = forms + 1 /\ forms' >= forms
    BY <1>3, <2>1 DEF AnyLine
  <2>3. CheckoutTypeOK'
    <3>1. added' \in added..MaxErrands /\ forms' \in 0..MaxErrands /\ added' + forms' <= MaxErrands
      BY <1>3, <2>1, CheckoutAssumption
    <3>2. basket' \cup basketAtApi' \cup seen' \subseteq AnyLine'
      BY <1>3, <2>1, <2>2
    <3>3. checkout' \in [open : BOOLEAN, key : 0..forms', email : BOOLEAN]
      BY <1>3, <2>1
    <3>4. alive' \in BOOLEAN /\ bearer' \in BOOLEAN /\ believes' \in BOOLEAN /\ network' \in Network
      BY <1>1, <2>1 DEF CheckoutTypeOK
    <3>5. QED
      BY <1>1, <2>1, <3>1, <3>2, <3>3, <3>4, TypesKept
  <2>4. Asked' \subseteq basket \cup basketAtApi
    BY <2>1 DEF Asked
  <2>5. /\ basket' \cap (basketAtApi' \cup seen') = {} /\ (bearer' => believes')
        /\ basket' \cap AnyLine \subseteq basket
        /\ basketAtApi' \cap AnyLine \subseteq basketAtApi \cup basket
        /\ basket \cup basketAtApi \cup (AnyLine' \ AnyLine) \subseteq basket' \cup basketAtApi'
    BY <1>2, <2>1, <2>2
  <2>6. QED
    BY <2>1, <2>2, <2>3, <2>4, <2>5, TurnKeeps
<1>6. QED
  BY <1>4, <1>5

(* Answers that nobody heard, and a form that was left. *)
LEMMA MissKeeps ==
  ASSUME CheckoutInv, DOMAIN submissions' = DOMAIN submissions, submissions' \in Seq(Submission),
         Len(submissions') = Len(submissions),
         \A i \in DOMAIN submissions :
           /\ submissions'[i].key = submissions[i].key /\ submissions'[i].by = submissions[i].by
           /\ submissions'[i].lines = submissions[i].lines /\ submissions'[i].at = submissions[i].at
           /\ submissions'[i].believed = submissions[i].believed
           /\ \/ submissions'[i].reply = submissions[i].reply
              \/ submissions[i].reply = "awaited" /\ submissions'[i].reply = "missed",
         checkout' = checkout \/ checkout' = NoForm,
         UNCHANGED <<carts, caller, forms, retold, overlooked>>
  PROVE  CheckoutInv'
<1>1. CheckoutTypeOK
  BY DEF CheckoutInv
<1>2. /\ UNCHANGED <<added, basket, basketAtApi, seen, alive, bearer, believes, network>>
      /\ AnyLine' = AnyLine /\ Submission' = Submission /\ Asked' = Asked
  BY DEF carts, caller, AnyLine, Submission, Asked, Caller
<1>3. CheckoutTypeOK'
  <2>1. checkout' \in [open : BOOLEAN, key : 0..forms, email : BOOLEAN]
    BY <1>1, NoFormType DEF CheckoutTypeOK
  <2>2. QED
    BY <1>1, <1>2, <2>1 DEF CheckoutTypeOK
<1>4. checkout'.open => checkout' = checkout
  BY <1>1, NoFormType
<1>5. /\ \A i \in DOMAIN submissions :
           submissions'[i].reply = "awaited" => submissions[i].reply = "awaited"
      /\ \A i \in DOMAIN submissions :
           submissions'[i].reply = "heard" <=> submissions[i].reply = "heard"
  OBVIOUS
<1>6. Pending' = Pending
  BY <1>5 DEF Pending
<1>7. /\ \A i, j \in DOMAIN submissions : SameOrder(i, j)' = SameOrder(i, j)
      /\ \A i \in DOMAIN submissions : Placed(i)' = Placed(i)
  BY DEF SameOrder, Placed
<1>8. \A i \in DOMAIN submissions : Existing(i)' = Existing(i)
  BY <1>7 DEF Existing, Placed
<1>9. \A i \in DOMAIN submissions : Live(i)' = Live(i)
  BY <1>7, <1>8 DEF Live
<1>10. CallerKnown' /\ CartsApart'
  BY <1>2 DEF CheckoutInv, CallerKnown, CartsApart
<1>11. OneForm'
  BY <1>2, <1>4, <1>5 DEF CheckoutInv, OneForm
<1>12. SameAgain'
  <2>1. \A i \in Pending : i \in DOMAIN submissions
    BY DEF Pending
  <2>2. checkout'.open => ScopedBy(checkout.email /\ ~believes)' = ScopedBy(checkout.email /\ ~believes)
    BY <1>2, <1>4 DEF ScopedBy
  <2>3. QED
    BY <1>4, <1>6, <2>1, <2>2 DEF CheckoutInv, SameAgain
<1>13. OneOrder'
  BY <1>7, <1>9 DEF CheckoutInv, OneOrder
<1>14. AnsweredForOne'
  BY <1>5, <1>8 DEF CheckoutInv, AnsweredForOne
<1>15. OrderedIsOut'
  <2> SUFFICES ASSUME NEW i \in DOMAIN submissions
               PROVE  /\ Placed(i)' /\ submissions'[i].reply = "heard" =>
                           /\ submissions'[i].lines \cap (basket' \cup basketAtApi') \subseteq retold'
                           /\ checkout'.open => submissions'[i].lines \cap Asked' \subseteq retold'
                      /\ Placed(i)' /\ submissions'[i].by = "account" =>
                           submissions'[i].lines \cap basketAtApi' \subseteq retold'
                      /\ i \in Pending' /\ ~submissions'[i].believed =>
                           submissions'[i].lines \cap basketAtApi' \subseteq retold'
    BY DEF OrderedIsOut
  <2>1. QED
    BY <1>2, <1>4, <1>5, <1>6, <1>7 DEF CheckoutInv, OrderedIsOut
<1>16. LineIsSomewhere'
  BY <1>2, <1>7 DEF CheckoutInv, LineIsSomewhere
<1>17. QED
  BY <1>3, <1>10, <1>11, <1>12, <1>13, <1>14, <1>15, <1>16 DEF CheckoutInv

LEMMA FormSteps ==
  ASSUME CheckoutInv,
         \/ LeaveCheckout \/ ReloadCheckout
         \/ \E i \in DOMAIN submissions : HearRefusal(i) \/ LoseAnswerTo(i)
  PROVE  CheckoutInv'
<1>1. CheckoutTypeOK /\ submissions \in Seq(Submission)
  BY DEF CheckoutInv, CheckoutTypeOK
<1>2. CASE LeaveCheckout
  BY <1>1, <1>2, MissKeeps DEF LeaveCheckout
<1>3. ASSUME NEW gone \in SUBSET DOMAIN submissions,
             \A i \in gone : submissions[i].reply = "awaited",
             submissions' = [i \in DOMAIN submissions |->
                               IF i \in gone THEN [submissions[i] EXCEPT !.reply = "missed"]
                               ELSE submissions[i]],
             checkout' = checkout \/ checkout' = NoForm,
             UNCHANGED <<carts, caller, forms, retold, overlooked>>
      PROVE  CheckoutInv'
  <2>1. \A i \in DOMAIN submissions :
           /\ submissions'[i] \in Submission
           /\ submissions'[i].key = submissions[i].key /\ submissions'[i].by = submissions[i].by
           /\ submissions'[i].lines = submissions[i].lines /\ submissions'[i].at = submissions[i].at
           /\ submissions'[i].believed = submissions[i].believed
           /\ \/ submissions'[i].reply = submissions[i].reply
              \/ submissions[i].reply = "awaited" /\ submissions'[i].reply = "missed"
    BY <1>1, <1>3, SubmissionTypes DEF Submission
  <2>2. submissions' \in [DOMAIN submissions -> Submission]
    BY <1>3, <2>1
  <2>3. /\ submissions' \in Seq(Submission) /\ Len(submissions') = Len(submissions)
        /\ DOMAIN submissions' = DOMAIN submissions
    BY <1>1, <2>2, MappedSequence, SubmissionTypes
  <2>4. QED
    BY <1>3, <2>1, <2>3, MissKeeps
<1>4. CASE ReloadCheckout
  <2> DEFINE gone == {i \in DOMAIN submissions : submissions[i].reply = "awaited"}
  <2>1. submissions' = [i \in DOMAIN submissions |->
                          IF i \in gone THEN [submissions[i] EXCEPT !.reply = "missed"]
                          ELSE submissions[i]]
    BY <1>4 DEF ReloadCheckout
  <2>2. QED
    BY <1>3, <1>4, <2>1 DEF ReloadCheckout
<1>5. ASSUME NEW k \in DOMAIN submissions, HearRefusal(k) \/ LoseAnswerTo(k)
      PROVE  CheckoutInv'
  <2> DEFINE gone == {k}
  <2>1. submissions' = [i \in DOMAIN submissions |->
                          IF i \in gone THEN [submissions[i] EXCEPT !.reply = "missed"]
                          ELSE submissions[i]]
    <3>1. submissions' = [j \in DOMAIN submissions |->
                            IF j = k \/ ("missed" = "heard" /\ SameOrder(k, j))
                            THEN [submissions[j] EXCEPT !.reply = "missed"] ELSE submissions[j]]
      BY <1>5 DEF HearRefusal, LoseAnswerTo, Replies
    <3>2. \A j : (j = k \/ ("missed" = "heard" /\ SameOrder(k, j))) <=> j \in gone
      OBVIOUS
    <3> HIDE DEF gone
    <3>3. QED
      BY <3>1, <3>2
  <2>2. submissions[k].reply = "awaited" /\ UNCHANGED <<carts, caller, forms, retold, overlooked, checkout>>
    BY <1>5 DEF HearRefusal, LoseAnswerTo, Replies, carts, caller
  <2>3. gone \in SUBSET DOMAIN submissions /\ \A i \in gone : submissions[i].reply = "awaited"
    BY <2>2
  <2> HIDE DEF gone
  <2>4. QED
    BY <1>3, <2>1, <2>2, <2>3
<1>6. QED
  BY <1>2, <1>4, <1>5

(* Another attempt asks for what no order has brought, or for the order    *)
(* that may already be there.                                              *)
LEMMA SubmitSteps ==
  ASSUME CheckoutInv, OnSubmit
  PROVE  CheckoutInv'
<1>0. PICK i \in Nat : i = Len(submissions) + 1
  BY SubmissionTypes DEF CheckoutInv
<1> DEFINE key == checkout.key
           by == ScopedBy(checkout.email /\ ~believes)
           new == [key |-> key, by |-> by, lines |-> Asked, believed |-> believes,
                   member |-> believes /\ alive, at |-> "sent", reply |-> "awaited"]
<1>1. CheckoutTypeOK
  BY DEF CheckoutInv
<1>2. /\ checkout.open /\ Len(submissions) < MaxSubmissions /\ ~Submitting(key)
      /\ submissions' = Append(submissions, new)
      /\ retold' = retold \cup (IF believes /\ by # "account" THEN Asked ELSE {})
      /\ overlooked' = overlooked \cup
           (IF \E k \in DOMAIN submissions : submissions[k].key = key /\ submissions[k].lines # Asked
            THEN Asked ELSE {})
      /\ UNCHANGED <<added, basket, basketAtApi, seen, caller, checkout, forms>>
  BY DEF OnSubmit, Submits, Asked, carts
<1>3. UNCHANGED <<alive, bearer, believes, network>> /\ AnyLine' = AnyLine /\ Submission' = Submission
  BY <1>2 DEF caller, AnyLine, Submission, Caller
<1>4. key \in 0..forms /\ forms \in Nat /\ Asked \subseteq AnyLine /\ by \in Caller
  BY <1>1, SubmissionTypes DEF CheckoutTypeOK, Asked, ScopedBy, Caller
<1>5. new \in Submission
  <2>1. believes \in BOOLEAN /\ alive \in BOOLEAN /\ key \in Nat
    BY <1>1, <1>4 DEF CheckoutTypeOK
  <2>2. QED
    BY <1>4, <2>1 DEF Submission
<1>6. /\ new.key = key /\ new.by = by /\ new.lines = Asked /\ new.believed = believes
      /\ new.at = "sent" /\ new.reply = "awaited"
      /\ i \notin DOMAIN submissions /\ \A k \in DOMAIN submissions : k \in Nat /\ k < i
  BY <1>0, <1>1, SubmissionTypes
<1> HIDE DEF new, by, key
<1>7. /\ submissions' \in Seq(Submission) /\ Len(submissions') = i
      /\ DOMAIN submissions' = DOMAIN submissions \cup {i}
      /\ submissions'[i] = new /\ \A k \in DOMAIN submissions : submissions'[k] = submissions[k]
  BY <1>0, <1>1, <1>2, <1>5, SubmissionTypes DEF CheckoutTypeOK
<1>8. i <= MaxSubmissions
  BY <1>0, <1>1, <1>2, SubmissionTypes, CheckoutAssumption
<1>9. retold \subseteq retold' /\ overlooked \subseteq overlooked'
  BY <1>2
<1>10. CheckoutTypeOK'
  BY <1>1, <1>2, <1>3, <1>4, <1>7, <1>8 DEF CheckoutTypeOK
<1>11. by = "account" => believes
  <2>1. network \in Network /\ "account" \notin Network /\ (bearer => believes)
    BY <1>1, CheckoutAssumption DEF CheckoutInv, CallerKnown, CheckoutTypeOK
  <2>2. QED
    BY <2>1 DEF by, ScopedBy
<1>12. CallerKnown'
  BY <1>2, <1>3, <1>6, <1>7, <1>9, <1>11 DEF CheckoutInv, CallerKnown
<1>13. CartsApart'
  <2>1. believes => Asked \cap basket = {}
    BY DEF CheckoutInv, CartsApart, Asked
  <2>2. QED
    BY <1>2, <1>6, <1>7, <2>1 DEF CheckoutInv, CartsApart
<1>14. OneForm'
  <2>1. ASSUME NEW k \in DOMAIN submissions', NEW j \in DOMAIN submissions',
               submissions'[k].key = submissions'[j].key
        PROVE  /\ submissions'[j].reply = "awaited" => k <= j
               /\ k < j => /\ submissions'[j].believed => submissions'[k].believed
                           /\ \/ submissions'[k].lines = submissions'[j].lines
                              \/ submissions'[j].lines \subseteq overlooked'
    <3>1. CASE k \in DOMAIN submissions /\ j \in DOMAIN submissions
      BY <2>1, <3>1, <1>7, <1>9 DEF CheckoutInv, OneForm
    <3>2. CASE k \in DOMAIN submissions /\ j = i
      <4>1. submissions[k].key = key
        BY <2>1, <3>2, <1>6, <1>7
      <4>2. submissions[k].lines = Asked \/ Asked \subseteq overlooked'
        BY <3>2, <4>1, <1>2
      <4>3. believes => submissions[k].believed
        BY <3>2, <4>1, <1>2 DEF CheckoutInv, OneForm, key
      <4>4. QED
        BY <3>2, <4>2, <4>3, <1>6, <1>7
    <3>3. CASE k = i /\ j \in DOMAIN submissions
      <4>1. submissions[j].key = key
        BY <2>1, <3>3, <1>6, <1>7
      <4>2. submissions[j].reply # "awaited"
        BY <3>3, <4>1, <1>2 DEF Submitting
      <4>3. j < k /\ j \in Nat /\ k \in Nat
        BY <3>3, <1>6
      <4>4. ~(k < j)
        BY <4>3
      <4>5. QED
        BY <3>3, <4>2, <4>4, <1>7
    <3>4. CASE k = i /\ j = i
      BY <3>4, <1>6
    <3>5. QED
      BY <3>1, <3>2, <3>3, <3>4, <1>7
  <2>2. ASSUME NEW k \in DOMAIN submissions'
        PROVE  /\ submissions'[k].key <= forms'
               /\ checkout'.open /\ believes' /\ submissions'[k].key = checkout'.key =>
                    submissions'[k].believed
    <3>1. CASE k = i
      BY <3>1, <1>2, <1>3, <1>4, <1>6, <1>7
    <3>2. CASE k \in DOMAIN submissions
      BY <3>2, <1>2, <1>3, <1>7 DEF CheckoutInv, OneForm
    <3>3. QED
      BY <3>1, <3>2, <1>7
  <2>3. QED
    BY <2>1, <2>2 DEF OneForm
<1>15. /\ \A k, j \in DOMAIN submissions : SameOrder(k, j)' = SameOrder(k, j)
       /\ \A k \in DOMAIN submissions : Placed(k)' = Placed(k) /\ (k \in Pending' <=> k \in Pending)
       /\ ~Placed(i)' /\ i \in Pending'
  <2>1. \A k, j \in DOMAIN submissions : SameOrder(k, j)' = SameOrder(k, j)
    BY <1>7 DEF SameOrder
  <2>2. \A k \in DOMAIN submissions : Placed(k)' = Placed(k)
    BY <1>7 DEF Placed
  <2>3. \A k \in DOMAIN submissions : k \in Pending' <=> k \in Pending
    BY <1>7 DEF Pending
  <2>4. ~Placed(i)'
    BY <1>6, <1>7 DEF Placed
  <2>5. i \in Pending'
    BY <1>6, <1>7 DEF Pending
  <2>6. QED
    BY <2>1, <2>2, <2>3, <2>4, <2>5
<1>16. \A k \in DOMAIN submissions : Existing(k)' <=> Existing(k)
  <2>1. ASSUME NEW k \in DOMAIN submissions
        PROVE  Existing(k)' <=> Existing(k)
    <3>1. Existing(k) <=> \E j \in DOMAIN submissions : Placed(j) /\ SameOrder(k, j)
      BY DEF Existing, Placed
    <3>2. Existing(k)' <=> \E j \in DOMAIN submissions' : Placed(j)' /\ SameOrder(k, j)'
      BY DEF Existing, Placed
    <3>3. QED
      BY <3>1, <3>2, <1>7, <1>15
  <2>2. QED
    BY <2>1
<1>17. \A k \in DOMAIN submissions : Live(k)' = Live(k)
  BY <1>7, <1>15, <1>16 DEF Live
<1>18. by = by' /\ key = key'
  BY <1>2, <1>3 DEF by, key, ScopedBy
<1>19. SameAgain'
  <2> SUFFICES ASSUME NEW k \in Pending'
               PROVE  \/ submissions'[k].lines \subseteq retold'
                      \/ submissions'[k].key = key /\ submissions'[k].by = by
    BY <1>18 DEF SameAgain, key, by
  <2>1. k \in DOMAIN submissions'
    BY DEF Pending
  <2>2. CASE k = i
    BY <2>2, <1>6, <1>7
  <2>3. CASE k \in DOMAIN submissions
    <3>1. k \in Pending
      BY <2>3, <1>15
    <3>2. QED
      BY <2>3, <3>1, <1>2, <1>7, <1>9 DEF CheckoutInv, SameAgain, by, key
  <2>4. QED
    BY <2>1, <2>2, <2>3, <1>7
(* What may still bring a line was asked for in the same way. *)
<1>20. ASSUME NEW k \in DOMAIN submissions, Live(k)
       PROVE  SameOrder(k, i)' \/ submissions[k].lines \cap Asked \subseteq retold
  <2>1. CASE k \in Pending
    <3>1. submissions[k].lines \subseteq retold \/ (submissions[k].key = key /\ submissions[k].by = by)
      BY <2>1, <1>2 DEF CheckoutInv, SameAgain, by, key
    <3>2. QED
      BY <3>1, <1>6, <1>7 DEF SameOrder
  <2>2. CASE k \notin Pending
    <3>1. submissions[k].reply = "heard"
      BY <2>2, <1>20 DEF Pending, Live, Placed
    <3>2. Placed(k)
      BY <3>1, <1>20 DEF CheckoutInv, AnsweredForOne, Live
    <3>3. QED
      BY <3>1, <3>2, <1>2 DEF CheckoutInv, OrderedIsOut
  <2>3. QED
    BY <2>1, <2>2
<1>21. OneOrder'
  <2> SUFFICES ASSUME NEW k \in DOMAIN submissions', NEW j \in DOMAIN submissions'
               PROVE  /\ Live(k)' /\ Live(j)' =>
                           \/ SameOrder(k, j)'
                           \/ submissions'[k].lines \cap submissions'[j].lines \subseteq retold'
                      /\ Placed(k)' /\ Placed(j)' /\ SameOrder(k, j)' => k = j
    BY DEF OneOrder
  <2>1. CASE k \in DOMAIN submissions /\ j \in DOMAIN submissions
    BY <2>1, <1>7, <1>9, <1>15, <1>17 DEF CheckoutInv, OneOrder
  <2>2. CASE k \in DOMAIN submissions /\ j = i
    BY <2>2, <1>6, <1>7, <1>9, <1>15, <1>17, <1>20
  <2>3. CASE k = i /\ j \in DOMAIN submissions
    <3>1. SameOrder(j, i)' => SameOrder(i, j)'
      BY DEF SameOrder
    <3>2. QED
      BY <2>3, <3>1, <1>6, <1>7, <1>9, <1>15, <1>17, <1>20
  <2>4. CASE k = i /\ j = i
    BY <2>4 DEF SameOrder
  <2>5. QED
    BY <2>1, <2>2, <2>3, <2>4, <1>7
<1>22. AnsweredForOne'
  BY <1>6, <1>7, <1>16 DEF CheckoutInv, AnsweredForOne
<1>23. OrderedIsOut'
  <2> SUFFICES ASSUME NEW k \in DOMAIN submissions'
               PROVE  /\ Placed(k)' /\ submissions'[k].reply = "heard" =>
                           /\ submissions'[k].lines \cap (basket' \cup basketAtApi') \subseteq retold'
                           /\ checkout'.open => submissions'[k].lines \cap Asked' \subseteq retold'
                      /\ Placed(k)' /\ submissions'[k].by = "account" =>
                           submissions'[k].lines \cap basketAtApi' \subseteq retold'
                      /\ k \in Pending' /\ ~submissions'[k].believed =>
                           submissions'[k].lines \cap basketAtApi' \subseteq retold'
    BY DEF OrderedIsOut
  <2>1. Asked' = Asked /\ UNCHANGED <<basket, basketAtApi, checkout>>
    BY <1>2, <1>3 DEF Asked
  <2>2. CASE k = i
    <3>1. ~believes => Asked \cap basketAtApi = {}
      BY DEF CheckoutInv, CartsApart, Asked
    <3>2. QED
      BY <2>1, <2>2, <3>1, <1>6, <1>7, <1>15
  <2>3. CASE k \in DOMAIN submissions
    BY <2>1, <2>3, <1>7, <1>9, <1>15 DEF CheckoutInv, OrderedIsOut
  <2>4. QED
    BY <2>2, <2>3, <1>7
<1>24. LineIsSomewhere'
  <2>1. ASSUME NEW n \in AnyLine
        PROVE  \/ n \in basket' \cup basketAtApi' \cup overlooked'
               \/ \E k \in DOMAIN submissions' : Placed(k)' /\ n \in submissions'[k].lines
    BY <1>2, <1>7, <1>9, <1>15 DEF CheckoutInv, LineIsSomewhere
  <2>2. QED
    BY <1>3, <2>1 DEF LineIsSomewhere
<1>25. QED
  BY <1>10, <1>12, <1>13, <1>14, <1>19, <1>21, <1>22, <1>23, <1>24 DEF CheckoutInv

(* An order is written where there was none for the same request. *)
LEMMA ApiKeeps ==
  ASSUME CheckoutInv, NEW i \in DOMAIN submissions,
         NEW at \in {"priced", "placed", "duplicate", "refused"},
         submissions[i].at \in {"sent", "priced"}, Becomes(i, at),
         at = "priced" => ~Existing(i), at = "duplicate" => Existing(i),
         at = "placed" => ~Existing(i),
         UNCHANGED <<added, basket, seen, caller, checkout, forms, overlooked>>,
         basketAtApi' \subseteq basketAtApi, retold \subseteq retold', retold' \subseteq AnyLine,
         \A n \in basketAtApi \ basketAtApi' : at = "placed" /\ n \in submissions[i].lines,
         at = "placed" /\ submissions[i].by = "account" =>
           submissions[i].lines \cap basketAtApi' \subseteq retold'
  PROVE  CheckoutInv'
<1>1. CheckoutTypeOK
  BY DEF CheckoutInv
<1>2. /\ UNCHANGED <<alive, bearer, believes, network>>
      /\ AnyLine' = AnyLine /\ Submission' = Submission /\ Asked' = Asked
  BY DEF caller, AnyLine, Submission, Asked, Caller
<1>3. /\ \A k \in DOMAIN submissions :
           /\ submissions'[k] \in Submission
           /\ submissions'[k].key = submissions[k].key /\ submissions'[k].by = submissions[k].by
           /\ submissions'[k].lines = submissions[k].lines
           /\ submissions'[k].reply = submissions[k].reply
           /\ submissions'[k].believed = submissions[k].believed
      /\ \A k \in DOMAIN submissions \ {i} : submissions'[k] = submissions[k]
      /\ submissions'[i].at = at
  BY <1>1, SubmissionTypes DEF Becomes, Submission
<1>4. /\ submissions' \in Seq(Submission) /\ Len(submissions') = Len(submissions)
      /\ DOMAIN submissions' = DOMAIN submissions
  <2>1. submissions \in Seq(Submission) /\ submissions' \in [DOMAIN submissions -> Submission]
    BY <1>1, <1>3 DEF Becomes, CheckoutTypeOK
  <2>2. QED
    BY <2>1, <1>1, MappedSequence, SubmissionTypes
<1>5. CheckoutTypeOK'
  BY <1>1, <1>2, <1>4 DEF CheckoutTypeOK
<1>6. /\ \A k, j \in DOMAIN submissions : SameOrder(k, j)' <=> SameOrder(k, j)
      /\ \A k \in DOMAIN submissions : Placed(k)' <=> Placed(k) \/ (k = i /\ at = "placed")
      /\ ~Placed(i)
  <2>1. \A k, j \in DOMAIN submissions : SameOrder(k, j)' <=> SameOrder(k, j)
    BY <1>3 DEF SameOrder
  <2>2. ~Placed(i)
    BY DEF Placed
  <2>3. \A k \in DOMAIN submissions : Placed(k)' <=> Placed(k) \/ (k = i /\ at = "placed")
    BY <1>3, <2>2 DEF Placed
  <2>4. QED
    BY <2>1, <2>2, <2>3
<1>7. \A k \in DOMAIN submissions : Existing(k) => Existing(k)'
  <2>1. ASSUME NEW k \in DOMAIN submissions, Existing(k)
        PROVE  Existing(k)'
    <3>1. PICK j \in DOMAIN submissions : Placed(j) /\ SameOrder(k, j)
      BY <2>1 DEF Existing, Placed
    <3>2. Placed(j)' /\ SameOrder(k, j)' /\ j \in DOMAIN submissions'
      BY <3>1, <1>4, <1>6
    <3>3. QED
      BY <3>2 DEF Existing, Placed
  <2>2. QED
    BY <2>1
<1>8. \A k \in DOMAIN submissions : Live(k)' => Live(k)
  <2>1. ASSUME NEW k \in DOMAIN submissions, Live(k)'
        PROVE  Live(k)
    <3>1. CASE k # i
      BY <2>1, <3>1, <1>3, <1>6, <1>7 DEF Live
    <3>2. CASE k = i
      <4>1. at \in {"priced", "placed"}
        BY <2>1, <3>2, <1>3, <1>6 DEF Live
      <4>2. QED
        BY <3>2, <4>1 DEF Live
    <3>3. QED
      BY <3>1, <3>2
  <2>2. QED
    BY <2>1
<1>9. Pending' \subseteq Pending
  BY <1>3, <1>4 DEF Pending
<1>10. CallerKnown' /\ CartsApart'
  BY <1>2, <1>3, <1>4 DEF CheckoutInv, CallerKnown, CartsApart
<1>11. OneForm'
  BY <1>2, <1>3, <1>4 DEF CheckoutInv, OneForm
<1>12. SameAgain'
  <2>1. \A k \in Pending' : k \in DOMAIN submissions
    BY <1>4 DEF Pending
  <2>2. ScopedBy(checkout.email /\ ~believes)' = ScopedBy(checkout.email /\ ~believes)
    BY <1>2 DEF ScopedBy
  <2>3. ASSUME NEW k \in Pending', checkout.open
        PROVE  \/ submissions'[k].lines \subseteq retold'
               \/ /\ submissions'[k].key = checkout.key
                  /\ submissions'[k].by = ScopedBy(checkout.email /\ ~believes)
    BY <1>3, <1>9, <2>1, <2>3 DEF CheckoutInv, SameAgain
  <2>4. QED
    BY <2>2, <2>3 DEF SameAgain
<1>13. OneOrder'
  <2> SUFFICES ASSUME NEW k \in DOMAIN submissions, NEW j \in DOMAIN submissions
               PROVE  /\ Live(k)' /\ Live(j)' =>
                           \/ SameOrder(k, j)'
                           \/ submissions'[k].lines \cap submissions'[j].lines \subseteq retold'
                      /\ Placed(k)' /\ Placed(j)' /\ SameOrder(k, j)' => k = j
    BY <1>4 DEF OneOrder
  <2>1. Live(k)' /\ Live(j)' =>
          SameOrder(k, j)' \/ submissions'[k].lines \cap submissions'[j].lines \subseteq retold'
    BY <1>3, <1>6, <1>8 DEF CheckoutInv, OneOrder
  <2>2. ASSUME Placed(k)', Placed(j)', SameOrder(k, j)', k # j
        PROVE  FALSE
    <3>1. SameOrder(k, j) /\ SameOrder(j, k)
      BY <2>2, <1>6 DEF SameOrder
    <3>2. CASE Placed(k) /\ Placed(j)
      BY <2>2, <3>1, <3>2 DEF CheckoutInv, OneOrder
    <3>3. CASE k = i /\ at = "placed" /\ Placed(j)
      BY <3>1, <3>3 DEF Existing, Placed
    <3>4. CASE j = i /\ at = "placed" /\ Placed(k)
      BY <3>1, <3>4 DEF Existing, Placed
    <3>5. QED
      BY <2>2, <3>2, <3>3, <3>4, <1>6
  <2>3. QED
    BY <2>1, <2>2
<1>14. AnsweredForOne'
  <2>1. ASSUME NEW k \in DOMAIN submissions,
               submissions'[k].at = "duplicate" \/ submissions'[k].reply = "heard"
        PROVE  Existing(k)'
    BY <2>1, <1>3, <1>7 DEF CheckoutInv, AnsweredForOne
  <2>2. QED
    BY <1>4, <2>1 DEF AnsweredForOne
<1>15. OrderedIsOut'
  <2> SUFFICES ASSUME NEW k \in DOMAIN submissions
               PROVE  /\ Placed(k)' /\ submissions'[k].reply = "heard" =>
                           /\ submissions'[k].lines \cap (basket' \cup basketAtApi') \subseteq retold'
                           /\ checkout'.open => submissions'[k].lines \cap Asked' \subseteq retold'
                      /\ Placed(k)' /\ submissions'[k].by = "account" =>
                           submissions'[k].lines \cap basketAtApi' \subseteq retold'
                      /\ k \in Pending' /\ ~submissions'[k].believed =>
                           submissions'[k].lines \cap basketAtApi' \subseteq retold'
    BY <1>4 DEF OrderedIsOut
  <2>1. k = i /\ at = "placed" => submissions[k].reply # "heard"
    BY DEF CheckoutInv, AnsweredForOne
  <2>2. Placed(k) /\ submissions[k].reply = "heard" =>
          /\ submissions[k].lines \cap (basket \cup basketAtApi) \subseteq retold
          /\ checkout.open => submissions[k].lines \cap Asked \subseteq retold
    BY DEF CheckoutInv, OrderedIsOut
  <2>3. /\ Placed(k) /\ submissions[k].by = "account" => submissions[k].lines \cap basketAtApi \subseteq retold
        /\ k \in Pending /\ ~submissions[k].believed =>
             submissions[k].lines \cap basketAtApi \subseteq retold
    BY DEF CheckoutInv, OrderedIsOut
  <2>4. QED
    BY <1>2, <1>3, <1>6, <1>9, <2>1, <2>2, <2>3
<1>16. LineIsSomewhere'
  <2>1. ASSUME NEW n \in AnyLine
        PROVE  \/ n \in basket' \cup basketAtApi' \cup overlooked'
               \/ \E k \in DOMAIN submissions : Placed(k)' /\ n \in submissions'[k].lines
    <3>1. CASE n \in basketAtApi \ basketAtApi'
      BY <3>1, <1>3, <1>6
    <3>2. CASE n \notin basketAtApi \ basketAtApi'
      BY <3>2, <1>3, <1>6 DEF CheckoutInv, LineIsSomewhere
    <3>3. QED
      BY <3>1, <3>2
  <2>2. QED
    BY <1>2, <1>4, <2>1 DEF LineIsSomewhere
<1>17. QED
  BY <1>5, <1>10, <1>11, <1>12, <1>13, <1>14, <1>15, <1>16 DEF CheckoutInv

LEMMA ApiSubmissionSteps ==
  ASSUME CheckoutInv,
         \/ FindExisting
         \/ \E i \in DOMAIN submissions :
              RefuseOrder(i) \/ \E cleared \in BOOLEAN : WriteOrder(i, cleared)
  PROVE  CheckoutInv'
<1>1. CheckoutTypeOK /\ retold \subseteq AnyLine
  BY DEF CheckoutInv, CheckoutTypeOK
<1>2. CASE FindExisting
  <2>1. PICK i \in DOMAIN submissions :
          /\ submissions[i].at = "sent"
          /\ Becomes(i, IF Existing(i) THEN "duplicate" ELSE "priced")
          /\ UNCHANGED <<carts, caller, checkout, forms, retold, overlooked>>
    BY <1>2 DEF FindExisting
  <2>2. UNCHANGED <<added, basket, basketAtApi, seen>>
    BY <2>1 DEF carts
  <2>3. CASE Existing(i)
    <3>1. Becomes(i, "duplicate")
      BY <2>1, <2>3
    <3>2. QED
      BY <1>1, <2>1, <2>2, <2>3, <3>1, ApiKeeps
  <2>4. CASE ~Existing(i)
    <3>1. Becomes(i, "priced")
      BY <2>1, <2>4
    <3>2. QED
      BY <1>1, <2>1, <2>2, <2>4, <3>1, ApiKeeps
  <2>5. QED
    BY <2>3, <2>4
<1>3. ASSUME NEW i \in DOMAIN submissions, RefuseOrder(i)
      PROVE  CheckoutInv'
  <2>1. /\ submissions[i].at \in {"sent", "priced"} /\ Becomes(i, "refused")
        /\ UNCHANGED <<added, basket, basketAtApi, seen, caller, checkout, forms, retold, overlooked>>
    BY <1>3 DEF RefuseOrder, carts
  <2>2. QED
    BY <1>1, <2>1, ApiKeeps
<1>4. ASSUME NEW i \in DOMAIN submissions, NEW cleared \in BOOLEAN, WriteOrder(i, cleared)
      PROVE  CheckoutInv'
  <2> DEFINE ordered == IF submissions[i].by = "account" THEN submissions[i].lines ELSE {}
  <2>1. /\ submissions[i].at = "priced" /\ ~Existing(i) /\ Becomes(i, "placed")
        /\ basketAtApi' = IF cleared THEN basketAtApi \ ordered ELSE basketAtApi
        /\ retold' = IF cleared THEN retold ELSE retold \cup ordered
        /\ UNCHANGED <<added, basket, seen, caller, checkout, forms, overlooked>>
    BY <1>4 DEF WriteOrder
  <2>2. ordered \subseteq submissions[i].lines /\ submissions[i].lines \subseteq AnyLine
    BY <1>1, SubmissionTypes
  <2>3. submissions[i].by = "account" => ordered = submissions[i].lines
    OBVIOUS
  <2> HIDE DEF ordered
  <2>4. /\ basketAtApi' \subseteq basketAtApi /\ retold \subseteq retold' /\ retold' \subseteq AnyLine
        /\ \A n \in basketAtApi \ basketAtApi' : n \in submissions[i].lines
        /\ submissions[i].by = "account" => submissions[i].lines \cap basketAtApi' \subseteq retold'
    BY <1>1, <2>1, <2>2, <2>3
  <2>5. QED
    BY <2>1, <2>4, ApiKeeps
<1>5. QED
  BY <1>2, <1>3, <1>4

(* The answer to the last attempt with a form is that of all of them. *)
LEMMA HearSteps ==
  ASSUME CheckoutInv, NEW i \in DOMAIN submissions, HearOrder(i)
  PROVE  CheckoutInv'
<1>1. CheckoutTypeOK
  BY DEF CheckoutInv
<1>2. /\ submissions[i].at \in {"placed", "duplicate"} /\ submissions[i].reply = "awaited"
      /\ submissions' = [j \in DOMAIN submissions |->
                           IF j = i \/ SameOrder(i, j)
                           THEN [submissions[j] EXCEPT !.reply = "heard"] ELSE submissions[j]]
      /\ basket' = IF submissions[i].believed THEN basket ELSE {}
      /\ overlooked' = overlooked \cup (basket \ (submissions[i].lines \cup basket'))
      /\ checkout' = NoForm
      /\ UNCHANGED <<added, basketAtApi, seen, caller, forms, retold>>
  BY DEF HearOrder, Replies
<1>3. /\ UNCHANGED <<alive, bearer, believes, network>>
      /\ AnyLine' = AnyLine /\ Submission' = Submission /\ ~checkout'.open
  BY <1>1, <1>2, NoFormType DEF caller, AnyLine, Submission, Caller
<1>4. \A k \in DOMAIN submissions :
        /\ submissions'[k] \in Submission
        /\ submissions'[k].key = submissions[k].key /\ submissions'[k].by = submissions[k].by
        /\ submissions'[k].lines = submissions[k].lines /\ submissions'[k].at = submissions[k].at
        /\ submissions'[k].believed = submissions[k].believed
        /\ submissions'[k].reply = IF k = i \/ SameOrder(i, k) THEN "heard" ELSE submissions[k].reply
  BY <1>1, <1>2, SubmissionTypes DEF Submission
<1>5. /\ submissions' \in Seq(Submission) /\ Len(submissions') = Len(submissions)
      /\ DOMAIN submissions' = DOMAIN submissions
  <2>1. submissions \in Seq(Submission) /\ submissions' \in [DOMAIN submissions -> Submission]
    BY <1>1, <1>2, <1>4 DEF CheckoutTypeOK
  <2>2. QED
    BY <2>1, <1>1, MappedSequence, SubmissionTypes
<1>6. CheckoutTypeOK'
  <2>1. checkout' \in [open : BOOLEAN, key : 0..forms, email : BOOLEAN]
    BY <1>1, <1>2, NoFormType
  <2>2. QED
    BY <1>1, <1>2, <1>3, <1>5, <2>1 DEF CheckoutTypeOK
<1>7. /\ \A k, j \in DOMAIN submissions : SameOrder(k, j)' <=> SameOrder(k, j)
      /\ \A k \in DOMAIN submissions : Placed(k)' <=> Placed(k)
  <2>1. \A k, j \in DOMAIN submissions : SameOrder(k, j)' <=> SameOrder(k, j)
    BY <1>4 DEF SameOrder
  <2>2. \A k \in DOMAIN submissions : Placed(k)' <=> Placed(k)
    BY <1>4 DEF Placed
  <2>3. QED
    BY <2>1, <2>2
<1>8. \A k \in DOMAIN submissions : Existing(k)' <=> Existing(k)
  <2>1. ASSUME NEW k \in DOMAIN submissions
        PROVE  Existing(k)' <=> Existing(k)
    <3>1. Existing(k) <=> \E j \in DOMAIN submissions : Placed(j) /\ SameOrder(k, j)
      BY DEF Existing, Placed
    <3>2. Existing(k)' <=> \E j \in DOMAIN submissions' : Placed(j)' /\ SameOrder(k, j)'
      BY DEF Existing, Placed
    <3>3. QED
      BY <3>1, <3>2, <1>5, <1>7
  <2>2. QED
    BY <2>1
<1>9. \A k \in DOMAIN submissions : Live(k)' <=> Live(k)
  BY <1>4, <1>7, <1>8 DEF Live
<1>10. basket' \subseteq basket /\ overlooked \subseteq overlooked'
  BY <1>2
(* The order of this request, which the shopper hears of. *)
<1>11. PICK p \in DOMAIN submissions : Placed(p) /\ SameOrder(i, p)
  <2>1. Existing(i)
    BY <1>2 DEF CheckoutInv, AnsweredForOne, Existing, SameOrder
  <2>2. QED
    BY <2>1 DEF Existing, Placed
<1>12. p = i \/ p < i
  <2>1. p <= i /\ p \in Nat /\ i \in Nat
    BY <1>1, <1>2, <1>11, SubmissionTypes DEF CheckoutInv, OneForm, SameOrder
  <2>2. QED
    BY <2>1
<1>13. /\ submissions[i].believed => submissions[p].believed
       /\ submissions[p].lines = submissions[i].lines \/ submissions[i].lines \subseteq overlooked
  BY <1>11, <1>12 DEF CheckoutInv, OneForm, SameOrder
<1>14. CallerKnown' /\ CartsApart'
  BY <1>2, <1>3, <1>4, <1>5 DEF CheckoutInv, CallerKnown, CartsApart
<1>15. OneForm'
  BY <1>2, <1>3, <1>4, <1>5, <1>10 DEF CheckoutInv, OneForm
<1>16. SameAgain'
  BY <1>3 DEF SameAgain
<1>17. OneOrder'
  BY <1>2, <1>4, <1>5, <1>7, <1>9 DEF CheckoutInv, OneOrder
<1>18. AnsweredForOne'
  <2>1. ASSUME NEW k \in DOMAIN submissions,
               submissions'[k].at = "duplicate" \/ submissions'[k].reply = "heard"
        PROVE  Existing(k)
    <3>1. CASE k = i \/ SameOrder(i, k)
      <4>1. SameOrder(k, p)
        BY <3>1, <1>11 DEF SameOrder
      <4>2. QED
        BY <4>1, <1>11 DEF Existing, Placed
    <3>2. CASE ~(k = i \/ SameOrder(i, k))
      BY <2>1, <3>2, <1>4 DEF CheckoutInv, AnsweredForOne
    <3>3. QED
      BY <3>1, <3>2
  <2>2. QED
    BY <1>5, <1>8, <2>1 DEF AnsweredForOne
<1>19. OrderedIsOut'
  <2> SUFFICES ASSUME NEW k \in DOMAIN submissions
               PROVE  /\ Placed(k) /\ submissions'[k].reply = "heard" =>
                           submissions[k].lines \cap (basket' \cup basketAtApi) \subseteq retold
                      /\ Placed(k) /\ submissions[k].by = "account" =>
                           submissions[k].lines \cap basketAtApi \subseteq retold
                      /\ k \in Pending' /\ ~submissions[k].believed =>
                           submissions[k].lines \cap basketAtApi \subseteq retold
    BY <1>2, <1>3, <1>4, <1>5, <1>7 DEF OrderedIsOut
  <2>1. ASSUME Placed(k), submissions'[k].reply = "heard"
        PROVE  submissions[k].lines \cap (basket' \cup basketAtApi) \subseteq retold
    <3>1. CASE submissions[k].reply = "heard"
      BY <2>1, <3>1, <1>10 DEF CheckoutInv, OrderedIsOut
    <3>2. CASE submissions[k].reply # "heard"
      <4>1. SameOrder(i, k)
        BY <2>1, <3>2, <1>4 DEF SameOrder
      <4>2. k = p
        BY <2>1, <4>1, <1>11 DEF CheckoutInv, OneOrder, SameOrder
      <4>3. k \in Pending
        BY <2>1, <3>2 DEF Pending, Placed
      <4>4. CASE submissions[k].by = "account"
        <5>1. submissions[k].lines \cap basket = {}
          BY <4>4 DEF CheckoutInv, CallerKnown, CartsApart
        <5>2. submissions[k].lines \cap basketAtApi \subseteq retold
          BY <2>1, <4>4 DEF CheckoutInv, OrderedIsOut
        <5>3. QED
          BY <5>1, <5>2, <1>10
      <4>5. CASE submissions[k].by # "account" /\ submissions[k].believed
        BY <4>5 DEF CheckoutInv, CallerKnown
      <4>6. CASE ~submissions[k].believed
        <5>1. basket' = {}
          BY <4>2, <4>6, <1>2, <1>13
        <5>2. submissions[k].lines \cap basketAtApi \subseteq retold
          BY <4>3, <4>6 DEF CheckoutInv, OrderedIsOut
        <5>3. QED
          BY <5>1, <5>2
      <4>7. QED
        BY <4>4, <4>5, <4>6
    <3>3. QED
      BY <3>1, <3>2
  <2>2. Pending' \subseteq Pending
    BY <1>4, <1>5 DEF Pending
  <2>3. QED
    BY <2>1, <2>2 DEF CheckoutInv, OrderedIsOut
<1>20. LineIsSomewhere'
  <2>1. ASSUME NEW n \in AnyLine
        PROVE  \/ n \in basket' \cup basketAtApi \cup overlooked'
               \/ \E k \in DOMAIN submissions : Placed(k) /\ n \in submissions[k].lines
    <3>1. CASE n \in basket \ basket'
      <4>1. n \in submissions[i].lines \/ n \in overlooked'
        BY <3>1, <1>2
      <4>2. n \in submissions[i].lines => n \in submissions[p].lines \cup overlooked
        BY <1>13
      <4>3. QED
        BY <4>1, <4>2, <1>10, <1>11
    <3>2. CASE n \notin basket \ basket'
      BY <3>2, <1>10 DEF CheckoutInv, LineIsSomewhere
    <3>3. QED
      BY <3>1, <3>2
  <2>2. QED
    BY <1>2, <1>3, <1>4, <1>5, <1>7, <2>1 DEF LineIsSomewhere
<1>21. QED
  BY <1>6, <1>14, <1>15, <1>16, <1>17, <1>18, <1>19, <1>20 DEF CheckoutInv

LEMMA CheckoutSteps ==
  CheckoutInv /\ [CheckoutNext]_checkoutVars => CheckoutInv'
<1> SUFFICES ASSUME CheckoutInv, [CheckoutNext]_checkoutVars
             PROVE  CheckoutInv'
  OBVIOUS
<1>1. CASE UNCHANGED checkoutVars
  <2>1. UNCHANGED <<carts, caller, checkout, forms, submissions, retold, overlooked>>
    BY <1>1 DEF checkoutVars
  <2>2. submissions \in Seq(Submission)
    BY DEF CheckoutInv, CheckoutTypeOK
  <2>3. QED
    BY <2>1, <2>2, MissKeeps
<1>2. CASE CheckoutNext
  BY <1>2, CallerTurns, AccountTurns, ErrandTurns, FormSteps, SubmitSteps, ApiSubmissionSteps,
     HearSteps DEF CheckoutNext
<1>3. QED
  BY <1>1, <1>2

LEMMA CheckoutInvariant ==
  CheckoutSpec => []CheckoutInv
<1>1. QED
  BY CheckoutStarts, CheckoutSteps, PTL DEF CheckoutSpec

(* The form, the carts and the requests of the checkout are what checkout-form.tsx
   and order.service.js make them: lines that were added, keys of forms that were
   opened, callers as scopedIdempotencyKey names them. *)
THEOREM CheckoutTyped ==
  CheckoutSpec => []CheckoutTypeOK
<1>1. CheckoutInv => CheckoutTypeOK
  BY DEF CheckoutInv
<1>2. QED
  BY CheckoutInvariant, <1>1, PTL

(* For any number of lines, forms, attempts and networks: a line is ordered twice only
   for one of the listed reasons, and leaves the carts without an order only for one
   of them (checkout-form.tsx, onSubmit; order.service.js, placeOrder). *)
THEOREM CheckoutOrdersOnce ==
  CheckoutSpec => []LinesOrderedOnce
<1>1. CheckoutInv => LinesOrderedOnce
  <2> SUFFICES ASSUME CheckoutInv, NEW n \in AnyLine
               PROVE  LET orders == {i \in DOMAIN submissions :
                                       submissions[i].at = "placed" /\ n \in submissions[i].lines}
                      IN  /\ Cardinality(orders) <= 1 \/ n \in retold
                          /\ n \in basket \cup basketAtApi \cup overlooked \/ orders # {}
    BY DEF LinesOrderedOnce
  <2> DEFINE orders == {i \in DOMAIN submissions :
                          submissions[i].at = "placed" /\ n \in submissions[i].lines}
  <2>1. n \in basket \cup basketAtApi \cup overlooked \/ orders # {}
    BY DEF CheckoutInv, LineIsSomewhere, Placed
  <2>2. ASSUME n \notin retold
        PROVE  \A i, j \in orders : i = j
    <3> SUFFICES ASSUME NEW i \in orders, NEW j \in orders
                 PROVE  i = j
      OBVIOUS
    <3>1. Placed(i) /\ Placed(j) /\ Live(i) /\ Live(j)
      BY DEF Placed, Live
    <3>2. SameOrder(i, j)
      BY <2>2, <3>1 DEF CheckoutInv, OneOrder
    <3>3. QED
      BY <3>1, <3>2 DEF CheckoutInv, OneOrder
  <2> HIDE DEF orders
  <2>3. ASSUME n \notin retold
        PROVE  Cardinality(orders) <= 1
    <3>1. CASE orders = {}
      BY <3>1, FS_EmptySet
    <3>2. CASE orders # {}
      <4>1. PICK i \in orders : TRUE
        BY <3>2
      <4>2. orders = {i}
        BY <2>2, <2>3, <4>1
      <4>3. QED
        BY <4>2, FS_Singleton
    <3>3. QED
      BY <3>1, <3>2
  <2>4. QED
    BY <2>1, <2>3 DEF orders
<1>2. QED
  BY CheckoutInvariant, <1>1, PTL

-------------------------------------------------------------------------------
(* The parts side by side. *)

(* Each part of a behaviour is one of its component (cart.service.js, guest-cart.ts,
   use-cart.ts, proxy.ts, checkout-form.tsx share no state). *)
THEOREM StorefrontIsItsParts ==
  StorefrontSpec => Spec /\ GuestCartSpec /\ CachedViewsSpec /\ BrowserSpec /\ CheckoutSpec
<1>1. StorefrontInit =>
        Init /\ GuestCartInit /\ CachedViewsInit /\ BrowserInit /\ CheckoutInit
  BY DEF StorefrontInit
<1>2. [StorefrontNext]_storefrontVars =>
        /\ [Next]_vars
        /\ [GuestCartNext]_guestCartVars
        /\ [CachedViewsNext]_viewsVars
        /\ [BrowserNext]_browserVars
        /\ [CheckoutNext]_checkoutVars
  BY Zenon DEF StorefrontNext, CartSide, GuestCartSide, CachedViewsSide, BrowserSide, CheckoutSide,
     storefrontVars
<1>3. QED
  BY <1>1, <1>2, PTL DEF StorefrontSpec, Spec, GuestCartSpec, CachedViewsSpec, BrowserSpec,
     CheckoutSpec

(* Whatever happens to any part, all of them keep their types (cart.service.js,
   guest-cart.ts, use-cart.ts, proxy.ts, checkout-form.tsx). *)
THEOREM StorefrontTyped ==
  StorefrontSpec => []TypesOK
<1>1. TypeOK /\ GuestCartTypeOK /\ CachedViewsTypeOK /\ BrowserTypeOK /\ CheckoutTypeOK => TypesOK
  BY DEF TypesOK
<1>2. QED
  BY <1>1, StorefrontIsItsParts, CartTypeOK, GuestCartTyped, ViewsTyped, BrowserTyped,
     CheckoutTyped, PTL

===============================================================================
