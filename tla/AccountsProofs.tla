---------------------------- MODULE AccountsProofs -----------------------------
(***************************************************************************)
(* Proofs about modules Sessions and Registration, for any number of       *)
(* requests, sessions and guest orders; and that each side of module       *)
(* MCAccounts behaves as it does alone.                                    *)
(***************************************************************************)
EXTENDS MCAccounts, FiniteSetTheorems, WellFoundedInduction, TLAPS

-------------------------------------------------------------------------------
(* Sessions. *)

(* What every draft looks like, whatever happened since it was made. *)
Shape(d) ==
  /\ d \in Draft
  /\ Mints(d) => /\ d.writes \cap {"tokenVersion", "password"} = {}
                 /\ d.writes \cap {"sessions", "push"} # {}
  /\ d.op \in {"refresh", "logout"} => Versioned(d)
  /\ "password" \in d.writes => "tokenVersion" \in d.writes
  /\ "push" \in d.writes => Mints(d)
  /\ Versioned(d) => Mints(d) \/ d.op = "logout" \/ "tokenVersion" \in d.writes
  /\ d.op = "resetPassword" => {"tokenVersion", "link"} \subseteq d.writes
  /\ "link" \in d.writes => d.op = "forgotPassword" \/ d.link = 0

(* A sign-in below the cap appends, whatever the list is by then. *)
Pushes(d) == Mints(d) /\ ~Versioned(d)

(* How a draft relates to the document it has just been read from. *)
JustRead(d) ==
  /\ Shape(d)
  /\ d.version = version /\ d.epoch = revoked
  /\ d.sessions \subseteq sessions
  /\ d.tokenVersion = IF "tokenVersion" \in d.writes THEN tokenVersion + 1
                      ELSE tokenVersion
  /\ d.op = "login" => d.presented = 0 /\ d.password = password
  /\ d.op \in {"refresh", "logout"} => d.presented \in DOMAIN issued
  /\ d.op \in {"refresh", "logout"} => d.presented \in sessions \ d.sessions
  /\ d.op = "refresh" => issued[d.presented].tokenVersion = tokenVersion
  /\ d.op = "logout" => sessions \ {d.presented} \subseteq d.sessions
  /\ Mints(d) /\ Versioned(d) => d.sessions # sessions
  /\ Pushes(d) => Cardinality(sessions) < MaxSessions
  /\ d.op = "resetPassword" => d.presented = link /\ link # 0
  /\ d.op = "forgotPassword" => d.link = links + 1

(* A request read the document and made its draft. *)
Begins(c) ==
  /\ pc' = [pc EXCEPT ![c] = "saving"]
  /\ draft' = [draft EXCEPT ![c] = draft'[c]]
  /\ JustRead(draft'[c])
  /\ begun' \in 0..MaxCalls /\ secrets' \in Nat
  /\ links' = IF draft'[c].op = "forgotPassword" THEN links + 1 ELSE links
  /\ UNCHANGED <<doc, issued, clock, history>>

IsAuthenticated(c) ==
  /\ pc' = [pc EXCEPT ![c] = "authenticated"]
  /\ draft' = [draft EXCEPT ![c].op = draft'[c].op]
  /\ draft'[c].op \in Op
  /\ begun' \in 0..MaxCalls
  /\ UNCHANGED <<doc, issued, clock, secrets, links, history>>

(* The tokens form chains, one a sign-in; the stored ones are chain ends. *)
Chains ==
  /\ \A t \in DOMAIN issued :
       /\ issued[t].parent \in 0..(t - 1)
       /\ issued[t].login \in DOMAIN issued
  /\ \A t \in sessions, u \in DOMAIN issued : issued[u].parent # t
  /\ signedOut \subseteq DOMAIN issued

(* While the version stands, the list is the one the draft was made from. *)
DraftCurrent(c) ==
  pc[c] = "saving" =>
    LET d == draft[c] IN
    /\ Shape(d)
    /\ d.version <= version
    /\ d.op = "login" => d.presented = 0
    /\ d.op \in {"refresh", "logout"} => d.presented \in DOMAIN issued
    /\ d.version = version =>
         /\ d.sessions \subseteq sessions
         /\ d.op \in {"refresh", "logout"} => d.presented \in sessions \ d.sessions
         /\ d.op = "logout" => sessions \ {d.presented} \subseteq d.sessions
         /\ Mints(d) /\ Versioned(d) => d.sessions # sessions

ChainInv ==
  /\ TypeOK
  /\ Chains
  /\ TokenUsedOnce /\ OneSessionPerLogin /\ SignedOutStaysOut
  /\ \A c \in Request : DraftCurrent(c)

(* Without a race the tokenVersion counts the revocations, and a draft of  *)
(* the present epoch knows the present password.                           *)
EpochDraft(c) ==
  pc[c] = "saving" =>
    LET d == draft[c] IN
    /\ d.epoch <= revoked
    /\ d.tokenVersion = IF "tokenVersion" \in d.writes THEN d.epoch + 1 ELSE d.epoch
    /\ d.op = "login" /\ d.epoch = revoked => d.password = password
    /\ d.op = "refresh" => issued[d.presented].epoch = d.epoch

EpochInv ==
  ~raced =>
    /\ tokenVersion = revoked
    /\ \A t \in DOMAIN issued :
         /\ issued[t].epoch = issued[t].tokenVersion
         /\ issued[t].epoch <= revoked
         /\ issued[t].epoch = revoked => issued[t].secret = password
    /\ \A c \in Request : EpochDraft(c)

(* Every sign-in that is going to append found room for its session: one   *)
(* that has not appended yet counts as if it had.                          *)
Pushers == {c \in Request : pc[c] = "saving" /\ Pushes(draft[c])}

PushInv == Cardinality(sessions) + Cardinality(Pushers) < MaxSessions + Cardinality(Request)

(* A link is made once and stored at most once.  A reset of the present    *)
(* epoch presents a link that was not spent; unless a revocation raced,    *)
(* only such a reset is saved.                                             *)
Pending(c) == pc[c] = "saving" /\ draft[c].op = "forgotPassword"
Resetting(c) == pc[c] = "saving" /\ draft[c].op = "resetPassword"

LinkInv ==
  /\ links \in Nat /\ link \in 0..links
  /\ \A i \in DOMAIN spent : spent[i] \in 1..links /\ spent[i] # link
  /\ \A c \in Request : Pending(c) =>
       LET n == draft[c].link IN
       /\ n \in 1..links /\ n # link
       /\ \A i \in DOMAIN spent : spent[i] # n
       /\ \A e \in Request : Pending(e) /\ draft[e].link = n => e = c
       /\ \A e \in Request : Resetting(e) => draft[e].presented # n
  /\ \A c \in Request : Resetting(c) =>
       LET p == draft[c].presented IN
       /\ p \in 1..links
       /\ ~raced /\ draft[c].epoch = revoked => \A i \in DOMAIN spent : spent[i] # p
  /\ ResetLinkWorksOnce

-----------------------------------------------------------------------------
(* What the operations on a draft do.                                      *)

(* Assigning a list is a modification exactly when the list differs. *)
LEMMA SetSessionsFacts ==
  \A d \in Draft : \A list \in SUBSET Nat :
    LET e == SetSessions(d, list) IN
    /\ e \in Draft
    /\ e.sessions = list
    /\ e.writes = IF list = d.sessions THEN d.writes ELSE d.writes \cup {"sessions"}
    /\ e = [d EXCEPT !.sessions = list, !.writes = e.writes]
BY DEF SetSessions, Draft, Field

(* Where a draft came from does not change while it is worked on. *)
SameOrigin(e, d) ==
  /\ e.op = d.op /\ e.presented = d.presented
  /\ e.version = d.version /\ e.epoch = d.epoch

(* Revoking advances the copy's tokenVersion and empties its list. *)
LEMMA RevokeFacts ==
  \A d \in Draft :
    LET e == RevokeAllSessions(d) IN
    /\ e \in Draft
    /\ e.sessions = {} /\ e.tokenVersion = d.tokenVersion + 1
    /\ d.writes \cup {"tokenVersion"} \subseteq e.writes
    /\ e.writes \subseteq d.writes \cup {"tokenVersion", "sessions"}
    /\ SameOrigin(e, d) /\ e.password = d.password /\ e.link = d.link
<1> TAKE d \in Draft
<1> DEFINE w == d.writes \cup {"tokenVersion"}
           f == [d EXCEPT !.tokenVersion = d.tokenVersion + 1, !.writes = w]
<1>0. d.writes \in SUBSET Field /\ d.tokenVersion + 1 \in Nat
  BY DEF Draft
<1>a. w \in SUBSET Field
  BY <1>0 DEF Field
<1>b. RevokeAllSessions(d) = SetSessions(f, {})
  BY DEF RevokeAllSessions
<1> HIDE DEF w
<1>1. f \in Draft
  BY <1>0, <1>a DEF Draft
<1>3. /\ f.tokenVersion = d.tokenVersion + 1 /\ f.writes = w
      /\ SameOrigin(f, d) /\ f.password = d.password /\ f.link = d.link
  BY DEF Draft, SameOrigin
<1> HIDE DEF f
<1> DEFINE e == SetSessions(f, {})
<1>4. /\ e \in Draft /\ e.sessions = {}
      /\ e.writes = (IF {} = f.sessions THEN f.writes ELSE f.writes \cup {"sessions"})
      /\ e = [f EXCEPT !.sessions = {}, !.writes = e.writes]
  BY <1>1, SetSessionsFacts
<1> HIDE DEF e
<1>5. /\ e.tokenVersion = f.tokenVersion /\ SameOrigin(e, f)
      /\ e.password = f.password /\ e.link = f.link
  BY <1>1, <1>4 DEF Draft, SameOrigin
<1>6. e.writes \subseteq w \cup {"sessions"} /\ w \subseteq e.writes
  BY <1>3, <1>4
<1>7. RevokeAllSessions(d) = e
  BY <1>b DEF e
<1>8. QED
  BY <1>3, <1>4, <1>5, <1>6, <1>7 DEF w, SameOrigin

(* A list as long as the cap loses its oldest session to the cut. *)
LEMMA NewestCuts ==
  ASSUME NEW S \in SUBSET Nat, IsFiniteSet(S), Cardinality(S) + 1 > MaxSessions
  PROVE  Newest(S, MaxSessions - 1) # S
<1>1. Cardinality(S) \in Nat /\ MaxSessions \in Nat \ {0}
  BY FS_CardinalityType, SessionsAssumption
<1>2. S # {}
  BY <1>1, FS_EmptySet
<1>3. PICK m \in S : \A u \in S : ~ (u < m)
  <2> DEFINE Less == OpToRel(<, Nat)
  <2>1. IsWellFoundedOn(Less, Nat)
    BY NatLessThanWellFounded
  <2>2. \A u, v \in Nat : u < v => <<u, v>> \in Less
    BY DEF OpToRel
  <2> HIDE DEF Less
  <2>3. \E m \in S : \A u \in S : ~ (<<u, m>> \in Less)
    BY <1>2, <2>1, WFMin
  <2>4. QED
    BY <2>2, <2>3
<1>4. {u \in S : u > m} = S \ {m}
  <2>1. \A u \in S : u > m <=> u # m
    BY <1>3
  <2>2. QED
    BY <2>1
<1>5. Cardinality(S \ {m}) = Cardinality(S) - 1
  BY <1>3, FS_RemoveElement
<1>6. m \notin Newest(S, MaxSessions - 1)
  BY <1>1, <1>4, <1>5 DEF Newest
<1>7. QED
  BY <1>3, <1>6

(* A session is added by a push, or by a list cut to the newest. *)
LEMMA AddSessionFacts ==
  \A d \in Draft :
    LET e == AddSession(d) IN
    /\ e \in Draft
    /\ e.sessions \subseteq d.sessions
    /\ d.writes \subseteq e.writes /\ e.writes \subseteq d.writes \cup {"sessions", "push"}
    /\ e.writes \cap {"sessions", "push"} # {}
    /\ SameOrigin(e, d) /\ e.password = d.password /\ e.tokenVersion = d.tokenVersion
    /\ "sessions" \notin e.writes => ~(Cardinality(d.sessions) + 1 > MaxSessions)
    /\ "sessions" \in e.writes \ d.writes /\ IsFiniteSet(d.sessions) =>
         e.sessions # d.sessions
<1> TAKE d \in Draft
<1> DEFINE cut == Newest(d.sessions, MaxSessions - 1)  e == AddSession(d)
<1>1. cut \subseteq d.sessions /\ d.sessions \in SUBSET Nat
  BY DEF Newest, Draft
<1>2. CASE Cardinality(d.sessions) + 1 > MaxSessions
  <2>1. e = [d EXCEPT !.sessions = cut, !.writes = d.writes \cup {"sessions"}]
    BY <1>2 DEF AddSession
  <2>2. IsFiniteSet(d.sessions) => cut # d.sessions
    BY <1>1, <1>2, NewestCuts
  <2> DEFINE w == d.writes \cup {"sessions"}
  <2>3. w \in SUBSET Field /\ cut \in SUBSET Nat
    BY <1>1 DEF Draft, Field
  <2> HIDE DEF cut, w
  <2>4. [d EXCEPT !.sessions = cut, !.writes = w] \in Draft
    BY <2>3 DEF Draft
  <2>5. e \in Draft /\ e.sessions = cut /\ e.writes = w
    BY <2>1, <2>4 DEF Draft, w
  <2>6. SameOrigin(e, d) /\ e.password = d.password /\ e.tokenVersion = d.tokenVersion
    BY <2>1 DEF Draft, SameOrigin
  <2> HIDE DEF e
  <2>7. QED
    BY <1>1, <2>2, <2>5, <2>6 DEF e, w
<1>3. CASE ~(Cardinality(d.sessions) + 1 > MaxSessions)
  <2>1. e = [d EXCEPT !.writes = d.writes \cup {"push"}]
    BY <1>3 DEF AddSession
  <2> DEFINE w == d.writes \cup {"push"}
  <2>2. w \in SUBSET Field
    BY DEF Draft, Field
  <2> HIDE DEF w
  <2>3. [d EXCEPT !.writes = w] \in Draft
    BY <2>2 DEF Draft
  <2>4. e \in Draft /\ e.sessions = d.sessions /\ e.writes = w
    BY <2>1, <2>3 DEF Draft, w
  <2>5. SameOrigin(e, d) /\ e.password = d.password /\ e.tokenVersion = d.tokenVersion
    BY <2>1 DEF Draft, SameOrigin
  <2> HIDE DEF e
  <2>6. QED
    BY <1>3, <2>4, <2>5 DEF e, w
<1>4. QED
  BY <1>2, <1>3

(* The copy as it is read. *)
LEMMA CopyFacts ==
  ASSUME TypeOK
  PROVE  \A op \in Op : \A p \in Nat :
           LET d == Copy(op, p) IN
           /\ d \in Draft
           /\ d.op = op /\ d.presented = p /\ d.password = password
           /\ d.tokenVersion = tokenVersion /\ d.status = status
           /\ d.sessions = sessions /\ d.link = link /\ d.version = version
           /\ d.epoch = revoked /\ d.writes = {}
<1>1. sessions \in SUBSET Nat
  BY DEF TypeOK
<1>2. QED
  BY <1>1 DEF Copy, Draft, TypeOK

(* A field other than the list is written when its value changes. *)
LEMMA SetFacts ==
  \A d \in Draft : \A field \in {"password", "link", "status"} : \A v :
    (field = "status" => v \in Status) /\ (field # "status" => v \in Nat) =>
      LET e == Set(d, field, v) IN
      /\ e \in Draft
      /\ SameOrigin(e, d) /\ e.sessions = d.sessions /\ e.tokenVersion = d.tokenVersion
      /\ e[field] = v /\ e.link = (IF field = "link" THEN v ELSE d.link)
      /\ d[field] # v => field \in e.writes
      /\ d.writes \subseteq e.writes /\ e.writes \subseteq d.writes \cup {field}
<1> SUFFICES ASSUME NEW d \in Draft, NEW field \in {"password", "link", "status"}, NEW v,
                    field = "status" => v \in Status, field # "status" => v \in Nat
             PROVE  LET e == Set(d, field, v) IN
                    /\ e \in Draft
                    /\ SameOrigin(e, d) /\ e.sessions = d.sessions
                    /\ e.tokenVersion = d.tokenVersion
                    /\ e[field] = v /\ e.link = (IF field = "link" THEN v ELSE d.link)
                    /\ d[field] # v => field \in e.writes
                    /\ d.writes \subseteq e.writes
                    /\ e.writes \subseteq d.writes \cup {field}
  OBVIOUS
<1> DEFINE w == d.writes \cup {field}
<1>1. w \in SUBSET Field
  BY DEF Draft, Field
<1>2. Set(d, field, v) = IF d[field] = v THEN d
                         ELSE [d EXCEPT ![field] = v, !.writes = w]
  BY DEF Set
<1> HIDE DEF w
<1>3. CASE field = "password"
  <2> DEFINE g == [d EXCEPT !.password = v, !.writes = w]
  <2>1. v \in Nat
    BY <1>3
  <2>2. /\ g \in Draft /\ SameOrigin(g, d) /\ g.sessions = d.sessions
        /\ g.tokenVersion = d.tokenVersion /\ g.password = v /\ g.writes = w
        /\ g.link = d.link
    BY <1>1, <2>1 DEF Draft, SameOrigin
  <2>3. Set(d, field, v) = IF d.password = v THEN d ELSE g
    BY <1>2, <1>3
  <2> HIDE DEF g
  <2>4. QED
    BY <1>3, <2>2, <2>3 DEF w, SameOrigin
<1>4. CASE field = "link"
  <2> DEFINE g == [d EXCEPT !.link = v, !.writes = w]
  <2>1. v \in Nat
    BY <1>4
  <2>2. /\ g \in Draft /\ SameOrigin(g, d) /\ g.sessions = d.sessions
        /\ g.tokenVersion = d.tokenVersion /\ g.link = v /\ g.writes = w
    BY <1>1, <2>1 DEF Draft, SameOrigin
  <2>3. Set(d, field, v) = IF d.link = v THEN d ELSE g
    BY <1>2, <1>4
  <2> HIDE DEF g
  <2>4. QED
    BY <1>4, <2>2, <2>3 DEF w, SameOrigin
<1>5. CASE field = "status"
  <2> DEFINE g == [d EXCEPT !.status = v, !.writes = w]
  <2>1. v \in Status
    BY <1>5
  <2>2. /\ g \in Draft /\ SameOrigin(g, d) /\ g.sessions = d.sessions
        /\ g.tokenVersion = d.tokenVersion /\ g.status = v /\ g.writes = w
        /\ g.link = d.link
    BY <1>1, <2>1 DEF Draft, SameOrigin
  <2>3. Set(d, field, v) = IF d.status = v THEN d ELSE g
    BY <1>2, <1>5
  <2> HIDE DEF g
  <2>4. QED
    BY <1>5, <2>2, <2>3 DEF w, SameOrigin
<1>6. QED
  BY <1>3, <1>4, <1>5

-----------------------------------------------------------------------------
(* Every handler that goes on to save makes a draft of what it has read.   *)

(* A handler that has made its draft is about to save it. *)
LEMMA ToSaveBegins ==
  ASSUME TypeOK, NEW c \in Request,
         begun' \in 0..MaxCalls, secrets' \in Nat
  PROVE  \A d : /\ ToSave(c, d) /\ JustRead(d)
                /\ links' = IF d.op = "forgotPassword" THEN links + 1 ELSE links
                => Begins(c)
<1> SUFFICES ASSUME NEW d, ToSave(c, d), JustRead(d),
                    links' = IF d.op = "forgotPassword" THEN links + 1 ELSE links
             PROVE  Begins(c)
  OBVIOUS
<1>1. draft'[c] = d
  BY DEF ToSave, TypeOK
<1>2. QED
  BY <1>1 DEF ToSave, Begins

(* The list is finite: it holds numbers of tokens that were handed out. *)
LEMMA ListFinite ==
  ASSUME TypeOK
  PROVE  IsFiniteSet(sessions) /\ Cardinality(sessions) \in Nat
<1>1. DOMAIN issued = 1..Len(issued) /\ Len(issued) \in Nat
  BY DEF TypeOK
<1>2. IsFiniteSet(1..Len(issued))
  BY <1>1, FS_Interval
<1>3. IsFiniteSet(sessions)
  BY <1>1, <1>2, FS_Subset DEF TypeOK
<1>4. QED
  BY <1>3, FS_CardinalityType

(* Login drafts a push, or a list without the oldest session. *)
LEMMA LoginBegins ==
  ASSUME TypeOK, NEW c \in Request, Login(c)
  PROVE  Begins(c)
<1> DEFINE d == Copy("login", 0)  e == AddSession(d)
<1>1. /\ d \in Draft /\ d.op = "login" /\ d.presented = 0 /\ d.password = password
      /\ d.tokenVersion = tokenVersion /\ d.sessions = sessions
      /\ d.version = version /\ d.epoch = revoked /\ d.writes = {}
  BY CopyFacts, "login" \in Op, 0 \in Nat DEF Op
<1>2. ToSave(c, e)
  BY DEF Login
<1> HIDE DEF d
<1>3. /\ e \in Draft /\ e.sessions \subseteq d.sessions
      /\ e.writes \subseteq d.writes \cup {"sessions", "push"}
      /\ e.writes \cap {"sessions", "push"} # {}
      /\ SameOrigin(e, d) /\ e.password = d.password /\ e.tokenVersion = d.tokenVersion
      /\ "sessions" \notin e.writes => ~(Cardinality(d.sessions) + 1 > MaxSessions)
      /\ "sessions" \in e.writes => e.sessions # d.sessions
  BY <1>1, AddSessionFacts, ListFinite
<1> HIDE DEF e
<1>a. Pushes(e) => Cardinality(sessions) < MaxSessions
  BY <1>1, <1>3, ListFinite, SessionsAssumption DEF Pushes, Versioned
<1>b. Shape(e)
  BY <1>1, <1>3 DEF Shape, Mints, Versioned, SameOrigin
<1>4. JustRead(e) /\ e.op = "login"
  BY <1>1, <1>3, <1>a, <1>b DEF JustRead, Mints, Versioned, SameOrigin
<1>5. begun' \in 0..MaxCalls /\ secrets' \in Nat /\ links' = links
  BY SessionsAssumption DEF Login, Admit, TypeOK
<1>6. QED
  BY <1>2, <1>4, <1>5, ToSaveBegins

(* Refresh drafts the exchange of a stored token, or a revocation. *)
LEMMA RefreshBegins ==
  ASSUME TypeOK, NEW c \in Request, NEW t \in DOMAIN issued, Refresh(c, t)
  PROVE  Begins(c)
<1> DEFINE b == Copy("refresh", t)
           d == PruneExpiredSessions(b)
           k == RemoveSessionByJti(d, t)
           r == [d EXCEPT !.op = "reuse"]
<1>0. t \in Nat /\ issued[t].tokenVersion = tokenVersion
  BY DEF TypeOK, Refresh
<1>1. /\ b \in Draft /\ b.op = "refresh" /\ b.presented = t
      /\ b.tokenVersion = tokenVersion /\ b.sessions = sessions
      /\ b.version = version /\ b.epoch = revoked /\ b.writes = {}
  BY <1>0, CopyFacts, "refresh" \in Op DEF Op
<1>2. ToSave(c, IF t \in d.sessions THEN AddSession(k) ELSE RevokeAllSessions(r))
  BY DEF Refresh
<1>3. begun' \in 0..MaxCalls /\ secrets' \in Nat /\ links' = links
  BY SessionsAssumption DEF Refresh, Admit, TypeOK
<1> HIDE DEF b
<1> DEFINE kept == {u \in b.sessions : u > expired}
<1>4. kept \in SUBSET Nat /\ d = SetSessions(b, kept)
  BY <1>1 DEF PruneExpiredSessions, Draft
<1> HIDE DEF d
<1>5. /\ d \in Draft /\ d.sessions = kept /\ d.writes \subseteq {"sessions"}
      /\ SameOrigin(d, b) /\ d.tokenVersion = b.tokenVersion
  <2>1. /\ d \in Draft /\ d.sessions = kept
        /\ d.writes = (IF kept = b.sessions THEN b.writes ELSE b.writes \cup {"sessions"})
        /\ d = [b EXCEPT !.sessions = kept, !.writes = d.writes]
    BY <1>1, <1>4, SetSessionsFacts
  <2>2. QED
    BY <1>1, <2>1 DEF Draft, SameOrigin
<1>6. kept \subseteq sessions
  BY <1>1
<1> HIDE DEF kept
<1>7. CASE t \in d.sessions
  <2> DEFINE rest == d.sessions \ {t}
  <2>1. rest \in SUBSET Nat /\ k = SetSessions(d, rest) /\ rest # d.sessions
    BY <1>5, <1>7 DEF RemoveSessionByJti, Draft
  <2> HIDE DEF k
  <2>2. /\ k \in Draft /\ k.sessions = rest
        /\ k.writes = d.writes \cup {"sessions"}
        /\ k = [d EXCEPT !.sessions = rest, !.writes = k.writes]
    BY <1>5, <2>1, SetSessionsFacts
  <2>3. SameOrigin(k, d) /\ k.tokenVersion = d.tokenVersion
    BY <1>5, <2>2 DEF Draft, SameOrigin
  <2> DEFINE e == AddSession(k)
  <2>4. /\ e \in Draft /\ e.sessions \subseteq k.sessions
        /\ k.writes \subseteq e.writes
        /\ e.writes \subseteq k.writes \cup {"sessions", "push"}
        /\ SameOrigin(e, k) /\ e.tokenVersion = k.tokenVersion
    BY <2>2, AddSessionFacts
  <2> HIDE DEF e
  <2>5. /\ e.op = "refresh" /\ e.presented = t /\ e.version = version
        /\ e.epoch = revoked /\ e.tokenVersion = tokenVersion
    BY <1>1, <1>5, <2>3, <2>4 DEF SameOrigin
  <2>6. /\ "sessions" \in e.writes /\ e.writes \subseteq {"sessions", "push"}
        /\ e.sessions \subseteq sessions /\ t \in sessions \ e.sessions
    BY <1>5, <1>6, <1>7, <2>2, <2>4
  <2>a. Shape(e) /\ ~Pushes(e)
    BY <2>4, <2>5, <2>6 DEF Shape, Pushes, Mints, Versioned
  <2>7. JustRead(e)
    BY <1>0, <2>5, <2>6, <2>a DEF JustRead, Mints, Versioned
  <2>8. QED
    BY <1>2, <1>3, <1>7, <2>5, <2>7, ToSaveBegins DEF e
<1>8. CASE t \notin d.sessions
  <2>1. /\ r \in Draft /\ r.op = "reuse" /\ r.version = d.version /\ r.epoch = d.epoch
        /\ r.tokenVersion = d.tokenVersion /\ r.writes = d.writes
    BY <1>5 DEF Draft, Op
  <2> HIDE DEF r
  <2> DEFINE e == RevokeAllSessions(r)
  <2>2. /\ e \in Draft /\ e.sessions = {} /\ e.tokenVersion = r.tokenVersion + 1
        /\ r.writes \cup {"tokenVersion"} \subseteq e.writes
        /\ e.writes \subseteq r.writes \cup {"tokenVersion", "sessions"}
        /\ SameOrigin(e, r)
    BY <2>1, RevokeFacts
  <2> HIDE DEF e
  <2>3. JustRead(e) /\ e.op = "reuse"
    <3>1. Shape(e) /\ e.op = "reuse"
      BY <1>5, <2>1, <2>2 DEF Shape, Mints, Versioned, SameOrigin
    <3>2. QED
      BY <1>1, <1>5, <2>1, <2>2, <3>1 DEF JustRead, Pushes, Mints, SameOrigin
  <2>4. QED
    BY <1>2, <1>3, <1>8, <2>3, ToSaveBegins DEF e
<1>9. QED
  BY <1>7, <1>8

(* Logout drafts the list without its session. *)
LEMMA LogoutBegins ==
  ASSUME TypeOK, NEW c \in Request, NEW t \in DOMAIN issued, Logout(c, t)
  PROVE  Begins(c)
<1> DEFINE d == Copy("logout", t)
           rest == d.sessions \ {t}
           e == SetSessions(d, rest)
<1>0. t \in Nat /\ t \in sessions
  BY DEF TypeOK, Logout
<1>1. /\ d \in Draft /\ d.op = "logout" /\ d.presented = t
      /\ d.tokenVersion = tokenVersion /\ d.sessions = sessions
      /\ d.version = version /\ d.epoch = revoked /\ d.writes = {}
  BY <1>0, CopyFacts, "logout" \in Op DEF Op
<1>2. ToSave(c, e)
  BY DEF Logout, RemoveSessionByJti
<1> HIDE DEF d
<1>3. rest \in SUBSET Nat /\ rest # d.sessions
  BY <1>0, <1>1 DEF Draft
<1>4. /\ e \in Draft /\ e.sessions = rest
      /\ e.writes = d.writes \cup {"sessions"}
      /\ e = [d EXCEPT !.sessions = rest, !.writes = e.writes]
  BY <1>1, <1>3, SetSessionsFacts
<1> HIDE DEF e
<1>5. SameOrigin(e, d) /\ e.tokenVersion = d.tokenVersion
  BY <1>1, <1>4 DEF Draft, SameOrigin
<1>a. Shape(e)
  BY <1>1, <1>4, <1>5 DEF Shape, Mints, Versioned, SameOrigin
<1>6. JustRead(e) /\ e.op = "logout"
  BY <1>0, <1>1, <1>4, <1>5, <1>a DEF JustRead, Pushes, Mints, SameOrigin
<1>7. begun' \in 0..MaxCalls /\ secrets' \in Nat /\ links' = links
  BY DEF Logout, TypeOK, supply
<1>8. QED
  BY <1>2, <1>6, <1>7, ToSaveBegins

(* A revocation of a copy that has at most other fields changed. *)
LEMMA RevokedJustRead ==
  ASSUME TypeOK
  PROVE  \A d \in Draft :
           /\ d.op \notin {"login", "refresh", "logout", "forgotPassword"}
           /\ d.version = version /\ d.epoch = revoked
           /\ d.tokenVersion = tokenVersion
           /\ d.writes \subseteq {"password", "link", "status"}
           /\ "link" \in d.writes => d.link = 0
           /\ d.op = "resetPassword" =>
                "link" \in d.writes /\ d.presented = link /\ link # 0
           => JustRead(RevokeAllSessions(d)) /\ RevokeAllSessions(d).op = d.op
<1> SUFFICES ASSUME NEW d \in Draft,
                    d.op \notin {"login", "refresh", "logout", "forgotPassword"},
                    d.version = version, d.epoch = revoked,
                    d.tokenVersion = tokenVersion,
                    d.writes \subseteq {"password", "link", "status"},
                    "link" \in d.writes => d.link = 0,
                    d.op = "resetPassword" =>
                      "link" \in d.writes /\ d.presented = link /\ link # 0
             PROVE  JustRead(RevokeAllSessions(d)) /\ RevokeAllSessions(d).op = d.op
  OBVIOUS
<1> DEFINE e == RevokeAllSessions(d)
<1>1. /\ e \in Draft /\ e.sessions = {} /\ e.tokenVersion = d.tokenVersion + 1
      /\ d.writes \cup {"tokenVersion"} \subseteq e.writes
      /\ e.writes \subseteq d.writes \cup {"tokenVersion", "sessions"}
      /\ SameOrigin(e, d) /\ e.link = d.link
  BY RevokeFacts
<1> HIDE DEF e
<1>2. Shape(e)
  BY <1>1 DEF Shape, Mints, Versioned, SameOrigin
<1>3. JustRead(e) /\ e.op = d.op
  BY <1>1, <1>2 DEF JustRead, Pushes, Mints, SameOrigin
<1>4. QED
  BY <1>3 DEF e

(* A copy in which one field other than the list was set. *)
LEMMA FieldJustRead ==
  ASSUME TypeOK
  PROVE  \A op \in Op \ {"login", "refresh", "logout"} : \A p \in Nat :
         \A field \in {"password", "link", "status"} : \A v :
           (field = "status" => v \in Status) /\ (field # "status" => v \in Nat) =>
             LET d == Set(Copy(op, p), field, v) IN
             /\ d \in Draft /\ d.op = op /\ d.version = version /\ d.epoch = revoked
             /\ d.sessions = sessions /\ d.tokenVersion = tokenVersion
             /\ d.presented = p /\ d.link = (IF field = "link" THEN v ELSE link)
             /\ field = "link" /\ v # link => "link" \in d.writes
             /\ d.writes \subseteq {field}
<1> SUFFICES ASSUME NEW op \in Op \ {"login", "refresh", "logout"}, NEW p \in Nat,
                    NEW field \in {"password", "link", "status"}, NEW v,
                    field = "status" => v \in Status, field # "status" => v \in Nat
             PROVE  LET d == Set(Copy(op, p), field, v) IN
                    /\ d \in Draft /\ d.op = op /\ d.version = version
                    /\ d.epoch = revoked
                    /\ d.sessions = sessions /\ d.tokenVersion = tokenVersion
                    /\ d.presented = p /\ d.link = (IF field = "link" THEN v ELSE link)
                    /\ field = "link" /\ v # link => "link" \in d.writes
                    /\ d.writes \subseteq {field}
  OBVIOUS
<1> DEFINE b == Copy(op, p)  e == Set(b, field, v)
<1>1. /\ b \in Draft /\ b.op = op /\ b.tokenVersion = tokenVersion
      /\ b.sessions = sessions /\ b.version = version /\ b.epoch = revoked
      /\ b.presented = p /\ b.link = link /\ b.writes = {}
  BY CopyFacts
<1> HIDE DEF b
<1>2. /\ e \in Draft /\ SameOrigin(e, b) /\ e.sessions = b.sessions
      /\ e.tokenVersion = b.tokenVersion /\ e.writes \subseteq b.writes \cup {field}
      /\ e.link = (IF field = "link" THEN v ELSE b.link)
      /\ b[field] # v => field \in e.writes
  BY <1>1, SetFacts
<1>3. QED
  BY <1>1, <1>2 DEF SameOrigin, b

(* Revoking everything from an authenticated request. *)
LEMMA LogoutAllBegins ==
  ASSUME TypeOK, NEW c \in Request, LogoutAll(c)
  PROVE  Begins(c)
<1> DEFINE d == Copy("logoutAll", 0)  e == RevokeAllSessions(d)
<1>1. /\ d \in Draft /\ d.op = "logoutAll" /\ d.tokenVersion = tokenVersion
      /\ d.version = version /\ d.epoch = revoked /\ d.writes = {}
  BY CopyFacts, "logoutAll" \in Op, 0 \in Nat DEF Op
<1>2. ToSave(c, e)
  BY DEF LogoutAll
<1> HIDE DEF d
<1>3. JustRead(e) /\ e.op = "logoutAll"
  BY <1>1, RevokedJustRead
<1> HIDE DEF e
<1>4. begun' \in 0..MaxCalls /\ secrets' \in Nat /\ links' = links
  BY DEF LogoutAll, TypeOK, supply
<1>5. QED
  BY <1>2, <1>3, <1>4, ToSaveBegins

(* A changed password comes with a revocation. *)
LEMMA ChangePasswordBegins ==
  ASSUME TypeOK, NEW c \in Request, ChangePassword(c)
  PROVE  Begins(c)
<1> DEFINE d == Set(Copy("changePassword", 0), "password", secrets + 1)
           e == RevokeAllSessions(d)
<1>1. /\ d \in Draft /\ d.op = "changePassword" /\ d.version = version
      /\ d.epoch = revoked /\ d.tokenVersion = tokenVersion
      /\ d.writes \subseteq {"password"}
  <2>1. "changePassword" \in Op \ {"login", "refresh", "logout"} /\ secrets + 1 \in Nat
    BY DEF Op, TypeOK
  <2>2. QED
    BY <2>1, FieldJustRead
<1>2. ToSave(c, e)
  BY DEF ChangePassword
<1> HIDE DEF d
<1>3. JustRead(e) /\ e.op = "changePassword"
  BY <1>1, RevokedJustRead
<1> HIDE DEF e
<1>4. begun' \in 0..MaxCalls /\ secrets' \in Nat /\ links' = links
  BY DEF ChangePassword, TypeOK
<1>5. QED
  BY <1>2, <1>3, <1>4, ToSaveBegins

(* A new link changes the link only. *)
LEMMA ForgotPasswordBegins ==
  ASSUME TypeOK, NEW c \in Request, ForgotPassword(c)
  PROVE  Begins(c)
<1> DEFINE d == Set(Copy("forgotPassword", 0), "link", links + 1)
<1>1. /\ d \in Draft /\ d.op = "forgotPassword" /\ d.version = version
      /\ d.epoch = revoked /\ d.tokenVersion = tokenVersion
      /\ d.sessions = sessions /\ d.link = links + 1 /\ d.writes \subseteq {"link"}
  <2>1. "forgotPassword" \in Op \ {"login", "refresh", "logout"} /\ links + 1 \in Nat
    BY DEF Op, TypeOK
  <2>2. QED
    BY <2>1, FieldJustRead
<1>2. ToSave(c, d)
  BY DEF ForgotPassword
<1> HIDE DEF d
<1>3. JustRead(d) /\ d.op = "forgotPassword"
  BY <1>1 DEF JustRead, Shape, Mints, Versioned, Pushes
<1>4. begun' \in 0..MaxCalls /\ secrets' \in Nat /\ links' = links + 1
  BY SessionsAssumption DEF ForgotPassword, Admit, TypeOK
<1>5. QED
  BY <1>2, <1>3, <1>4, ToSaveBegins

(* A reset sets a password, clears the link and revokes; a late one only
   clears the link. *)
LEMMA ResetPasswordBegins ==
  ASSUME TypeOK, NEW c \in Request, ResetPassword(c)
  PROVE  Begins(c)
<1> DEFINE b == Set(Copy("resetPassword", link), "password", secrets + 1)
           d == Set(b, "link", 0)
           e == RevokeAllSessions(d)
           x == Set(Copy("resetExpired", link), "link", 0)
<1>0. begun' \in 0..MaxCalls /\ secrets' \in Nat /\ links' = links
  BY SessionsAssumption DEF ResetPassword, Admit, TypeOK
<1>1. /\ b \in Draft /\ b.op = "resetPassword" /\ b.version = version
      /\ b.epoch = revoked /\ b.tokenVersion = tokenVersion
      /\ b.presented = link /\ b.link = link /\ b.writes \subseteq {"password"}
  <2>1. /\ "resetPassword" \in Op \ {"login", "refresh", "logout"}
        /\ secrets + 1 \in Nat /\ link \in Nat
    BY DEF Op, TypeOK
  <2>2. QED
    BY <2>1, FieldJustRead
<1>2. (ToSave(c, e) \/ ToSave(c, x)) /\ link # 0
  BY DEF ResetPassword
<1>3. /\ x \in Draft /\ x.op = "resetExpired" /\ x.version = version
      /\ x.epoch = revoked /\ x.tokenVersion = tokenVersion
      /\ x.sessions = sessions /\ x.link = 0 /\ x.writes \subseteq {"link"}
  <2>1. /\ "resetExpired" \in Op \ {"login", "refresh", "logout"}
        /\ link \in Nat /\ 0 \in Nat
    BY DEF Op, TypeOK
  <2>2. QED
    BY <2>1, FieldJustRead
<1> HIDE DEF b, x
<1>4. /\ d \in Draft /\ SameOrigin(d, b) /\ d.tokenVersion = b.tokenVersion
      /\ d.writes \subseteq {"password", "link"} /\ "link" \in d.writes /\ d.link = 0
  <2>1. /\ d \in Draft /\ SameOrigin(d, b) /\ d.tokenVersion = b.tokenVersion
        /\ d.link = 0 /\ (b["link"] # 0 => "link" \in d.writes)
        /\ d.writes \subseteq b.writes \cup {"link"}
    BY <1>1, SetFacts, 0 \in Nat
  <2>2. QED
    BY <1>1, <1>2, <2>1
<1> HIDE DEF d
<1>5. JustRead(e) /\ e.op = "resetPassword"
  <2>1. d.op = "resetPassword" /\ d.presented = link /\ d.version = version /\ d.epoch = revoked
    BY <1>1, <1>4 DEF SameOrigin
  <2>2. QED
    BY <1>1, <1>2, <1>4, <2>1, RevokedJustRead
<1> HIDE DEF e
<1>6. JustRead(x) /\ x.op = "resetExpired"
  BY <1>3 DEF JustRead, Shape, Mints, Versioned, Pushes
<1>7. QED
  BY <1>0, <1>2, <1>5, <1>6, ToSaveBegins

(* A new role advances the tokenVersion and nothing else. *)
LEMMA UpdateRoleBegins ==
  ASSUME TypeOK, NEW c \in Request, UpdateRole(c)
  PROVE  Begins(c)
<1> DEFINE b == Copy("updateRole", 0)  d == Set(b, "tokenVersion", tokenVersion + 1)
<1>1. /\ b \in Draft /\ b.op = "updateRole" /\ b.tokenVersion = tokenVersion
      /\ b.sessions = sessions /\ b.version = version /\ b.epoch = revoked
      /\ b.writes = {}
  BY CopyFacts, "updateRole" \in Op, 0 \in Nat DEF Op
<1>2. ToSave(c, d)
  BY DEF UpdateRole
<1>3. tokenVersion + 1 \in Nat /\ b.tokenVersion # tokenVersion + 1
  BY <1>1 DEF TypeOK
<1> HIDE DEF b
<1>4. d = [b EXCEPT !.tokenVersion = tokenVersion + 1,
                    !.writes = b.writes \cup {"tokenVersion"}]
  BY <1>3 DEF Set
<1> HIDE DEF d
<1>5. /\ d \in Draft /\ d.op = "updateRole" /\ d.tokenVersion = tokenVersion + 1
      /\ d.sessions = sessions /\ d.version = version /\ d.epoch = revoked
      /\ d.writes = {"tokenVersion"}
  BY <1>1, <1>3, <1>4 DEF Draft, Field
<1>6. JustRead(d) /\ d.op = "updateRole"
  BY <1>5 DEF JustRead, Shape, Mints, Versioned, Pushes
<1>7. begun' \in 0..MaxCalls /\ secrets' \in Nat /\ links' = links
  BY SessionsAssumption DEF UpdateRole, Admit, TypeOK
<1>8. QED
  BY <1>2, <1>6, <1>7, ToSaveBegins

(* A status other than ACTIVE comes with a revocation. *)
LEMMA UpdateStatusBegins ==
  ASSUME TypeOK, NEW c \in Request, NEW new \in {"ACTIVE", "SUSPENDED"},
         UpdateStatus(c, new)
  PROVE  Begins(c)
<1> DEFINE d == Set(Copy("updateStatus", 0), "status", new)  e == RevokeAllSessions(d)
<1>1. /\ d \in Draft /\ d.op = "updateStatus" /\ d.version = version
      /\ d.epoch = revoked /\ d.tokenVersion = tokenVersion
      /\ d.sessions = sessions /\ d.writes \subseteq {"status"}
  <2>1. /\ "updateStatus" \in Op \ {"login", "refresh", "logout"}
        /\ new \in Status /\ 0 \in Nat
    BY DEF Op, Status
  <2>2. QED
    BY <2>1, FieldJustRead
<1>2. ToSave(c, d) \/ ToSave(c, e)
  BY DEF UpdateStatus
<1> HIDE DEF d
<1>3. JustRead(e) /\ e.op = "updateStatus"
  BY <1>1, RevokedJustRead
<1> HIDE DEF e
<1>4. JustRead(d) /\ d.op = "updateStatus"
  BY <1>1 DEF JustRead, Shape, Mints, Versioned, Pushes
<1>5. begun' \in 0..MaxCalls /\ secrets' \in Nat /\ links' = links
  BY SessionsAssumption DEF UpdateStatus, Admit, TypeOK
<1>6. QED
  BY <1>2, <1>3, <1>4, <1>5, ToSaveBegins

(* So does a deletion that keeps the document. *)
LEMMA SoftDeleteBegins ==
  ASSUME TypeOK, NEW c \in Request, SoftDelete(c)
  PROVE  Begins(c)
<1> DEFINE d == Set(Copy("softDelete", 0), "status", "DELETED")  e == RevokeAllSessions(d)
<1>1. /\ d \in Draft /\ d.op = "softDelete" /\ d.version = version
      /\ d.epoch = revoked /\ d.tokenVersion = tokenVersion
      /\ d.writes \subseteq {"status"}
  <2>1. /\ "softDelete" \in Op \ {"login", "refresh", "logout"}
        /\ "DELETED" \in Status /\ 0 \in Nat
    BY DEF Op, Status
  <2>2. QED
    BY <2>1, FieldJustRead
<1>2. ToSave(c, e)
  BY DEF SoftDelete
<1> HIDE DEF d
<1>3. JustRead(e) /\ e.op = "softDelete"
  BY <1>1, RevokedJustRead
<1> HIDE DEF e
<1>4. begun' \in 0..MaxCalls /\ secrets' \in Nat /\ links' = links
  BY SessionsAssumption DEF SoftDelete, Admit, TypeOK
<1>5. QED
  BY <1>2, <1>3, <1>4, ToSaveBegins

(* A deletion by id has nothing to write. *)
LEMMA HardDeleteBegins ==
  ASSUME TypeOK, NEW c \in Request, HardDelete(c)
  PROVE  Begins(c)
<1> DEFINE d == Copy("hardDelete", 0)
<1>1. /\ d \in Draft /\ d.op = "hardDelete" /\ d.version = version
      /\ d.epoch = revoked /\ d.tokenVersion = tokenVersion
      /\ d.sessions = sessions /\ d.writes = {}
  BY CopyFacts, "hardDelete" \in Op, 0 \in Nat DEF Op
<1>2. ToSave(c, d)
  BY DEF HardDelete
<1> HIDE DEF d
<1>3. JustRead(d) /\ d.op = "hardDelete"
  BY <1>1 DEF JustRead, Shape, Mints, Versioned, Pushes
<1>4. begun' \in 0..MaxCalls /\ secrets' \in Nat /\ links' = links
  BY SessionsAssumption DEF HardDelete, Admit, TypeOK
<1>5. QED
  BY <1>2, <1>3, <1>4, ToSaveBegins

(* The middleware lets a request through. *)
LEMMA AuthenticateFacts ==
  ASSUME TypeOK, NEW c \in Request,
         NEW op \in {"logout", "logoutAll", "changePassword"}, Authenticate(c, op)
  PROVE  IsAuthenticated(c)
<1>1. draft'[c].op = op
  BY DEF Authenticate, TypeOK, Draft
<1>2. QED
  BY <1>1, SessionsAssumption DEF Authenticate, IsAuthenticated, Admit, TypeOK, Op

(* What a step can be: the proofs below go through these kinds. *)
LEMMA StepKinds ==
  ASSUME TypeOK, [Next]_vars
  PROVE  \/ \E c \in Request : \/ Begins(c) \/ IsAuthenticated(c)
                              \/ Save(c) \/ SaveFails(c) \/ Delete(c)
         \/ Expire
         \/ UNCHANGED vars
BY LoginBegins, RefreshBegins, LogoutBegins, LogoutAllBegins, ChangePasswordBegins,
   ForgotPasswordBegins, ResetPasswordBegins, UpdateRoleBegins, UpdateStatusBegins,
   SoftDeleteBegins, HardDeleteBegins, AuthenticateFacts DEF Next

-----------------------------------------------------------------------------
(* What saving a draft does to the list and to the tokens.                 *)

(* The stored list after a save is what is left of the old one and, for a  *)
(* sign-in or a refresh, the new token.                                    *)
Left(d) == IF Versioned(d) THEN d.sessions ELSE sessions

(* The records of tokens, one by one. *)
LEMMA TokensTyped ==
  ASSUME TypeOK
  PROVE  \A t \in DOMAIN issued :
           /\ t \in Nat \ {0} /\ issued[t] \in Token
           /\ issued[t].tokenVersion \in Nat /\ issued[t].parent \in Nat
           /\ issued[t].login \in Nat /\ issued[t].secret \in Nat
           /\ issued[t].epoch \in Nat
<1>1. \A t \in DOMAIN issued : t \in Nat \ {0} /\ issued[t] \in Token
  BY DEF TypeOK
<1>2. QED
  BY <1>1 DEF Token

(* The token that is minted, and where it stands in the chains. *)
LEMMA NewTokenFacts ==
  ASSUME ChainInv, NEW c \in Request, pc[c] = "saving", Mints(draft[c])
  PROVE  LET d == draft[c]  k == NewToken(d) IN
         /\ k \in Token
         /\ k.tokenVersion = d.tokenVersion /\ k.epoch = d.epoch
         /\ d.op = "login" =>
              k.parent = 0 /\ k.login = Len(issued) + 1 /\ k.secret = d.password
         /\ d.op = "refresh" =>
              /\ k.parent = d.presented /\ k.login = issued[d.presented].login
              /\ k.secret = issued[d.presented].secret
<1> DEFINE d == draft[c]
<1>1. /\ d \in Draft /\ Len(issued) \in Nat /\ 0 \notin DOMAIN issued
      /\ d.op = "login" => d.presented = 0
      /\ d.op = "refresh" => d.presented \in DOMAIN issued
      /\ \A t \in DOMAIN issued : issued[t] \in Token
  BY DEF ChainInv, DraftCurrent, Shape, TypeOK
<1>2. CASE d.op = "login"
  BY <1>1, <1>2 DEF NewToken, Token, Draft
<1>3. CASE d.op = "refresh"
  BY <1>1, <1>3 DEF NewToken, Token, Draft
<1>4. QED
  BY <1>2, <1>3 DEF Mints

(* How the list, the tokens and the version change together. *)
LEMMA SaveFacts ==
  ASSUME ChainInv, NEW c \in Request, Save(c)
  PROVE  LET d == draft[c] IN
         /\ Shape(d) /\ pc[c] = "saving"
         /\ Left(d) \subseteq sessions
         /\ d.op \in {"refresh", "logout"} => d.presented \in sessions \ Left(d)
         /\ \/ /\ Mints(d)
               /\ sessions' = Left(d) \cup {Len(issued) + 1}
               /\ issued' = Append(issued, NewToken(d))
               /\ version' = version + 1
            \/ /\ ~Mints(d) /\ Versioned(d)
               /\ sessions' = Left(d) /\ issued' = issued /\ version' = version + 1
            \/ /\ ~Mints(d) /\ ~Versioned(d) /\ d.op # "logout"
               /\ sessions' = sessions /\ issued' = issued /\ version' = version
         /\ signedOut' = IF d.op = "logout"
                         THEN signedOut \cup {issued[d.presented].login} ELSE signedOut
<1> DEFINE d == draft[c]
<1>1. /\ pc[c] = "saving" /\ SaveSucceeds(d)
      /\ sessions' = (IF "sessions" \in d.writes THEN d.sessions ELSE sessions)
                        \cup (IF Mints(d) THEN {Len(issued) + 1} ELSE {})
      /\ version' = IF d.writes \cap {"sessions", "push"} = {} THEN version ELSE version + 1
      /\ issued' = IF Mints(d) THEN Append(issued, NewToken(d)) ELSE issued
      /\ signedOut' = IF d.op = "logout" THEN signedOut \cup {issued[d.presented].login}
                      ELSE signedOut
  BY DEF Save
<1>2. /\ Shape(d)
      /\ d.version = version =>
           /\ d.sessions \subseteq sessions
           /\ d.op \in {"refresh", "logout"} => d.presented \in sessions \ d.sessions
  BY <1>1 DEF ChainInv, DraftCurrent
<1> HIDE DEF d
<1>3. Left(d) \subseteq sessions
  BY <1>1, <1>2 DEF SaveSucceeds, Left, Versioned
<1>4. d.op \in {"refresh", "logout"} => d.presented \in sessions \ Left(d)
  BY <1>1, <1>2 DEF SaveSucceeds, Left, Versioned, Shape
<1>5. CASE Mints(d)
  BY <1>1, <1>2, <1>3, <1>4, <1>5 DEF Left, Versioned, Shape, d
<1>6. CASE ~Mints(d)
  BY <1>1, <1>2, <1>3, <1>4, <1>6 DEF Left, Versioned, Shape, d
<1>7. QED
  BY <1>5, <1>6

(* The records of the tokens there were do not change. *)
LEMMA IssuedGrows ==
  ASSUME ChainInv, NEW c \in Request, Save(c)
  PROVE  /\ DOMAIN issued \subseteq DOMAIN issued'
         /\ \A t \in DOMAIN issued : issued'[t] = issued[t]
         /\ issued' \in Seq(Token)
         /\ \/ issued' = issued
            \/ /\ Mints(draft[c])
               /\ DOMAIN issued' = DOMAIN issued \cup {Len(issued) + 1}
               /\ Len(issued) + 1 \notin DOMAIN issued
               /\ issued'[Len(issued) + 1] = NewToken(draft[c])
<1>1. issued \in Seq(Token)
  BY DEF ChainInv, TypeOK
<1>2. CASE Mints(draft[c])
  <2>1. issued' = Append(issued, NewToken(draft[c])) /\ NewToken(draft[c]) \in Token
    BY <1>2, SaveFacts, NewTokenFacts
  <2>2. QED
    BY <1>1, <1>2, <2>1
<1>3. CASE ~Mints(draft[c])
  BY <1>1, <1>3, SaveFacts
<1>4. QED
  BY <1>2, <1>3

(* Saving keeps the types. *)
LEMMA SaveTypes ==
  ASSUME ChainInv, NEW c \in Request, Save(c)
  PROVE  TypeOK'
<1> DEFINE d == draft[c]
<1>1. /\ d \in Draft
      /\ d.password \in Nat /\ d.tokenVersion \in Nat /\ d.link \in Nat
      /\ d.status \in Status \cup {"GONE"} /\ d.presented \in Nat
  BY DEF ChainInv, DraftCurrent, Shape, Save, Draft
<1>2. password' \in Nat /\ tokenVersion' \in Nat /\ link' \in Nat /\ version' \in Nat
      /\ status' \in Status \cup {"GONE"}
  BY <1>1 DEF Save, ChainInv, TypeOK
<1>3. sessions' \subseteq DOMAIN issued'
  BY IssuedGrows, SaveFacts DEF ChainInv, TypeOK
<1>4. pc' \in [Request -> {"idle", "authenticated", "saving"}] /\ draft' \in [Request -> Draft]
  <2>1. NoDraft \in Draft
    BY DEF NoDraft, Draft, Op, Status
  <2>2. pc' = [pc EXCEPT ![c] = "idle"] /\ draft' = [draft EXCEPT ![c] = NoDraft]
    BY DEF Save, End
  <2> HIDE DEF d
  <2>3. QED
    BY <2>1, <2>2 DEF ChainInv, TypeOK
<1>5. signedOut' \subseteq Nat
  <2>a. \A t \in sessions : issued[t].login \in Nat
    BY TokensTyped DEF ChainInv, TypeOK
  <2>b. d.op = "logout" => d.presented \in sessions
    BY SaveFacts
  <2>1. d.op = "logout" => issued[d.presented].login \in Nat
    BY <2>a, <2>b
  <2>2. QED
    BY <2>1, SaveFacts DEF ChainInv, TypeOK
<1>6. evicted' \subseteq Nat /\ revoked' \in Nat
  <2>1. evicted \subseteq Nat /\ sessions \subseteq Nat /\ revoked \in Nat
    BY DEF ChainInv, TypeOK
  <2>2. /\ \/ evicted' = evicted
           \/ evicted' = evicted \cup (sessions \ (d.sessions \cup {d.presented}))
        /\ (revoked' = revoked \/ revoked' = revoked + 1)
    BY DEF Save
  <2>3. evicted' \subseteq evicted \cup sessions
    BY <2>2
  <2>4. revoked' \in Nat
    BY <2>1, <2>2
  <2>5. QED
    BY <2>1, <2>3, <2>4
<1>7. spent' \in Seq(Nat)
  <2>1. spent \in Seq(Nat) /\ (spent' = spent \/ spent' = Append(spent, d.presented))
    BY DEF Save, ChainInv, TypeOK
  <2> HIDE DEF d
  <2>2. QED
    BY <1>1, <2>1
<1>8. raced' \in BOOLEAN
  <2>1. raced' = (raced \/ ("tokenVersion" \in d.writes
                            /\ d.tokenVersion # tokenVersion + 1))
    BY DEF Save
  <2> HIDE DEF d
  <2>2. QED
    BY <2>1
<1>9. QED
  BY <1>2, <1>3, <1>4, <1>5, <1>6, <1>7, <1>8, IssuedGrows
     DEF Save, End, clock, supply, ChainInv, TypeOK

(* Where the new token stands: it follows a token that is leaving the list,
   or it starts a chain. *)
LEMMA NewTokenPlace ==
  ASSUME ChainInv, NEW c \in Request, Save(c), issued' # issued
  PROVE  LET n == Len(issued) + 1 IN
         /\ n \in Nat \ {0} /\ n \notin DOMAIN issued /\ DOMAIN issued = 1..(n - 1)
         /\ DOMAIN issued' = DOMAIN issued \cup {n}
         /\ sessions' = Left(draft[c]) \cup {n}
         /\ \/ issued'[n].parent = 0 /\ issued'[n].login = n
            \/ \E p \in sessions \ Left(draft[c]) :
                 issued'[n].parent = p /\ issued'[n].login = issued[p].login
<1>1. /\ Mints(draft[c]) /\ pc[c] = "saving"
      /\ sessions' = Left(draft[c]) \cup {Len(issued) + 1}
  BY SaveFacts
<1>2. /\ DOMAIN issued' = DOMAIN issued \cup {Len(issued) + 1}
      /\ Len(issued) + 1 \notin DOMAIN issued
      /\ issued'[Len(issued) + 1] = NewToken(draft[c])
  BY IssuedGrows
<1>3. DOMAIN issued = 1..Len(issued) /\ Len(issued) \in Nat
  BY DEF ChainInv, TypeOK
<1>4. CASE draft[c].op = "login"
  BY <1>1, <1>2, <1>3, <1>4, NewTokenFacts
<1>5. CASE draft[c].op = "refresh"
  <2>1. draft[c].presented \in sessions \ Left(draft[c])
    BY <1>5, SaveFacts
  <2>2. /\ NewToken(draft[c]).parent = draft[c].presented
        /\ NewToken(draft[c]).login = issued[draft[c].presented].login
    BY <1>1, <1>5, NewTokenFacts
  <2>3. QED
    BY <1>1, <1>2, <1>3, <2>1, <2>2
<1>6. QED
  BY <1>1, <1>4, <1>5 DEF Mints

(* Saving keeps the chains and what they imply. *)
LEMMA SaveChains ==
  ASSUME ChainInv, NEW c \in Request, Save(c)
  PROVE  Chains' /\ TokenUsedOnce' /\ OneSessionPerLogin' /\ SignedOutStaysOut'
<1> DEFINE d == draft[c]  n == Len(issued) + 1
<1>1. Left(d) \subseteq sessions /\ sessions \subseteq DOMAIN issued
  BY SaveFacts DEF ChainInv, TypeOK
<1>2. /\ DOMAIN issued \subseteq DOMAIN issued'
      /\ \A t \in DOMAIN issued : issued'[t] = issued[t]
  BY IssuedGrows
<1>3. /\ \A t \in DOMAIN issued :
           issued[t].parent \in 0..(t - 1) /\ issued[t].login \in DOMAIN issued
      /\ \A t \in sessions, u \in DOMAIN issued : issued[u].parent # t
      /\ signedOut \subseteq DOMAIN issued
      /\ \A t, u \in DOMAIN issued :
           issued[t].parent = issued[u].parent /\ issued[t].parent # 0 => t = u
      /\ \A t, u \in sessions : issued[t].login = issued[u].login => t = u
      /\ \A t \in sessions : issued[t].login \notin signedOut
      /\ 0 \notin DOMAIN issued /\ DOMAIN issued \subseteq Nat
  BY TokensTyped DEF ChainInv, Chains, TokenUsedOnce, OneSessionPerLogin, SignedOutStaysOut
<1>4. \/ signedOut' = signedOut
      \/ /\ d.presented \in sessions \ Left(d) /\ issued' = issued /\ sessions' = Left(d)
         /\ signedOut' = signedOut \cup {issued[d.presented].login}
  BY SaveFacts DEF Mints
<1> HIDE DEF d
<1>5. CASE issued' = issued
  <2>1. sessions' \subseteq sessions
    BY <1>1, <1>5, SaveFacts DEF ChainInv, TypeOK, d
  <2>2. Chains' /\ TokenUsedOnce' /\ OneSessionPerLogin'
    <3>1. signedOut' \subseteq DOMAIN issued
      BY <1>1, <1>3, <1>4
    <3>2. QED
      BY <1>3, <1>5, <2>1, <3>1 DEF Chains, TokenUsedOnce, OneSessionPerLogin
  <2>3. SignedOutStaysOut'
    BY <1>1, <1>3, <1>4, <1>5, <2>1 DEF SignedOutStaysOut
  <2>4. QED
    BY <2>2, <2>3
<1>6. CASE issued' # issued
  <2>1. /\ n \in Nat \ {0} /\ n \notin DOMAIN issued /\ DOMAIN issued = 1..(n - 1)
        /\ DOMAIN issued' = DOMAIN issued \cup {n}
        /\ sessions' = Left(d) \cup {n}
        /\ \/ issued'[n].parent = 0 /\ issued'[n].login = n
           \/ \E p \in sessions \ Left(d) :
                issued'[n].parent = p /\ issued'[n].login = issued[p].login
    BY <1>6, NewTokenPlace DEF d
  <2> HIDE DEF n
  <2>2. signedOut' = signedOut
    BY <1>4, <1>6
  <2>3. CASE issued'[n].parent = 0 /\ issued'[n].login = n
    <3>1. Chains'
      BY <1>1, <1>2, <1>3, <2>1, <2>2, <2>3 DEF Chains
    <3>2. TokenUsedOnce'
      BY <1>2, <1>3, <2>1, <2>3 DEF TokenUsedOnce
    <3>3. OneSessionPerLogin' /\ SignedOutStaysOut'
      BY <1>1, <1>2, <1>3, <2>1, <2>2, <2>3 DEF OneSessionPerLogin, SignedOutStaysOut
    <3>4. QED
      BY <3>1, <3>2, <3>3
  <2>4. CASE \E p \in sessions \ Left(d) :
               issued'[n].parent = p /\ issued'[n].login = issued[p].login
    <3>1. PICK p \in sessions \ Left(d) :
            issued'[n].parent = p /\ issued'[n].login = issued[p].login
      BY <2>4
    <3>2. p \in DOMAIN issued /\ p \in 0..(n - 1) /\ p # 0
      BY <1>1, <1>3, <2>1, <3>1
    <3>3. Chains'
      BY <1>1, <1>2, <1>3, <2>1, <2>2, <3>1, <3>2 DEF Chains
    <3>4. TokenUsedOnce'
      BY <1>2, <1>3, <2>1, <3>1, <3>2 DEF TokenUsedOnce
    <3>5. \A t \in Left(d) :
            /\ t \in DOMAIN issued /\ t # n /\ issued'[t].login = issued[t].login
            /\ issued[t].login # issued[p].login /\ issued[t].login \notin signedOut
      BY <1>1, <1>2, <1>3, <2>1, <3>1
    <3>6. \A t, u \in Left(d) : issued[t].login = issued[u].login => t = u
      BY <1>1, <1>3
    <3>7. OneSessionPerLogin'
      BY <2>1, <3>1, <3>5, <3>6 DEF OneSessionPerLogin
    <3>8. SignedOutStaysOut'
      BY <1>3, <2>1, <2>2, <3>1, <3>5 DEF SignedOutStaysOut
    <3>9. QED
      BY <3>3, <3>4, <3>7, <3>8
  <2>5. QED
    BY <2>1, <2>3, <2>4
<1>7. QED
  BY <1>5, <1>6

(* A save leaves the other drafts current: it changes the list only together
   with the version. *)
LEMMA SaveDrafts ==
  ASSUME ChainInv, NEW c \in Request, Save(c), NEW e \in Request
  PROVE  DraftCurrent(e)'
<1>1. pc' = [pc EXCEPT ![c] = "idle"] /\ draft' = [draft EXCEPT ![c] = NoDraft]
  BY DEF Save, End
<1>2. DOMAIN issued \subseteq DOMAIN issued'
  BY IssuedGrows
<1>3. \/ version' = version + 1
      \/ version' = version /\ sessions' = sessions
  BY SaveFacts
<1>4. version \in Nat
  BY DEF ChainInv, TypeOK
<1>5. CASE e = c
  BY <1>1, <1>5 DEF DraftCurrent, ChainInv, TypeOK
<1>6. CASE e # c
  <2>1. pc'[e] = pc[e] /\ draft'[e] = draft[e]
    BY <1>1, <1>6 DEF ChainInv, TypeOK
  <2>2. DraftCurrent(e)
    BY DEF ChainInv
  <2>3. SUFFICES ASSUME pc[e] = "saving" PROVE DraftCurrent(e)'
    BY <2>1 DEF DraftCurrent
  <2>4. Shape(draft'[e]) /\ draft[e].version \in Nat
    BY <2>1, <2>2, <2>3 DEF DraftCurrent, Shape, Draft
  <2>5. QED
    BY <1>2, <1>3, <1>4, <2>1, <2>2, <2>3, <2>4 DEF DraftCurrent, Shape, Mints, Versioned
<1>7. QED
  BY <1>5, <1>6

-----------------------------------------------------------------------------
(* The invariants are inductive.                                           *)

(* A request that begins has a draft of the present document. *)
LEMMA BeginsKeepsDrafts ==
  ASSUME ChainInv, NEW c \in Request, Begins(c), NEW e \in Request
  PROVE  DraftCurrent(e)'
<1>1. /\ pc' = [pc EXCEPT ![c] = "saving"] /\ draft' = [draft EXCEPT ![c] = draft'[c]]
      /\ JustRead(draft'[c])
      /\ version' = version /\ sessions' = sessions /\ issued' = issued
  BY DEF Begins, doc
<1>2. version \in Nat
  BY DEF ChainInv, TypeOK
<1>3. CASE e = c
  BY <1>1, <1>2, <1>3 DEF DraftCurrent, JustRead, Shape, Mints, Versioned
<1>4. CASE e # c
  <2>1. pc'[e] = pc[e] /\ draft'[e] = draft[e]
    BY <1>1, <1>4 DEF ChainInv, TypeOK
  <2>2. QED
    BY <1>1, <2>1 DEF ChainInv, DraftCurrent, Shape, Mints, Versioned
<1>5. QED
  BY <1>3, <1>4

(* A request that does not save leaves the document's list alone. *)
LEMMA OtherStepsKeepDrafts ==
  ASSUME ChainInv, NEW e \in Request,
         version' = version, sessions' = sessions, issued' = issued,
         pc'[e] = "saving" => pc[e] = "saving" /\ draft'[e] = draft[e]
  PROVE  DraftCurrent(e)'
BY DEF ChainInv, DraftCurrent, Shape, Mints, Versioned

(* The chain invariant holds for ever. *)
LEMMA ChainInvStep ==
  ASSUME ChainInv, [Next]_vars
  PROVE  ChainInv'
<1>0. TypeOK
  BY DEF ChainInv
<1>1. ASSUME NEW c \in Request, Begins(c) PROVE ChainInv'
  <2>1. TypeOK'
    <3>1. draft'[c] \in Draft
      BY <1>1 DEF Begins, JustRead, Shape
    <3>2. QED
      BY <1>0, <1>1, <3>1 DEF Begins, TypeOK, doc, clock, history
  <2>2. Chains' /\ TokenUsedOnce' /\ OneSessionPerLogin' /\ SignedOutStaysOut'
    BY <1>1 DEF Begins, doc, history, ChainInv, Chains, TokenUsedOnce, OneSessionPerLogin,
                SignedOutStaysOut
  <2>3. QED
    BY <1>1, <2>1, <2>2, BeginsKeepsDrafts DEF ChainInv
<1>2. ASSUME NEW c \in Request, IsAuthenticated(c) PROVE ChainInv'
  <2>1. TypeOK'
    <3> DEFINE o == draft'[c].op
    <3>1. draft[c] \in Draft /\ o \in Op
      BY <1>0, <1>2 DEF IsAuthenticated, TypeOK
    <3>2. draft' = [draft EXCEPT ![c].op = o]
      BY <1>2 DEF IsAuthenticated
    <3> HIDE DEF o
    <3>3. [draft[c] EXCEPT !.op = o] \in Draft
      BY <3>1 DEF Draft
    <3>4. draft' \in [Request -> Draft]
      BY <1>0, <3>2, <3>3 DEF TypeOK
    <3>5. QED
      BY <1>0, <1>2, <3>4 DEF IsAuthenticated, TypeOK, doc, clock, history
  <2>2. Chains' /\ TokenUsedOnce' /\ OneSessionPerLogin' /\ SignedOutStaysOut'
    BY <1>2 DEF IsAuthenticated, doc, history, ChainInv, Chains, TokenUsedOnce,
                OneSessionPerLogin, SignedOutStaysOut
  <2>3. ASSUME NEW e \in Request PROVE DraftCurrent(e)'
    <3>1. pc'[e] = "saving" => pc[e] = "saving" /\ draft'[e] = draft[e]
      BY <1>0, <1>2 DEF IsAuthenticated, TypeOK
    <3>2. QED
      BY <1>2, <3>1, OtherStepsKeepDrafts DEF IsAuthenticated, doc
  <2>4. QED
    BY <2>1, <2>2, <2>3 DEF ChainInv
<1>3. ASSUME NEW c \in Request, Save(c) PROVE ChainInv'
  BY <1>3, SaveTypes, SaveChains, SaveDrafts DEF ChainInv
<1>4. ASSUME NEW c \in Request, SaveFails(c) \/ Delete(c) PROVE ChainInv'
  <2>1. /\ pc' = [pc EXCEPT ![c] = "idle"] /\ draft' = [draft EXCEPT ![c] = NoDraft]
        /\ status' \in Status \cup {"GONE"}
        /\ UNCHANGED <<password, tokenVersion, sessions, link, version, issued, clock,
                       supply, history>>
    BY <1>0, <1>4 DEF SaveFails, Delete, End, doc, TypeOK
  <2>2. TypeOK'
    <3>1. NoDraft \in Draft
      BY DEF NoDraft, Draft, Op, Status
    <3>2. QED
      BY <1>0, <2>1, <3>1 DEF TypeOK, clock, supply, history
  <2>3. Chains' /\ TokenUsedOnce' /\ OneSessionPerLogin' /\ SignedOutStaysOut'
    BY <2>1 DEF history, ChainInv, Chains, TokenUsedOnce, OneSessionPerLogin,
                SignedOutStaysOut
  <2>4. ASSUME NEW e \in Request PROVE DraftCurrent(e)'
    <3>1. pc'[e] = "saving" => pc[e] = "saving" /\ draft'[e] = draft[e]
      BY <1>0, <2>1 DEF TypeOK
    <3>2. QED
      BY <2>1, <3>1, OtherStepsKeepDrafts
  <2>5. QED
    BY <2>2, <2>3, <2>4 DEF ChainInv
<1>5. ASSUME Expire \/ UNCHANGED vars PROVE ChainInv'
  <2>1. UNCHANGED <<doc, call, issued, supply, history>>
    BY <1>5 DEF Expire, vars
  <2>2. expired' \in Nat /\ lapsed' \in Nat
    BY <1>0, <1>5 DEF Expire, vars, clock, TypeOK
  <2>3. TypeOK'
    BY <1>0, <2>1, <2>2 DEF TypeOK, doc, call, supply, history
  <2>4. Chains' /\ TokenUsedOnce' /\ OneSessionPerLogin' /\ SignedOutStaysOut'
    BY <2>1 DEF doc, history, ChainInv, Chains, TokenUsedOnce, OneSessionPerLogin,
                SignedOutStaysOut
  <2>5. \A e \in Request : DraftCurrent(e)'
    BY <2>1, OtherStepsKeepDrafts DEF doc, call
  <2>6. QED
    BY <2>3, <2>4, <2>5 DEF ChainInv
<1>6. QED
  BY <1>0, <1>1, <1>2, <1>3, <1>4, <1>5, StepKinds

(* The chain invariant holds at the start. *)
LEMMA ChainInvInit ==
  ASSUME Init
  PROVE  ChainInv
<1> DEFINE k == [tokenVersion |-> 0, parent |-> 0, login |-> 1, secret |-> 1, epoch |-> 0]
<1>1. k \in Token /\ issued = <<k>> /\ NoDraft \in Draft
  BY DEF Init, Token, NoDraft, Draft, Op, Status
<1>2. issued \in Seq(Token) /\ DOMAIN issued = {1} /\ issued[1] = k
  BY <1>1
<1> HIDE DEF k
<1>3. TypeOK
  <2>1. /\ pc \in [Request -> {"idle", "authenticated", "saving"}]
        /\ draft \in [Request -> Draft]
    BY <1>1 DEF Init
  <2>2. begun \in 0..MaxCalls /\ spent \in Seq(Nat)
    BY SessionsAssumption DEF Init
  <2>3. raced \in BOOLEAN
    BY DEF Init
  <2>4. QED
    BY <1>2, <2>1, <2>2, <2>3 DEF Init, TypeOK, Status
<1>4. Chains /\ TokenUsedOnce /\ OneSessionPerLogin /\ SignedOutStaysOut
  BY <1>2 DEF k, Init, Chains, TokenUsedOnce, OneSessionPerLogin, SignedOutStaysOut
<1>5. \A c \in Request : DraftCurrent(c)
  BY DEF Init, DraftCurrent
<1>6. QED
  BY <1>3, <1>4, <1>5 DEF ChainInv

(* Types, chains and current drafts, in every reachable state. *)
THEOREM ChainsHold == Spec => []ChainInv
<1>1. Init => ChainInv
  BY ChainInvInit
<1>2. ChainInv /\ [Next]_vars => ChainInv'
  BY ChainInvStep
<1>3. QED
  BY <1>1, <1>2, PTL DEF Spec

(* Every variable keeps its type. *)
THEOREM SessionsTyped == Spec => []TypeOK
<1>1. ChainInv => TypeOK
  BY DEF ChainInv
<1>2. QED
  BY <1>1, ChainsHold, PTL

(* However many requests present one refresh token, for any number of
   sessions: it is exchanged at most once. *)
THEOREM ExchangedOnce == Spec => []TokenUsedOnce
<1>1. ChainInv => TokenUsedOnce
  BY DEF ChainInv
<1>2. QED
  BY <1>1, ChainsHold, PTL

(* A refresh in flight never undoes a logout. *)
THEOREM LogoutIsFinal == Spec => []SignedOutStaysOut
<1>1. ChainInv => SignedOutStaysOut
  BY DEF ChainInv
<1>2. QED
  BY <1>1, ChainsHold, PTL

(* A sign-in never has two sessions. *)
THEOREM RotationReplaces == Spec => []OneSessionPerLogin
<1>1. ChainInv => OneSessionPerLogin
  BY DEF ChainInv
<1>2. QED
  BY <1>1, ChainsHold, PTL

-----------------------------------------------------------------------------
(* Revocations.  Nothing is said once one was saved over another, so a step
   is looked at only where none was before and none is after.              *)

(* What a begun request read is of the present epoch. *)
LEMMA EpochBegins ==
  ASSUME ChainInv, EpochInv, NEW c \in Request, Begins(c)
  PROVE  EpochInv'
<1>1. /\ pc' = [pc EXCEPT ![c] = "saving"] /\ draft' = [draft EXCEPT ![c] = draft'[c]]
      /\ JustRead(draft'[c])
      /\ UNCHANGED <<password, tokenVersion, issued, revoked, raced>>
  BY DEF Begins, doc, history
<1>2. SUFFICES ASSUME ~raced PROVE EpochInv'
  BY <1>1 DEF EpochInv
<1>3. /\ tokenVersion = revoked /\ revoked \in Nat
      /\ \A t \in DOMAIN issued :
           /\ issued[t].epoch = issued[t].tokenVersion /\ issued[t].epoch <= revoked
           /\ issued[t].epoch = revoked => issued[t].secret = password
      /\ \A e \in Request : EpochDraft(e)
  BY <1>2 DEF EpochInv, ChainInv, TypeOK
<1>4. ASSUME NEW e \in Request PROVE EpochDraft(e)'
  <2>1. CASE e = c
    BY <1>1, <1>3, <2>1 DEF EpochDraft, JustRead
  <2>2. CASE e # c
    <3>1. pc'[e] = pc[e] /\ draft'[e] = draft[e]
      BY <1>1, <2>2 DEF ChainInv, TypeOK
    <3>2. QED
      BY <1>1, <1>3, <3>1 DEF EpochDraft
  <2>3. QED
    BY <2>1, <2>2
<1>5. QED
  BY <1>1, <1>3, <1>4 DEF EpochInv

(* A save that revokes opens a new epoch; another one mints at most a token
   of the epoch its draft was read in. *)
LEMMA EpochSave ==
  ASSUME ChainInv, EpochInv, NEW c \in Request, Save(c)
  PROVE  EpochInv'
<1> DEFINE d == draft[c]  revokes == "tokenVersion" \in d.writes  n == Len(issued) + 1
<1>1. /\ pc' = [pc EXCEPT ![c] = "idle"] /\ draft' = [draft EXCEPT ![c] = NoDraft]
      /\ pc[c] = "saving"
      /\ password' = (IF "password" \in d.writes THEN d.password ELSE password)
      /\ tokenVersion' = (IF revokes THEN d.tokenVersion ELSE tokenVersion)
      /\ revoked' = (IF revokes THEN revoked + 1 ELSE revoked)
      /\ raced' = (raced \/ (revokes /\ d.tokenVersion # tokenVersion + 1))
  BY DEF Save, End
<1>2. SUFFICES ASSUME ~raced, revokes => d.tokenVersion = tokenVersion + 1
               PROVE  EpochInv'
  BY <1>1 DEF EpochInv
<1>3. /\ tokenVersion = revoked /\ revoked \in Nat
      /\ \A t \in DOMAIN issued :
           /\ issued[t].epoch = issued[t].tokenVersion /\ issued[t].epoch <= revoked
           /\ issued[t].epoch = revoked => issued[t].secret = password
      /\ \A e \in Request : EpochDraft(e)
  BY <1>2 DEF EpochInv, ChainInv, TypeOK
<1>4. /\ Mints(d) => ~revokes /\ "password" \notin d.writes
      /\ "password" \in d.writes => revokes
      /\ d.op = "refresh" => d.presented \in DOMAIN issued
  BY <1>1 DEF ChainInv, DraftCurrent, Shape
<1>5. /\ DOMAIN issued \subseteq DOMAIN issued'
      /\ \A t \in DOMAIN issued : issued'[t] = issued[t]
      /\ \/ issued' = issued
         \/ /\ Mints(d) /\ DOMAIN issued' = DOMAIN issued \cup {n}
            /\ issued'[n] = NewToken(d)
  BY IssuedGrows
<1>6. /\ d.epoch <= revoked
      /\ d.tokenVersion = (IF revokes THEN d.epoch + 1 ELSE d.epoch)
      /\ d.op = "login" /\ d.epoch = revoked => d.password = password
      /\ d.op = "refresh" => issued[d.presented].epoch = d.epoch
  BY <1>1, <1>3 DEF EpochDraft
<1>7. Mints(d) =>
        /\ NewToken(d).tokenVersion = d.tokenVersion /\ NewToken(d).epoch = d.epoch
        /\ d.op = "login" => NewToken(d).secret = d.password
        /\ d.op = "refresh" => NewToken(d).secret = issued[d.presented].secret
  BY <1>1, NewTokenFacts
<1>8. \A t \in DOMAIN issued : issued[t].epoch \in Nat
  BY TokensTyped DEF ChainInv
<1>9. \A e \in Request : pc[e] = "saving" =>
         /\ draft[e].epoch \in Nat /\ draft[e].epoch <= revoked
         /\ draft[e].op = "refresh" => draft[e].presented \in DOMAIN issued
  BY <1>3 DEF EpochDraft, ChainInv, DraftCurrent, TypeOK, Draft
<1>10. ASSUME NEW e \in Request PROVE EpochDraft(e)'
  <2>1. CASE e = c
    BY <1>1, <2>1 DEF EpochDraft, ChainInv, TypeOK
  <2>2. CASE e # c
    <3>1. pc'[e] = pc[e] /\ draft'[e] = draft[e]
      BY <1>1, <2>2 DEF ChainInv, TypeOK
    <3> HIDE DEF d
    <3>2. revokes => \A r \in Nat : r <= revoked => r <= revoked' /\ r # revoked'
      BY <1>1, <1>3
    <3>3. ~revokes => revoked' = revoked /\ password' = password
      BY <1>1, <1>4
    <3> HIDE DEF revokes
    <3>4. /\ EpochDraft(e)
          /\ pc[e] = "saving" /\ draft[e].op = "refresh" =>
               issued'[draft[e].presented] = issued[draft[e].presented]
      BY <1>3, <1>5, <1>9
    <3>5. CASE revokes
      BY <1>9, <3>1, <3>2, <3>4, <3>5 DEF EpochDraft
    <3>6. CASE ~revokes
      BY <3>1, <3>3, <3>4, <3>6 DEF EpochDraft
    <3>7. QED
      BY <3>5, <3>6
  <2>3. QED
    BY <2>1, <2>2
<1> HIDE DEF d
<1>11. tokenVersion' = revoked'
  BY <1>1, <1>2, <1>3
<1>12. ASSUME NEW t \in DOMAIN issued'
       PROVE  /\ issued'[t].epoch = issued'[t].tokenVersion
              /\ issued'[t].epoch <= revoked'
              /\ issued'[t].epoch = revoked' => issued'[t].secret = password'
  <2>1. CASE t \in DOMAIN issued
    <3>1. issued'[t] = issued[t]
      BY <1>5, <2>1
    <3>2. /\ issued[t].epoch = issued[t].tokenVersion /\ issued[t].epoch <= revoked
          /\ issued[t].epoch = revoked => issued[t].secret = password
          /\ issued[t].epoch \in Nat
      BY <1>3, <1>8, <2>1
    <3>3. \/ revoked' = revoked + 1
          \/ revoked' = revoked /\ password' = password
      BY <1>1, <1>4
    <3>4. QED
      BY <1>3, <3>1, <3>2, <3>3
  <2>2. CASE t \notin DOMAIN issued
    <3>1. t = n /\ Mints(d) /\ issued'[t] = NewToken(d)
      BY <1>5, <2>2
    <3>2. ~revokes /\ revoked' = revoked /\ password' = password
      BY <1>1, <1>4, <3>1
    <3>3. CASE d.op = "login"
      BY <1>6, <1>7, <3>1, <3>2, <3>3
    <3>4. CASE d.op = "refresh"
      BY <1>3, <1>4, <1>6, <1>7, <3>1, <3>2, <3>4
    <3>5. QED
      BY <3>1, <3>3, <3>4 DEF Mints
  <2>3. QED
    BY <2>1, <2>2
<1>13. QED
  BY <1>10, <1>11, <1>12 DEF EpochInv

(* The epoch invariant holds for ever. *)
LEMMA EpochInvStep ==
  ASSUME ChainInv, EpochInv, [Next]_vars
  PROVE  EpochInv'
<1>0. TypeOK
  BY DEF ChainInv
<1>1. ASSUME UNCHANGED <<password, tokenVersion, issued, revoked, raced>>,
             \A e \in Request : pc'[e] = "saving" => pc[e] = "saving" /\ draft'[e] = draft[e]
      PROVE  EpochInv'
  BY <1>1 DEF EpochInv, EpochDraft
<1>2. ASSUME NEW c \in Request, IsAuthenticated(c) PROVE EpochInv'
  BY <1>0, <1>1, <1>2 DEF IsAuthenticated, TypeOK, doc, history
<1>3. ASSUME NEW c \in Request, SaveFails(c) \/ Delete(c) PROVE EpochInv'
  BY <1>0, <1>1, <1>3 DEF SaveFails, Delete, End, TypeOK, doc, history
<1>4. ASSUME Expire \/ UNCHANGED vars PROVE EpochInv'
  BY <1>1, <1>4 DEF Expire, vars, doc, call, history
<1>5. QED
  BY <1>0, <1>2, <1>3, <1>4, EpochBegins, EpochSave, StepKinds

(* Unless a revocation was saved over another, tokenVersion counts them. *)
THEOREM EpochsHold == Spec => []EpochInv
<1>1. Init => EpochInv
  BY DEF Init, EpochInv, EpochDraft
<1>2. ChainInv /\ EpochInv /\ [Next]_vars => EpochInv'
  BY EpochInvStep
<1>3. QED
  BY <1>1, <1>2, ChainsHold, PTL DEF Spec

(* A token that is still accepted was minted after the last revocation. *)
THEOREM RevokedTokensStayDead == Spec => []RevocationIsFinal
<1>1. EpochInv => RevocationIsFinal
  BY DEF EpochInv, RevocationIsFinal
<1>2. QED
  BY <1>1, EpochsHold, PTL

(* A token that is still accepted was earned with the stored password. *)
THEOREM OldPasswordsLoseTheirSessions == Spec => []NewPasswordEndsOldSessions
<1>1. EpochInv => NewPasswordEndsOldSessions
  BY DEF EpochInv, NewPasswordEndsOldSessions
<1>2. QED
  BY <1>1, EpochsHold, PTL

-----------------------------------------------------------------------------
(* The bound on the list.                                                  *)

(* A save that replaces the list leaves it no longer than it was; a push
   makes it longer by one; any other save leaves it alone. *)
LEMMA SaveLengths ==
  ASSUME ChainInv, NEW c \in Request, Save(c)
  PROVE  /\ Cardinality(sessions') \in Nat
         /\ Cardinality(sessions') <= Cardinality(sessions) + 1
         /\ ~Pushes(draft[c]) => Cardinality(sessions') <= Cardinality(sessions)
<1> DEFINE d == draft[c]  n == Len(issued) + 1
<1>1. IsFiniteSet(sessions) /\ Cardinality(sessions) \in Nat
  BY ListFinite DEF ChainInv
<1>2. Left(d) \subseteq sessions
  BY SaveFacts
<1>3. /\ IsFiniteSet(Left(d)) /\ Cardinality(Left(d)) \in Nat
      /\ Cardinality(Left(d)) <= Cardinality(sessions)
      /\ Cardinality(Left(d)) = Cardinality(sessions) => Left(d) = sessions
  BY <1>1, <1>2, FS_Subset, FS_CardinalityType
<1>4. CASE Mints(d)
  <2>1. sessions' = Left(d) \cup {n}
    BY <1>4, SaveFacts
  <2>2. /\ Cardinality(sessions') \in Nat
        /\ Cardinality(sessions') <= Cardinality(Left(d)) + 1
    <3> HIDE DEF d, n
    <3>1. /\ IsFiniteSet(Left(d))
          /\ Cardinality(Left(d) \cup {n}) \in
               {Cardinality(Left(d)), Cardinality(Left(d)) + 1}
      BY <1>3, FS_AddElement
    <3>2. QED
      BY <1>3, <2>1, <3>1
  <2>3. ~Pushes(d) => Left(d) # sessions
    BY <1>4 DEF Pushes, Left, Save, SaveSucceeds, ChainInv, DraftCurrent
  <2> HIDE DEF d
  <2>4. QED
    BY <1>1, <1>3, <2>2, <2>3 DEF d
<1>5. CASE ~Mints(d)
  <2>1. sessions' = Left(d) \/ sessions' = sessions
    BY <1>5, SaveFacts
  <2> HIDE DEF d
  <2>2. QED
    BY <1>1, <1>3, <2>1 DEF d
<1>6. QED
  BY <1>4, <1>5

(* How many sign-ins are going to append. *)
LEMMA PushersFinite ==
  ASSUME NEW S, S \subseteq Request
  PROVE  /\ IsFiniteSet(S) /\ Cardinality(S) \in Nat
         /\ Cardinality(Request) \in Nat /\ Cardinality(S) <= Cardinality(Request)
BY SessionsAssumption, FS_Subset, FS_CardinalityType

(* A step that neither drafts nor saves gives no reason to worry. *)
LEMMA PushInvKept ==
  ASSUME ChainInv, PushInv, sessions' = sessions,
         \A e \in Request : pc'[e] = "saving" => pc[e] = "saving" /\ draft'[e] = draft[e]
  PROVE  PushInv'
<1>1. Pushers' \subseteq Pushers /\ Pushers \subseteq Request
  BY DEF Pushers, Pushes, Mints, Versioned
<1>2. /\ Cardinality(Pushers) \in Nat /\ Cardinality(Pushers') \in Nat
      /\ Cardinality(Pushers') <= Cardinality(Pushers) /\ Cardinality(Request) \in Nat
  BY <1>1, PushersFinite, FS_Subset, FS_CardinalityType
<1>3. Cardinality(sessions) \in Nat
  BY ListFinite DEF ChainInv
<1>4. QED
  BY <1>2, <1>3, SessionsAssumption DEF PushInv

(* A sign-in drafts an append only below the cap. *)
LEMMA PushInvBegins ==
  ASSUME ChainInv, PushInv, NEW c \in Request, Begins(c)
  PROVE  PushInv'
<1>1. /\ draft' = [draft EXCEPT ![c] = draft'[c]] /\ pc' = [pc EXCEPT ![c] = "saving"]
      /\ sessions' = sessions
      /\ Pushes(draft'[c]) => Cardinality(sessions) < MaxSessions
  BY DEF Begins, JustRead, doc
<1>2. Cardinality(sessions) \in Nat
  BY ListFinite DEF ChainInv
<1>3. /\ Cardinality(Pushers) \in Nat /\ Cardinality(Pushers') \in Nat
      /\ Cardinality(Pushers') <= Cardinality(Request) /\ Cardinality(Request) \in Nat
  BY PushersFinite DEF Pushers
<1>4. CASE Pushes(draft'[c])
  BY <1>1, <1>2, <1>3, <1>4, SessionsAssumption DEF PushInv
<1>5. CASE ~Pushes(draft'[c])
  <2>1. \A e \in Request \ {c} : pc'[e] = pc[e] /\ draft'[e] = draft[e]
    BY <1>1 DEF ChainInv, TypeOK
  <2>2. Pushers' \subseteq Pushers /\ Pushers \subseteq Request
    BY <1>5, <2>1 DEF Pushers, Pushes, Mints, Versioned
  <2>3. Cardinality(Pushers') <= Cardinality(Pushers)
    BY <2>2, PushersFinite, FS_Subset
  <2>4. QED
    BY <1>1, <1>2, <1>3, <2>3, SessionsAssumption DEF PushInv
<1>6. QED
  BY <1>4, <1>5

(* An append uses up the place that was kept for it. *)
LEMMA PushInvSave ==
  ASSUME ChainInv, PushInv, NEW c \in Request, Save(c)
  PROVE  PushInv'
<1>1. /\ pc[c] = "saving" /\ pc' = [pc EXCEPT ![c] = "idle"]
      /\ draft' = [draft EXCEPT ![c] = NoDraft]
  BY DEF Save, End
<1>2. /\ Cardinality(sessions) \in Nat /\ Cardinality(sessions') \in Nat
      /\ Cardinality(sessions') <= Cardinality(sessions) + 1
      /\ ~Pushes(draft[c]) => Cardinality(sessions') <= Cardinality(sessions)
  BY ListFinite, SaveLengths DEF ChainInv
<1>3. Pushers' \subseteq Pushers \ {c} /\ Pushers \subseteq Request
  <2>1. pc'[c] # "saving"
    BY <1>1 DEF ChainInv, TypeOK
  <2>2. \A e \in Request \ {c} : pc'[e] = pc[e] /\ draft'[e] = draft[e]
    BY <1>1 DEF ChainInv, TypeOK
  <2>3. QED
    BY <2>1, <2>2 DEF Pushers, Pushes, Mints, Versioned
<1>4. /\ IsFiniteSet(Pushers) /\ Cardinality(Pushers) \in Nat
      /\ Cardinality(Pushers') \in Nat /\ Cardinality(Request) \in Nat
  BY <1>3, PushersFinite
<1>5. Cardinality(Pushers') <= Cardinality(Pushers \ {c})
  BY <1>3, <1>4, FS_Subset, FS_RemoveElement
<1>6. Cardinality(Pushers \ {c}) =
        IF c \in Pushers THEN Cardinality(Pushers) - 1 ELSE Cardinality(Pushers)
  BY <1>4, FS_RemoveElement
<1>7. c \in Pushers <=> Pushes(draft[c])
  BY <1>1 DEF Pushers
<1>8. QED
  BY <1>2, <1>4, <1>5, <1>6, <1>7, SessionsAssumption DEF PushInv

(* Sessions stored and sessions promised stay under the bound together. *)
LEMMA PushInvStep ==
  ASSUME ChainInv, PushInv, [Next]_vars
  PROVE  PushInv'
<1>0. TypeOK
  BY DEF ChainInv
<1>1. ASSUME NEW c \in Request, IsAuthenticated(c) PROVE PushInv'
  BY <1>0, <1>1, PushInvKept DEF IsAuthenticated, TypeOK, doc
<1>2. ASSUME NEW c \in Request, SaveFails(c) \/ Delete(c) PROVE PushInv'
  BY <1>0, <1>2, PushInvKept DEF SaveFails, Delete, End, TypeOK, doc
<1>3. ASSUME Expire \/ UNCHANGED vars PROVE PushInv'
  BY <1>3, PushInvKept DEF Expire, vars, doc, call
<1>4. QED
  BY <1>0, <1>1, <1>2, <1>3, PushInvBegins, PushInvSave, StepKinds

LEMMA PushInvInit ==
  ASSUME Init
  PROVE  PushInv
<1>1. Pushers = {} /\ sessions = {1}
  BY DEF Init, Pushers
<1>2. Cardinality(Pushers) = 0 /\ Cardinality(sessions) = 1
  BY <1>1, FS_EmptySet, FS_Singleton
<1>3. Cardinality(Request) \in Nat \ {0} /\ MaxSessions \in Nat \ {0}
  BY SessionsAssumption, FS_CardinalityType, FS_EmptySet
<1>4. QED
  BY <1>2, <1>3 DEF PushInv

(* However many requests sign in at once, the list exceeds MAX_SESSIONS by
   less than there are requests. *)
THEOREM ListStaysBounded == Spec => []ListBounded
<1>1. Init => PushInv
  BY PushInvInit
<1>2. ChainInv /\ PushInv /\ [Next]_vars => PushInv'
  BY PushInvStep
<1>3. ChainInv /\ PushInv => ListBounded
  <2> SUFFICES ASSUME ChainInv, PushInv PROVE ListBounded
    OBVIOUS
  <2>1. Cardinality(sessions) \in Nat
    BY ListFinite DEF ChainInv
  <2>2. Cardinality(Pushers) \in Nat /\ Cardinality(Request) \in Nat
    BY PushersFinite DEF Pushers
  <2>3. QED
    BY <2>1, <2>2, SessionsAssumption DEF PushInv, ListBounded
<1>4. QED
  BY <1>1, <1>2, <1>3, ChainsHold, PTL DEF Spec

-----------------------------------------------------------------------------
(* No session is lost.                                                     *)

(* Why a token of the present tokenVersion may have no session. *)
Accounted(t) ==
  \/ t \in sessions \/ t <= expired \/ issued[t].tokenVersion # tokenVersion
  \/ \E u \in DOMAIN issued : issued[u].parent = t
  \/ issued[t].login \in signedOut \/ t \in evicted

(* A step that leaves the list alone and advances no tokenVersion loses
   nothing. *)
LEMMA AccountedKept ==
  ASSUME NEW t \in DOMAIN issued, Accounted(t), TypeOK,
         UNCHANGED <<sessions, tokenVersion, issued, signedOut, evicted>>,
         expired' = expired \/ expired' = expired + 1
  PROVE  Accounted(t)'
<1>1. expired \in Nat /\ t \in Nat
  BY DEF TypeOK
<1>2. t <= expired => t <= expired'
  BY <1>1
<1>3. QED
  BY <1>2 DEF Accounted

(* What a save takes from the list without revoking is signed out, exchanged
   or evicted. *)
LEMMA SaveTakes ==
  ASSUME ChainInv, NEW c \in Request, Save(c), NEW t \in sessions \ sessions'
  PROVE  \/ "tokenVersion" \in draft[c].writes
         \/ \E u \in DOMAIN issued' : issued'[u].parent = t
         \/ issued[t].login \in signedOut'
         \/ t \in evicted'
<1> DEFINE d == draft[c]
<1>1. /\ pc[c] = "saving" /\ SaveSucceeds(d)
      /\ evicted' = IF Mints(d) /\ Versioned(d)
                    THEN evicted \cup (sessions \ (d.sessions \cup {d.presented}))
                    ELSE evicted
  BY DEF Save
<1>2. /\ Versioned(d) => Mints(d) \/ d.op = "logout" \/ "tokenVersion" \in d.writes
      /\ d.op = "login" => d.presented = 0
      /\ d.op \in {"refresh", "logout"} => Versioned(d)
      /\ d.version = version /\ d.op = "logout" =>
           sessions \ {d.presented} \subseteq d.sessions
  BY <1>1 DEF ChainInv, DraftCurrent, Shape
<1>3. Versioned(d) /\ t \notin d.sessions
  BY SaveFacts DEF Left
<1>4. d.version = version
  BY <1>1, <1>3 DEF SaveSucceeds
<1>5. CASE d.op = "logout"
  BY <1>2, <1>3, <1>4, <1>5, SaveFacts
<1>6. CASE Mints(d)
  <2>1. CASE t = d.presented
    <3>1. d.op = "refresh"
      BY <1>2, <1>6, <2>1, TokensTyped DEF Mints, ChainInv, TypeOK
    <3>2. NewToken(d).parent = t
      BY <1>1, <1>6, <2>1, <3>1, NewTokenFacts
    <3>3. /\ issued' = Append(issued, NewToken(d)) /\ issued \in Seq(Token)
          /\ NewToken(d) \in Token
      BY <1>1, <1>6, SaveFacts, NewTokenFacts DEF ChainInv, TypeOK, Mints
    <3>4. Len(issued) + 1 \in DOMAIN issued' /\ issued'[Len(issued) + 1] = NewToken(d)
      BY <3>3
    <3>5. QED
      BY <3>2, <3>4
  <2>2. CASE t # d.presented
    BY <1>1, <1>3, <1>6, <2>2
  <2>3. QED
    BY <2>1, <2>2
<1>7. QED
  BY <1>2, <1>3, <1>5, <1>6

LEMMA AccountedSave ==
  ASSUME ChainInv, EpochInv, NoSessionLost, NEW c \in Request, Save(c)
  PROVE  NoSessionLost'
<1> DEFINE d == draft[c]  revokes == "tokenVersion" \in d.writes  n == Len(issued) + 1
<1>1. /\ tokenVersion' = (IF revokes THEN d.tokenVersion ELSE tokenVersion)
      /\ raced' = (raced \/ (revokes /\ d.tokenVersion # tokenVersion + 1))
      /\ expired' = expired
      /\ evicted \subseteq evicted'
  BY DEF Save, End, clock
<1>2. SUFFICES ASSUME ~raced, revokes => d.tokenVersion = tokenVersion + 1,
                      NEW t \in DOMAIN issued'
               PROVE  Accounted(t)'
  BY <1>1 DEF NoSessionLost, Accounted
<1>3. /\ tokenVersion \in Nat
      /\ \A u \in DOMAIN issued :
           issued[u].tokenVersion \in Nat /\ issued[u].tokenVersion <= tokenVersion
  BY <1>2, TokensTyped DEF EpochInv, ChainInv, TypeOK
<1>4. /\ DOMAIN issued \subseteq DOMAIN issued'
      /\ \A u \in DOMAIN issued : issued'[u] = issued[u]
      /\ t \in DOMAIN issued \/ (t = n /\ Mints(d))
  <2>1. /\ DOMAIN issued \subseteq DOMAIN issued'
        /\ \A u \in DOMAIN issued : issued'[u] = issued[u]
        /\ \/ issued' = issued
           \/ Mints(d) /\ DOMAIN issued' = DOMAIN issued \cup {n}
    BY IssuedGrows
  <2> HIDE DEF d, n
  <2>2. t \in DOMAIN issued \/ (t = n /\ Mints(d))
    <3>1. CASE issued' = issued
      BY <3>1
    <3>2. CASE issued' # issued
      BY <2>1, <3>2
    <3>3. QED
      BY <3>1, <3>2
  <2>3. QED
    BY <2>1, <2>2
<1>5. signedOut \subseteq signedOut'
  BY SaveFacts
<1>6. CASE t \notin DOMAIN issued
  <2>1. t \in sessions'
    BY <1>4, <1>6, SaveFacts
  <2>2. QED
    BY <2>1 DEF Accounted
<1>7. CASE t \in DOMAIN issued
  <2>1. Accounted(t) /\ issued'[t] = issued[t]
    BY <1>2, <1>4, <1>7 DEF NoSessionLost, Accounted
  <2>2. CASE revokes
    <3>1. issued'[t].tokenVersion # tokenVersion'
      BY <1>1, <1>2, <1>3, <1>7, <2>1, <2>2
    <3>2. QED
      BY <3>1 DEF Accounted
  <2>3. CASE ~revokes
    <3>1. tokenVersion' = tokenVersion
      BY <1>1, <2>3
    <3>2. CASE t \in sessions \ sessions'
      BY <2>1, <2>3, <3>2, SaveTakes DEF Accounted
    <3>3. CASE t \notin sessions \ sessions'
      BY <1>1, <1>4, <1>5, <2>1, <3>1, <3>3 DEF Accounted
    <3>4. QED
      BY <3>2, <3>3
  <2>4. QED
    BY <2>2, <2>3
<1>8. QED
  BY <1>6, <1>7

LEMMA AccountedStep ==
  ASSUME ChainInv, EpochInv, NoSessionLost, [Next]_vars
  PROVE  NoSessionLost'
<1>0. TypeOK
  BY DEF ChainInv
<1>1. ASSUME UNCHANGED <<sessions, tokenVersion, issued, signedOut, evicted, raced>>,
             expired' = expired \/ expired' = expired + 1
      PROVE  NoSessionLost'
  <2>1. ASSUME NEW t \in DOMAIN issued, Accounted(t) PROVE Accounted(t)'
    BY <1>0, <1>1, <2>1, AccountedKept
  <2>2. QED
    BY <1>1, <2>1 DEF NoSessionLost, Accounted
<1>2. ASSUME NEW c \in Request, Begins(c) \/ IsAuthenticated(c) PROVE NoSessionLost'
  BY <1>1, <1>2 DEF Begins, IsAuthenticated, doc, clock, history
<1>3. ASSUME NEW c \in Request, SaveFails(c) \/ Delete(c) PROVE NoSessionLost'
  BY <1>1, <1>3 DEF SaveFails, Delete, End, doc, clock, history
<1>4. ASSUME Expire \/ UNCHANGED vars PROVE NoSessionLost'
  BY <1>1, <1>4 DEF Expire, vars, doc, clock, history
<1>5. QED
  BY <1>0, <1>2, <1>3, <1>4, AccountedSave, StepKinds

(* Unless revocations raced, a token in its lifetime has its session stored,
   or it was exchanged, signed out, evicted or revoked. *)
THEOREM SessionsAreKept == Spec => []NoSessionLost
<1>1. Init => NoSessionLost
  BY DEF Init, NoSessionLost
<1>2. ChainInv /\ EpochInv /\ NoSessionLost /\ [Next]_vars => NoSessionLost'
  BY AccountedStep
<1>3. QED
  BY <1>1, <1>2, ChainsHold, EpochsHold, PTL DEF Spec

-----------------------------------------------------------------------------
(* A reset link works once.                                                *)

(* A request that has a new link or a stored one. *)
LEMMA LinkInvBegins ==
  ASSUME ChainInv, LinkInv, NEW c \in Request, Begins(c)
  PROVE  LinkInv'
<1> DEFINE d == draft'[c]
<1>1. /\ pc' = [pc EXCEPT ![c] = "saving"] /\ draft' = [draft EXCEPT ![c] = d]
      /\ links' = (IF d.op = "forgotPassword" THEN links + 1 ELSE links)
      /\ UNCHANGED <<link, spent, raced, revoked>>
      /\ d.op = "resetPassword" => d.presented = link /\ link # 0
      /\ d.op = "forgotPassword" => d.link = links + 1
  BY DEF Begins, JustRead, doc, history
<1> HIDE DEF d
<1>2. /\ draft'[c] = d /\ pc'[c] = "saving"
      /\ \A e \in Request \ {c} : pc'[e] = pc[e] /\ draft'[e] = draft[e]
  BY <1>1 DEF ChainInv, TypeOK
<1>3. /\ links \in Nat /\ link \in 0..links
      /\ \A i \in DOMAIN spent : spent[i] \in 1..links /\ spent[i] # link
  BY DEF LinkInv
<1>4. links' \in Nat /\ links <= links'
  BY <1>1, <1>3
<1>5. /\ link' \in 0..links'
      /\ \A i \in DOMAIN spent' : spent'[i] \in 1..links' /\ spent'[i] # link'
      /\ ResetLinkWorksOnce'
  BY <1>1, <1>3, <1>4 DEF LinkInv, ResetLinkWorksOnce
<1>6. \A e \in Request \ {c} : /\ Pending(e)' <=> Pending(e)
                               /\ Resetting(e)' <=> Resetting(e)
  BY <1>2 DEF Pending, Resetting
<1>7. /\ Pending(c)' <=> d.op = "forgotPassword"
      /\ Resetting(c)' <=> d.op = "resetPassword"
  BY <1>2 DEF Pending, Resetting
<1>8. \A e \in Request : /\ Pending(e) => draft[e].link \in 1..links
                         /\ Resetting(e) => draft[e].presented \in 1..links
  BY DEF LinkInv
<1>9. ASSUME NEW e \in Request, Resetting(e)'
      PROVE  LET p == draft'[e].presented IN
             /\ p \in 1..links'
             /\ ~raced' /\ draft'[e].epoch = revoked' => \A i \in DOMAIN spent' : spent'[i] # p
  <2>1. CASE e = c
    BY <1>1, <1>2, <1>3, <1>4, <1>7, <1>9, <2>1
  <2>2. CASE e # c
    BY <1>1, <1>2, <1>3, <1>4, <1>6, <1>9, <2>2 DEF LinkInv, Pending, Resetting
  <2>3. QED
    BY <2>1, <2>2
<1>10. ASSUME NEW e \in Request, Pending(e)'
       PROVE  LET n == draft'[e].link IN
              /\ n \in 1..links' /\ n # link'
              /\ \A i \in DOMAIN spent' : spent'[i] # n
              /\ \A f \in Request : Pending(f)' /\ draft'[f].link = n => f = e
              /\ \A f \in Request : Resetting(f)' => draft'[f].presented # n
  <2>1. CASE e = c
    <3>1. draft'[e].link = links + 1 /\ links' = links + 1
      BY <1>1, <1>2, <1>7, <1>10, <2>1
    <3>a. \A f \in Request : /\ Pending(f) => draft[f].link # links + 1
                             /\ Resetting(f) => draft[f].presented # links + 1
      BY <1>3, <1>8
    <3>2. \A f \in Request \ {c} : Pending(f)' => draft'[f].link # links + 1
      BY <1>2, <1>6, <3>a
    <3>3. \A f \in Request \ {c} : Resetting(f)' => draft'[f].presented # links + 1
      BY <1>2, <1>6, <3>a
    <3>4. ~Resetting(c)'
      BY <1>7, <1>10, <2>1
    <3>5. QED
      BY <1>1, <1>3, <2>1, <3>1, <3>2, <3>3, <3>4
  <2>2. CASE e # c
    <3>1. /\ Pending(e) /\ draft'[e] = draft[e]
          /\ draft[e].link \in 1..links /\ draft[e].link # link
          /\ \A i \in DOMAIN spent : spent[i] # draft[e].link
          /\ \A f \in Request : Pending(f) /\ draft[f].link = draft[e].link => f = e
          /\ \A f \in Request : Resetting(f) => draft[f].presented # draft[e].link
      BY <1>2, <1>6, <1>10, <2>2 DEF LinkInv, Pending, Resetting
    <3>2. \A f \in Request : Pending(f)' /\ draft'[f].link = draft[e].link => f = e
      BY <1>1, <1>2, <1>3, <1>6, <1>7, <3>1 DEF Pending, Resetting
    <3>3. \A f \in Request : Resetting(f)' => draft'[f].presented # draft[e].link
      BY <1>1, <1>2, <1>6, <1>7, <3>1 DEF Pending, Resetting
    <3>4. QED
      BY <1>1, <1>3, <1>4, <3>1, <3>2, <3>3
  <2>3. QED
    BY <2>1, <2>2
<1>11. QED
  BY <1>4, <1>5, <1>9, <1>10 DEF LinkInv

(* Unless a revocation races, the present epoch after a save is the present
   epoch before it, and only a draft of that epoch revokes. *)
LEMMA SaveEpochs ==
  ASSUME ChainInv, EpochInv, NEW c \in Request, Save(c), ~raced'
  PROVE  /\ ~raced
         /\ "tokenVersion" \in draft[c].writes => draft[c].epoch = revoked
         /\ \A e \in Request : pc[e] = "saving" /\ draft[e].epoch = revoked' =>
              draft[e].epoch = revoked /\ "tokenVersion" \notin draft[c].writes
<1> DEFINE d == draft[c]  revokes == "tokenVersion" \in d.writes
<1>1. /\ pc[c] = "saving"
      /\ revoked' = (IF revokes THEN revoked + 1 ELSE revoked)
      /\ raced' = (raced \/ (revokes /\ d.tokenVersion # tokenVersion + 1))
  BY DEF Save
<1>2. ~raced /\ (revokes => d.tokenVersion = tokenVersion + 1)
  BY <1>1
<1>3. /\ tokenVersion = revoked /\ revoked \in Nat
      /\ \A e \in Request : pc[e] = "saving" =>
           draft[e].epoch \in Nat /\ draft[e].epoch <= revoked
  BY <1>2 DEF EpochInv, EpochDraft, ChainInv, TypeOK, Draft
<1>4. revokes => d.epoch = revoked
  <2>1. d.tokenVersion = (IF revokes THEN d.epoch + 1 ELSE d.epoch) /\ d.epoch \in Nat
    BY <1>1, <1>2, <1>3 DEF EpochInv, EpochDraft
  <2> HIDE DEF d
  <2>2. QED
    BY <1>2, <1>3, <2>1
<1> HIDE DEF d, revokes
<1>5. \A e \in Request : pc[e] = "saving" /\ draft[e].epoch = revoked' =>
        draft[e].epoch = revoked /\ ~revokes
  BY <1>1, <1>3
<1>6. QED
  BY <1>2, <1>4, <1>5 DEF d, revokes

LEMMA LinkInvSave ==
  ASSUME ChainInv, EpochInv, LinkInv, NEW c \in Request, Save(c)
  PROVE  LinkInv'
<1> DEFINE d == draft[c]
<1>1. /\ pc[c] = "saving" /\ pc' = [pc EXCEPT ![c] = "idle"]
      /\ draft' = [draft EXCEPT ![c] = NoDraft]
      /\ link' = (IF "link" \in d.writes THEN d.link ELSE link) /\ links' = links
      /\ spent' = (IF d.op = "resetPassword" THEN Append(spent, d.presented) ELSE spent)
  BY DEF Save, End, supply
<1>2. /\ d.op = "resetPassword" => {"tokenVersion", "link"} \subseteq d.writes
      /\ "link" \in d.writes => d.op = "forgotPassword" \/ d.link = 0
      /\ d.presented \in Nat /\ spent \in Seq(Nat)
  BY <1>1 DEF ChainInv, DraftCurrent, Shape, TypeOK, Draft
<1> HIDE DEF d
<1>3. /\ links \in Nat /\ link \in 0..links
      /\ \A i \in DOMAIN spent : spent[i] \in 1..links /\ spent[i] # link
      /\ d.op = "forgotPassword" => /\ d.link \in 1..links
                                    /\ \A i \in DOMAIN spent : spent[i] # d.link
      /\ d.op = "resetPassword" => d.presented \in 1..links
  BY <1>1 DEF LinkInv, Pending, Resetting, d
<1>4. /\ link' \in 0..links /\ (d.op # "forgotPassword" => link' \in {0, link})
      /\ link' \in {0, link, d.link}
      /\ d.op = "resetPassword" => link' = 0
  BY <1>1, <1>2, <1>3
<1>5. /\ d.op # "resetPassword" => spent' = spent
      /\ DOMAIN spent = 1..Len(spent) /\ Len(spent) \in Nat
      /\ d.op = "resetPassword" =>
           /\ DOMAIN spent' = 1..(Len(spent) + 1)
           /\ spent'[Len(spent) + 1] = d.presented
           /\ \A i \in DOMAIN spent : spent'[i] = spent[i]
  BY <1>1, <1>2
<1>6. \A i \in DOMAIN spent' : \/ i \in DOMAIN spent /\ spent'[i] = spent[i]
                               \/ d.op = "resetPassword" /\ spent'[i] = d.presented
  BY <1>5
<1>7. ASSUME NEW i \in DOMAIN spent'
      PROVE  spent'[i] \in 1..links /\ spent'[i] # link'
  <2>1. CASE i \in DOMAIN spent /\ spent'[i] = spent[i]
    BY <1>3, <1>4, <2>1
  <2>2. CASE d.op = "resetPassword" /\ spent'[i] = d.presented
    BY <1>3, <1>4, <2>2
  <2>3. QED
    BY <1>6, <2>1, <2>2
<1>8. \A e \in Request : /\ Pending(e)' => Pending(e) /\ draft'[e] = draft[e] /\ e # c
                         /\ Resetting(e)' => Resetting(e) /\ draft'[e] = draft[e] /\ e # c
  BY <1>1 DEF Pending, Resetting, ChainInv, TypeOK
<1>9. \A e \in Request : Pending(e) =>
        LET n == draft[e].link IN
        /\ n \in 1..links /\ n # link
        /\ \A i \in DOMAIN spent : spent[i] # n
        /\ d.op = "forgotPassword" /\ e # c => d.link # n
        /\ d.op = "resetPassword" => d.presented # n
        /\ \A f \in Request : Pending(f) /\ draft[f].link = n => f = e
        /\ \A f \in Request : Resetting(f) => draft[f].presented # n
  BY <1>1 DEF LinkInv, Pending, Resetting, d
<1>10. ASSUME NEW e \in Request, Pending(e)'
       PROVE  LET n == draft'[e].link IN
              /\ n \in 1..links' /\ n # link'
              /\ \A i \in DOMAIN spent' : spent'[i] # n
              /\ \A f \in Request : Pending(f)' /\ draft'[f].link = n => f = e
              /\ \A f \in Request : Resetting(f)' => draft'[f].presented # n
  <2>1. Pending(e) /\ draft'[e] = draft[e] /\ e # c
    BY <1>8, <1>10
  <2>a. /\ draft[e].link \in 1..links /\ draft[e].link # link
        /\ \A i \in DOMAIN spent : spent[i] # draft[e].link
        /\ d.op = "forgotPassword" => d.link # draft[e].link
        /\ d.op = "resetPassword" => d.presented # draft[e].link
    BY <1>9, <2>1
  <2>2. draft[e].link # link' /\ \A i \in DOMAIN spent' : spent'[i] # draft[e].link
    BY <1>3, <1>4, <1>6, <2>a
  <2>3. /\ \A f \in Request : Pending(f)' /\ draft'[f].link = draft[e].link => f = e
        /\ \A f \in Request : Resetting(f)' => draft'[f].presented # draft[e].link
    BY <1>8, <1>9, <2>1 DEF Pending, Resetting
  <2>4. QED
    BY <1>1, <1>9, <2>1, <2>2, <2>3
<1>11. ASSUME NEW e \in Request, Resetting(e)'
       PROVE  LET p == draft'[e].presented IN
              /\ p \in 1..links'
              /\ ~raced' /\ draft'[e].epoch = revoked' =>
                   \A i \in DOMAIN spent' : spent'[i] # p
  <2>1. Resetting(e) /\ draft'[e] = draft[e] /\ pc[e] = "saving"
    BY <1>8, <1>11 DEF Resetting
  <2>2. /\ draft[e].presented \in 1..links
        /\ ~raced /\ draft[e].epoch = revoked =>
             \A i \in DOMAIN spent : spent[i] # draft[e].presented
    BY <2>1 DEF LinkInv
  <2>3. ~raced' /\ draft[e].epoch = revoked' =>
          ~raced /\ draft[e].epoch = revoked /\ d.op # "resetPassword"
    BY <1>2, <2>1, SaveEpochs DEF d
  <2>4. QED
    BY <1>1, <1>5, <2>1, <2>2, <2>3
<1>12. ResetLinkWorksOnce'
  <2>1. SUFFICES ASSUME ~raced' PROVE ResetLinkWorksOnce'
    BY DEF ResetLinkWorksOnce
  <2>2. \A i, j \in DOMAIN spent : spent[i] = spent[j] => i = j
    BY <2>1, SaveEpochs DEF LinkInv, ResetLinkWorksOnce
  <2>3. CASE d.op = "resetPassword"
    <3>1. d.epoch = revoked /\ ~raced
      BY <1>2, <2>1, <2>3, SaveEpochs DEF d
    <3>2. \A i \in DOMAIN spent : spent[i] # d.presented
      BY <1>1, <2>3, <3>1 DEF LinkInv, Resetting, d
    <3>3. QED
      BY <1>5, <2>2, <2>3, <3>2 DEF ResetLinkWorksOnce
  <2>4. CASE d.op # "resetPassword"
    BY <1>5, <2>2, <2>4 DEF ResetLinkWorksOnce
  <2>5. QED
    BY <2>3, <2>4
<1>13. links' \in Nat /\ link' \in 0..links'
  BY <1>1, <1>3, <1>4
<1>14. \A i \in DOMAIN spent' : spent'[i] \in 1..links' /\ spent'[i] # link'
  BY <1>1, <1>7
<1>15. QED
  BY <1>10, <1>11, <1>12, <1>13, <1>14 DEF LinkInv

LEMMA LinkInvStep ==
  ASSUME ChainInv, EpochInv, LinkInv, [Next]_vars
  PROVE  LinkInv'
<1>0. TypeOK
  BY DEF ChainInv
<1>1. ASSUME UNCHANGED <<link, links, spent, raced, revoked>>,
             \A e \in Request : pc'[e] = "saving" => pc[e] = "saving" /\ draft'[e] = draft[e]
      PROVE  LinkInv'
  BY <1>1 DEF LinkInv, Pending, Resetting, ResetLinkWorksOnce
<1>2. ASSUME NEW c \in Request, IsAuthenticated(c) PROVE LinkInv'
  BY <1>0, <1>1, <1>2 DEF IsAuthenticated, TypeOK, doc, history
<1>3. ASSUME NEW c \in Request, SaveFails(c) \/ Delete(c) PROVE LinkInv'
  BY <1>0, <1>1, <1>3 DEF SaveFails, Delete, End, TypeOK, doc, supply, history
<1>4. ASSUME Expire \/ UNCHANGED vars PROVE LinkInv'
  BY <1>1, <1>4 DEF Expire, vars, doc, call, supply, history
<1>5. QED
  BY <1>0, <1>2, <1>3, <1>4, LinkInvBegins, LinkInvSave, StepKinds

(* A reset link sets a password at most once, unless revocations raced. *)
THEOREM LinksWorkOnce == Spec => []ResetLinkWorksOnce
<1>1. Init => LinkInv
  BY DEF Init, LinkInv, Pending, Resetting, ResetLinkWorksOnce
<1>2. ChainInv /\ EpochInv /\ LinkInv /\ [Next]_vars => LinkInv'
  BY LinkInvStep
<1>3. LinkInv => ResetLinkWorksOnce
  BY DEF LinkInv
<1>4. QED
  BY <1>1, <1>2, <1>3, ChainsHold, EpochsHold, PTL DEF Spec


-------------------------------------------------------------------------------
(* Registration. *)
Stage == {"idle", "upserting", "mailing", "saving", "dropping", "checking",
          "rotating", "handing", "creating", "clearing", "claiming"}

(* What a request knows at each step. *)
Knows(v) ==
  /\ work[v].token <= tokens
  /\ at[v] \in {"mailing", "handing"} => work[v].token # 0
  /\ at[v] \in {"saving", "checking", "rotating"} => work[v].read.id # 0
  /\ at[v] \in {"clearing", "claiming"} => work[v].user \in 1..made
  /\ at[v] = "checking" /\ work[v].secret = 0 => work[v].read.secret = 0
  /\ at[v] = "rotating" => work[v].read.secret = 0
  /\ at[v] = "handing" /\ ~overlaid /\ row # NoRow /\ row.token = work[v].token
       => row.verified /\ row.secret = 0

RegistrationInv ==
  /\ RegistrationTypeOK
  /\ row.token <= tokens
  /\ \E n : users \subseteq {n}
  /\ \A n \in 1..made : owed[n] \subseteq DOMAIN owner
  /\ PastOrdersAreClaimed
  /\ SignupCanGoOn
  /\ \A v \in Visitor : Knows(v)

-----------------------------------------------------------------------------
(* Types. *)

LEMMA GoesFacts ==
  ASSUME RegistrationTypeOK, NEW v \in Visitor, NEW next \in Stage, NEW w \in Work,
         Goes(v, next, w)
  PROVE  /\ at' \in [Visitor -> Stage] /\ work' \in [Visitor -> Work]
         /\ at'[v] = next /\ work'[v] = IF next = "idle" THEN NoWork ELSE w
         /\ \A u \in Visitor : u # v => at'[u] = at[u] /\ work'[u] = work[u]
         /\ visits' = visits
<1>1. NoWork \in Work
  BY DEF NoWork, Work, NoRow, Row
<1> QED BY <1>1 DEF Goes, RegistrationTypeOK, Stage

LEMMA ArrivesFacts ==
  ASSUME RegistrationTypeOK, NEW v \in Visitor, NEW next \in Stage,
         NEW op \in {"register", "invite", "resend", "verify", "complete", "social",
                     "createUser"},
         NEW w \in Work, Arrives(v, op, next, w)
  PROVE  /\ at' \in [Visitor -> Stage] /\ work' \in [Visitor -> Work]
         /\ at[v] = "idle" /\ at'[v] = next /\ work'[v] = [w EXCEPT !.op = op]
         /\ \A u \in Visitor : u # v => at'[u] = at[u] /\ work'[u] = work[u]
         /\ visits' \in 0..MaxVisits
         /\ UNCHANGED <<database, counters, delivery, claims, overlaid>>
<1>1. [w EXCEPT !.op = op] \in Work
  BY DEF Work
<1>2. visits' \in 0..MaxVisits
  BY RegistrationAssumption DEF Arrives, RegistrationTypeOK
<1> QED BY <1>1, <1>2 DEF Arrives, RegistrationTypeOK, Stage

(* Every request that arrives: what it brings. *)
Brings(v, next, w) ==
  /\ at[v] = "idle" /\ at'[v] = next /\ work'[v] = w
  /\ next \in {"upserting", "saving", "dropping", "checking", "creating"}
  /\ w \in Work /\ w.token = 0
  /\ next = "checking" /\ w.secret = 0 => w.read.secret = 0
  /\ next \in {"saving", "checking"} => w.read.id # 0
  /\ at' \in [Visitor -> Stage] /\ work' \in [Visitor -> Work]
  /\ \A u \in Visitor : u # v => at'[u] = at[u] /\ work'[u] = work[u]
  /\ visits' \in 0..MaxVisits
  /\ UNCHANGED <<database, counters, delivery, claims, overlaid>>

Comes(v) ==
  \/ Register(v) \/ InviteAccountFromCheckout(v) \/ ResendVerification(v)
  \/ \E t \in 1..tokens : VerifyEmail(v, t) \/ CompleteRegistration(v, t)
  \/ SocialLogin(v) \/ CreateUser(v)

LEMMA ArrivalsBring ==
  ASSUME RegistrationTypeOK, NEW v \in Visitor, Comes(v)
  PROVE  \E next, w : Brings(v, next, w)
<1>1. NoWork \in Work /\ row \in Row /\ visits + 1 \in Nat
  BY RegistrationAssumption DEF NoWork, Work, NoRow, Row, RegistrationTypeOK
<1>2. ASSUME NEW read \in Row, NEW secret \in Nat
      PROVE  LET w == [NoWork EXCEPT !.read = read, !.secret = secret] IN
             w \in Work /\ w.token = 0 /\ w.secret = secret /\ w.read = read
  BY <1>1 DEF NoWork, Work
<1>3. /\ \A secret \in Nat : LET w == [NoWork EXCEPT !.secret = secret] IN
                             w \in Work /\ w.token = 0
      /\ NoWork.token = 0
      /\ LET w == [NoWork EXCEPT !.read = row] IN
         w \in Work /\ w.token = 0 /\ w.read = row
      /\ row # NoRow => row.id # 0
  BY <1>1 DEF NoWork, Work, RegistrationTypeOK
<1>4. ASSUME NEW op \in {"register", "invite", "resend", "verify", "complete", "social",
                         "createUser"},
             NEW next \in {"upserting", "saving", "dropping", "checking", "creating"},
             NEW w \in Work, w.token = 0,
             next = "checking" /\ w.secret = 0 => w.read.secret = 0,
             next \in {"saving", "checking"} => w.read.id # 0,
             Arrives(v, op, next, w)
      PROVE  \E n, x : Brings(v, n, x)
  <2> DEFINE x == [w EXCEPT !.op = op]
  <2>1. x \in Work /\ x.token = w.token /\ x.secret = w.secret /\ x.read = w.read
    BY DEF Work
  <2>2. next \in Stage
    BY DEF Stage
  <2>3. Brings(v, next, x)
    BY <1>4, <2>1, <2>2, ArrivesFacts DEF Brings
  <2> QED BY <2>3
<1>5. CASE Register(v)
  BY <1>1, <1>3, <1>4, <1>5 DEF Register, NewSecret
<1>6. CASE InviteAccountFromCheckout(v)
  BY <1>1, <1>3, <1>4, <1>6 DEF InviteAccountFromCheckout
<1>7. CASE ResendVerification(v)
  BY <1>1, <1>3, <1>4, <1>7 DEF ResendVerification
<1>8. ASSUME NEW t \in 1..tokens, VerifyEmail(v, t)
      PROVE  \E next, w : Brings(v, next, w)
  <2> DEFINE w == [NoWork EXCEPT !.read = row, !.secret = row.secret]
  <2>1. row.secret \in Nat
    BY <1>1 DEF Row
  <2>2. w \in Work /\ w.token = 0 /\ w.secret = row.secret /\ w.read = row
    BY <1>1, <1>2, <2>1
  <2>3. Arrives(v, "verify", AfterLookup, w) /\ AfterLookup \in {"dropping", "checking"}
    BY <1>8 DEF VerifyEmail, AfterLookup
  <2>4. row.id # 0
    BY <1>3, <1>8 DEF VerifyEmail, Presented
  <2> HIDE DEF w
  <2> QED BY <1>4, <2>2, <2>3, <2>4
<1>9. ASSUME NEW t \in 1..tokens, CompleteRegistration(v, t)
      PROVE  \E next, w : Brings(v, next, w)
  <2> DEFINE w == [NoWork EXCEPT !.read = row, !.secret = visits + 1]
  <2>1. w \in Work /\ w.token = 0 /\ w.secret = visits + 1 /\ w.read = row
    BY <1>1, <1>2
  <2>2. Arrives(v, "complete", AfterLookup, w) /\ AfterLookup \in {"dropping", "checking"}
    BY <1>9 DEF CompleteRegistration, AfterLookup, NewSecret
  <2>3. w.secret # 0
    BY <2>1 DEF RegistrationTypeOK
  <2>4. row.id # 0
    BY <1>3, <1>9 DEF CompleteRegistration, Presented
  <2> HIDE DEF w
  <2> QED BY <1>4, <2>1, <2>2, <2>3, <2>4
<1>10. CASE SocialLogin(v)
  BY <1>1, <1>3, <1>4, <1>10 DEF SocialLogin
<1>11. CASE CreateUser(v)
  BY <1>1, <1>3, <1>4, <1>11 DEF CreateUser, NewSecret
<1> QED BY <1>5, <1>6, <1>7, <1>8, <1>9, <1>10, <1>11 DEF Comes

-----------------------------------------------------------------------------
(* What steps do to the row and to the token that waits.                   *)

Fresh == row'.token = tokens + 1 /\ tokens' = tokens + 1
Gone == row' = NoRow /\ tokens' = tokens
Same ==
  /\ row # NoRow /\ tokens' = tokens /\ overlaid' = overlaid
  /\ row'.token = row.token /\ row'.verified = row.verified /\ row'.secret = row.secret

Others(v) == \A u \in Visitor : u # v => at'[u] = at[u] /\ work'[u] = work[u]

LEMMA OthersKnow ==
  ASSUME RegistrationInv, NEW v \in Visitor, Others(v), Fresh \/ Gone \/ Same,
         made <= made', made' \in Nat, tokens' \in Nat
  PROVE  \A u \in Visitor : u # v => Knows(u)'
<1> SUFFICES ASSUME NEW u \in Visitor, u # v
             PROVE  Knows(u)'
  OBVIOUS
<1>1. at'[u] = at[u] /\ work'[u] = work[u] /\ Knows(u)
  BY DEF Others, RegistrationInv
<1>2. work[u].token \in Nat /\ work[u].user \in Nat /\ tokens \in Nat /\ made \in Nat
  BY DEF RegistrationInv, RegistrationTypeOK, Work
<1>3. tokens <= tokens'
  BY <1>2 DEF Fresh, Gone, Same
<1>4. at[u] = "handing" /\ ~overlaid' /\ row' # NoRow /\ row'.token = work[u].token
        => row'.verified /\ row'.secret = 0
  <2>1. CASE Fresh
    BY <1>1, <1>2, <2>1 DEF Fresh, Knows
  <2>2. CASE Gone
    BY <2>2 DEF Gone
  <2>3. CASE Same
    BY <1>1, <2>3 DEF Same, Knows
  <2> QED BY <2>1, <2>2, <2>3
<1> QED BY <1>1, <1>2, <1>3, <1>4 DEF Knows

(* A step that leaves row and token alone, or loses the row. *)
LEMMA StillGoesOn ==
  ASSUME RegistrationInv, NEW v \in Visitor, Others(v), Gone \/ Same,
         mailed \subseteq mailed', handed \subseteq handed', missed \subseteq missed',
         at[v] = "mailing" => work[v].token \in mailed' \cup missed',
         at[v] = "handing" => work[v].token \in handed' \cup missed'
  PROVE  SignupCanGoOn'
<1>1. CASE Gone
  BY <1>1 DEF Gone, SignupCanGoOn
<1>2. CASE Same
  <2> SUFFICES ASSUME ~overlaid
               PROVE  SignupCanGoOn'
    BY <1>2 DEF Same, SignupCanGoOn
  <2>1. \/ row.token \in mailed \cup missed
        \/ row.token \in handed /\ row.verified /\ row.secret = 0
        \/ \E u \in Visitor : at[u] \in {"mailing", "handing"} /\ work[u].token = row.token
    BY <1>2 DEF Same, RegistrationInv, SignupCanGoOn
  <2>2. CASE row.token \in mailed \cup missed
    BY <1>2, <2>2 DEF Same, SignupCanGoOn
  <2>3. CASE row.token \in handed /\ row.verified /\ row.secret = 0
    BY <1>2, <2>3 DEF Same, SignupCanGoOn
  <2>4. ASSUME NEW u \in Visitor, at[u] \in {"mailing", "handing"},
               work[u].token = row.token
        PROVE  SignupCanGoOn'
    <3>1. CASE u # v
      <4>1. at'[u] = at[u] /\ work'[u] = work[u]
        BY <3>1 DEF Others
      <4> QED BY <1>2, <2>4, <4>1 DEF Same, SignupCanGoOn
    <3>2. CASE u = v /\ row.token \in mailed' \cup missed'
      BY <1>2, <3>2 DEF Same, SignupCanGoOn
    <3>3. CASE u = v /\ at[v] = "handing" /\ row.token \in handed'
      <4>1. row.verified /\ row.secret = 0
        BY <1>2, <2>4, <3>3 DEF Same, RegistrationInv, Knows
      <4> QED BY <1>2, <3>3, <4>1 DEF Same, SignupCanGoOn
    <3> QED BY <2>4, <3>1, <3>2, <3>3
  <2> QED BY <2>1, <2>2, <2>3, <2>4
<1> QED BY <1>1, <1>2

LEMMA FreshGoesOn ==
  ASSUME NEW v \in Visitor, Fresh, at'[v] \in {"mailing", "handing"},
         work'[v].token = tokens + 1
  PROVE  SignupCanGoOn'
BY DEF Fresh, SignupCanGoOn

(* A step that leaves row alone is one of the two. *)
LEMMA RowAlone ==
  ASSUME row' = row, tokens' = tokens, overlaid' = overlaid
  PROVE  Gone \/ Same
BY DEF Gone, Same

(* The parts of the invariant, gathered. *)
LEMMA Gather ==
  ASSUME RegistrationInv, RegistrationTypeOK', row'.token <= tokens', SignupCanGoOn',
         \A u \in Visitor : Knows(u)', users' \subseteq users,
         UNCHANGED <<owner, made, owed, settled>>
  PROVE  RegistrationInv'
BY DEF RegistrationInv, PastOrdersAreClaimed

-----------------------------------------------------------------------------
(* Every step keeps the invariant. *)

(* A request's own step that leaves database and counters alone. *)
LEMMA QuietStep ==
  ASSUME RegistrationInv, NEW v \in Visitor, NEW next \in Stage, NEW w \in Work,
         Goes(v, next, w), UNCHANGED <<database, counters, claims, overlaid>>,
         mailed \subseteq mailed', handed \subseteq handed', missed \subseteq missed',
         mailed' \cup handed' \cup missed' \subseteq 1..tokens,
         next # "idle" => w = work[v] /\ next \in {"dropping", "rotating", "creating"},
         next = "rotating" => w.read.secret = 0 /\ w.read.id # 0,
         at[v] = "mailing" => work[v].token \in mailed' \cup missed',
         at[v] = "handing" => work[v].token \in handed' \cup missed'
  PROVE  RegistrationInv'
<1>1. /\ at' \in [Visitor -> Stage] /\ work' \in [Visitor -> Work] /\ visits' = visits
      /\ Others(v) /\ at'[v] = next /\ work'[v] = IF next = "idle" THEN NoWork ELSE w
  BY GoesFacts DEF RegistrationInv, Others
<1>2. RegistrationTypeOK'
  BY <1>1 DEF RegistrationInv, RegistrationTypeOK, Stage, database, counters, claims
<1>3. Gone \/ Same
  BY RowAlone DEF database, counters
<1>4. SignupCanGoOn'
  BY <1>1, <1>3, StillGoesOn
<1>5. \A u \in Visitor : u # v => Knows(u)'
  <2>1. made' = made /\ made \in Nat /\ tokens' = tokens /\ tokens \in Nat
    BY DEF counters, RegistrationInv, RegistrationTypeOK
  <2> QED BY <1>1, <1>3, <2>1, OthersKnow
<1>6. work'[v].token <= tokens
  BY <1>1 DEF NoWork, RegistrationInv, Knows, RegistrationTypeOK
<1>7. Knows(v)'
  BY <1>1, <1>6 DEF Knows, counters
<1> QED
  BY <1>2, <1>4, <1>5, <1>7, Gather DEF database, counters, claims, RegistrationInv

LEMMA ArrivalKeeps ==
  ASSUME RegistrationInv, NEW v \in Visitor, Comes(v)
  PROVE  RegistrationInv'
<1>1. PICK next, w : Brings(v, next, w)
  BY ArrivalsBring DEF RegistrationInv
<1>2. RegistrationTypeOK'
  BY <1>1 DEF Brings, RegistrationInv, RegistrationTypeOK, Stage, database, counters,
              delivery, claims
<1>3. Gone \/ Same
  BY <1>1, RowAlone DEF Brings, database, counters
<1>4. Others(v)
  BY <1>1 DEF Brings, Others
<1>5. SignupCanGoOn'
  BY <1>1, <1>3, <1>4, StillGoesOn DEF Brings, delivery
<1>6. \A u \in Visitor : u # v => Knows(u)'
  <2>1. made' = made /\ made \in Nat /\ tokens' = tokens /\ tokens \in Nat
    BY <1>1 DEF Brings, counters, RegistrationInv, RegistrationTypeOK
  <2> QED BY <1>3, <1>4, <2>1, OthersKnow
<1>7. Knows(v)'
  BY <1>1 DEF Brings, Knows, RegistrationInv, RegistrationTypeOK, counters
<1> QED
  BY <1>1, <1>2, <1>5, <1>6, <1>7, Gather DEF Brings, database, counters, claims, RegistrationInv

LEMMA DeliveriesKeep ==
  ASSUME RegistrationInv, NEW v \in Visitor, Mail(v) \/ Hand(v) \/ Fail(v)
  PROVE  RegistrationInv'
<1>1. NoWork \in Work /\ "idle" \in Stage
  BY DEF NoWork, Work, NoRow, Row, Stage
<1>2. work[v].token \in Nat /\ work[v].token <= tokens
  BY DEF RegistrationInv, RegistrationTypeOK, Work, Knows
<1>3. at[v] \in {"mailing", "handing"} => work[v].token \in 1..tokens
  BY <1>2 DEF RegistrationInv, Knows, RegistrationTypeOK
<1>4. mailed \cup handed \cup missed \subseteq 1..tokens
  BY DEF RegistrationInv, RegistrationTypeOK
<1>5. CASE Mail(v)
  BY <1>1, <1>3, <1>4, <1>5, QuietStep DEF Mail
<1>6. CASE Hand(v)
  BY <1>1, <1>3, <1>4, <1>6, QuietStep DEF Hand
<1>7. CASE Fail(v)
  BY <1>1, <1>3, <1>4, <1>7, QuietStep DEF Fail
<1> QED BY <1>5, <1>6, <1>7

LEMMA ChecksKeep ==
  ASSUME RegistrationInv, NEW v \in Visitor,
         CheckAddress(v) \/ SaveMisses(v) \/ CreateCollides(v)
  PROVE  RegistrationInv'
<1>1. NoWork \in Work /\ work[v] \in Work
  BY DEF NoWork, Work, NoRow, Row, RegistrationInv, RegistrationTypeOK
<1>2. {"idle", "dropping", "rotating", "creating"} \subseteq Stage
  BY DEF Stage
<1>3. mailed \cup handed \cup missed \subseteq 1..tokens
  BY DEF RegistrationInv, RegistrationTypeOK
<1>4. CASE CheckAddress(v)
  <2>1. (work[v].secret = 0 => work[v].read.secret = 0) /\ work[v].read.id # 0
    BY <1>4 DEF CheckAddress, RegistrationInv, Knows
  <2> DEFINE next == IF users # {} THEN "dropping"
                     ELSE IF work[v].secret = 0 THEN "rotating" ELSE "creating"
  <2>2. /\ at[v] = "checking" /\ Goes(v, next, work[v])
        /\ UNCHANGED <<database, counters, delivery, claims, overlaid>>
    BY <1>4 DEF CheckAddress
  <2>3. /\ next \in {"dropping", "rotating", "creating"}
        /\ next = "rotating" => work[v].secret = 0
    OBVIOUS
  <2> HIDE DEF next
  <2> QED BY <1>1, <1>2, <1>3, <2>1, <2>2, <2>3, QuietStep DEF delivery
<1>5. CASE SaveMisses(v) \/ CreateCollides(v)
  BY <1>1, <1>2, <1>3, <1>5, QuietStep DEF SaveMisses, CreateCollides, delivery
<1> QED BY <1>4, <1>5

(* A new token is written and goes out. *)
LEMMA TokenKeeps ==
  ASSUME RegistrationInv, NEW v \in Visitor, NEW next \in {"mailing", "handing"},
         Delivers(v, next), row' \in Row, row'.id # 0, row'.id <= rows', rows' \in Nat,
         row'.token = tokens + 1, overlaid' \in BOOLEAN,
         next = "handing" /\ ~overlaid' => row'.verified /\ row'.secret = 0,
         UNCHANGED <<users, owner, made, delivery, claims>>
  PROVE  RegistrationInv'
<1> DEFINE w == [work[v] EXCEPT !.token = tokens + 1]
<1>1. tokens \in Nat /\ tokens' = tokens + 1 /\ made \in Nat /\ made' = made
  BY DEF RegistrationInv, RegistrationTypeOK, Delivers
<1>2. w \in Work /\ w.token = tokens + 1
  BY <1>1 DEF RegistrationInv, RegistrationTypeOK, Work
<1>3. Goes(v, next, w) /\ next \in Stage /\ next # "idle"
  BY DEF Delivers, Stage
<1> HIDE DEF w
<1>4. /\ at' \in [Visitor -> Stage] /\ work' \in [Visitor -> Work] /\ visits' = visits
      /\ Others(v) /\ at'[v] = next /\ work'[v] = w
  BY <1>2, <1>3, GoesFacts DEF RegistrationInv, Others
<1>5. 1..tokens \subseteq 1..tokens' /\ tokens' \in Nat
  BY <1>1
<1>6. RegistrationTypeOK'
  BY <1>4, <1>5 DEF RegistrationInv, RegistrationTypeOK, Stage, delivery, claims
<1>7. Fresh
  BY <1>1 DEF Fresh
<1>8. SignupCanGoOn'
  BY <1>2, <1>4, <1>7, FreshGoesOn
<1>9. \A u \in Visitor : u # v => Knows(u)'
  BY <1>1, <1>4, <1>5, <1>7, OthersKnow
<1>10. Knows(v)'
  BY <1>1, <1>2, <1>4 DEF Knows
<1>11. row'.token <= tokens'
  BY <1>1
<1> QED BY <1>6, <1>8, <1>9, <1>10, <1>11, Gather DEF claims

LEMMA RowRotated ==
  ASSUME NEW r \in Row, NEW t \in Nat
  PROVE  LET q == [r EXCEPT !.token = t, !.verified = TRUE, !.lapsed = FALSE] IN
         q \in Row /\ q.id = r.id /\ q.token = t /\ q.secret = r.secret /\ q.verified
BY DEF Row

LEMMA SavesKeep ==
  ASSUME RegistrationInv, NEW v \in Visitor, Upsert(v) \/ SaveResend(v) \/ Rotate(v)
  PROVE  RegistrationInv'
<1>1. /\ row \in Row /\ (row.id = 0 => row = NoRow) /\ row.id <= rows /\ row.id \in Nat
      /\ work[v] \in Work /\ work[v].read \in Row /\ work[v].secret \in Nat
      /\ rows \in Nat /\ tokens \in Nat /\ overlaid \in BOOLEAN
      /\ work[v].read.resends \in Nat
  BY DEF RegistrationInv, RegistrationTypeOK, Work, Row
<1>2. CASE Upsert(v)
  <2>1. /\ Delivers(v, "mailing")
        /\ UNCHANGED <<users, owner, made, delivery, claims, overlaid>>
    BY <1>2 DEF Upsert
  <2>2. row' \in Row /\ row'.id # 0 /\ row'.id <= rows' /\ rows' \in Nat
        /\ row'.token = tokens + 1
    BY <1>1, <1>2 DEF Upsert, Row
  <2> QED BY <1>1, <2>1, <2>2, TokenKeeps
<1>3. CASE SaveResend(v)
  <2>1. /\ Delivers(v, "mailing") /\ rows' = rows
        /\ UNCHANGED <<users, owner, made, delivery, claims>>
    BY <1>3 DEF SaveResend
  <2>2. overlaid' \in BOOLEAN
    BY <1>1, <1>3 DEF SaveResend
  <2>3. row.id # 0
    BY <1>3 DEF SaveResend, RegistrationInv, Knows
  <2>4. row' \in Row /\ row'.id = row.id /\ row'.token = tokens + 1
    <3> DEFINE t == tokens + 1
               n == work[v].read.resends + 1
    <3>1. t \in Nat /\ n \in Nat
      BY <1>1
    <3>2. row' = [row EXCEPT !.token = t, !.lapsed = FALSE, !.resends = n]
      BY <1>3 DEF SaveResend
    <3> HIDE DEF t, n
    <3>3. row \in Row
      BY <1>1
    <3>4. [row EXCEPT !.token = t, !.lapsed = FALSE, !.resends = n] \in Row
      BY <3>1, <3>3 DEF Row
    <3>5. row' \in Row /\ row'.id = row.id /\ row'.token = t
      BY <3>2, <3>3, <3>4 DEF Row
    <3> QED BY <3>5 DEF t
  <2> QED BY <1>1, <2>1, <2>2, <2>3, <2>4, TokenKeeps
<1>4. CASE Rotate(v)
  <2>1. /\ Delivers(v, "handing") /\ rows' = rows
        /\ UNCHANGED <<users, owner, made, delivery, claims>>
    BY <1>4 DEF Rotate
  <2>2. overlaid' \in BOOLEAN /\ (~overlaid' => row = work[v].read)
    BY <1>1, <1>4 DEF Rotate
  <2>3. row.id # 0 /\ work[v].read.secret = 0
    BY <1>4 DEF Rotate, RegistrationInv, Knows
  <2>4. /\ row' \in Row /\ row'.id = row.id /\ row'.token = tokens + 1
        /\ row'.verified /\ row'.secret = row.secret
    <3> DEFINE t == tokens + 1
    <3>1. t \in Nat
      BY <1>1
    <3>2. row' = [row EXCEPT !.token = t, !.verified = TRUE, !.lapsed = FALSE]
      BY <1>4 DEF Rotate
    <3> HIDE DEF t
    <3>3. /\ row' \in Row /\ row'.id = row.id /\ row'.token = t
          /\ row'.verified /\ row'.secret = row.secret
      BY <1>1, <3>1, <3>2, RowRotated
    <3> QED BY <3>3 DEF t
  <2> QED BY <1>1, <2>1, <2>2, <2>3, <2>4, TokenKeeps
<1> QED BY <1>2, <1>3, <1>4

(* The row is dropped, or another request has replaced it. *)
LEMMA ClearKeeps ==
  ASSUME RegistrationInv, NEW v \in Visitor, ClearRow(v)
  PROVE  RegistrationInv'
<1> DEFINE next == IF at[v] = "clearing" THEN "claiming" ELSE "idle"
<1>1. /\ at[v] \in {"clearing", "dropping"} /\ row' = Deleted(work[v])
      /\ Goes(v, next, work[v])
      /\ UNCHANGED <<users, owner, counters, delivery, claims, overlaid>>
  BY DEF ClearRow
<1>2. work[v] \in Work /\ next \in Stage
  BY DEF RegistrationInv, RegistrationTypeOK, Stage
<1>3. /\ at' \in [Visitor -> Stage] /\ work' \in [Visitor -> Work] /\ visits' = visits
      /\ Others(v) /\ at'[v] = next /\ work'[v] = IF next = "idle" THEN NoWork ELSE work[v]
  BY <1>1, <1>2, GoesFacts DEF RegistrationInv, Others
<1>4. row' = NoRow \/ row' = row
  BY <1>1 DEF Deleted
<1>5. Gone \/ Same
  BY <1>1, <1>4 DEF Gone, Same, counters
<1>6. NoRow \in Row /\ NoRow.id = 0 /\ NoRow.token = 0
  BY DEF NoRow, Row
<1>7. row' \in Row /\ (row'.id = 0 => row' = NoRow) /\ row'.id <= rows
      /\ row'.token <= tokens
  BY <1>4, <1>6 DEF RegistrationInv, RegistrationTypeOK
<1>8. RegistrationTypeOK'
  BY <1>1, <1>3, <1>7 DEF RegistrationInv, RegistrationTypeOK, Stage, counters, delivery, claims
<1>9. SignupCanGoOn'
  BY <1>1, <1>3, <1>5, StillGoesOn DEF delivery
<1>10. \A u \in Visitor : u # v => Knows(u)'
  <2>1. made' = made /\ made \in Nat /\ tokens' = tokens /\ tokens \in Nat
    BY <1>1 DEF counters, RegistrationInv, RegistrationTypeOK
  <2> QED BY <1>3, <1>5, <2>1, OthersKnow
<1>11. Knows(v)'
  <2>1. at[v] = "clearing" => work[v].user \in 1..made
    BY DEF RegistrationInv, Knows
  <2>2. work'[v].token <= tokens
    BY <1>3 DEF NoWork, RegistrationInv, Knows, RegistrationTypeOK
  <2> QED BY <1>1, <1>3, <2>1, <2>2 DEF Knows, counters
<1> QED BY <1>1, <1>7, <1>8, <1>9, <1>10, <1>11, Gather DEF counters, claims

LEMMA AccountKeeps ==
  ASSUME RegistrationInv, NEW v \in Visitor, CreateAccount(v)
  PROVE  RegistrationInv'
<1> DEFINE next == IF work[v].op = "createUser" THEN "idle" ELSE "clearing"
           w == [work[v] EXCEPT !.user = made + 1]
<1>1. /\ at[v] = "creating" /\ users = {} /\ made' = made + 1
      /\ users' = {made + 1}
      /\ owed' = [n \in 1..made + 1 |->
                    IF n <= made THEN owed[n] ELSE {o \in DOMAIN owner : owner[o] = 0}]
      /\ Goes(v, next, w)
      /\ UNCHANGED <<row, owner, tokens, rows, delivery, settled, overlaid>>
  BY DEF CreateAccount
<1>2. made \in Nat /\ tokens \in Nat /\ work[v].token <= tokens /\ work[v].token \in Nat
  BY DEF RegistrationInv, RegistrationTypeOK, Knows, Work
<1>3. w \in Work /\ w.user = made + 1 /\ w.token = work[v].token /\ next \in Stage
  BY <1>2 DEF RegistrationInv, RegistrationTypeOK, Stage, Work
<1> HIDE DEF w
<1>4. /\ at' \in [Visitor -> Stage] /\ work' \in [Visitor -> Work] /\ visits' = visits
      /\ Others(v) /\ at'[v] = next /\ work'[v] = IF next = "idle" THEN NoWork ELSE w
  BY <1>1, <1>3, GoesFacts DEF RegistrationInv, Others
<1>5. 1..made \subseteq 1..made' /\ made + 1 \in 1..made'
  BY <1>1, <1>2
<1>6. \A o \in DOMAIN owner : o \in GuestOrder /\ owner[o] \in 0..made'
  BY <1>1, <1>2 DEF RegistrationInv, RegistrationTypeOK
<1>7. RegistrationTypeOK'
  BY <1>1, <1>2, <1>4, <1>5, <1>6 DEF RegistrationInv, RegistrationTypeOK, Stage, delivery
<1>8. Gone \/ Same
  BY <1>1, RowAlone
<1>9. SignupCanGoOn'
  BY <1>1, <1>4, <1>8, StillGoesOn DEF delivery
<1>10. \A u \in Visitor : u # v => Knows(u)'
  BY <1>1, <1>2, <1>4, <1>8, OthersKnow
<1>11. Knows(v)'
  BY <1>1, <1>2, <1>3, <1>4, <1>5 DEF Knows, NoWork
<1>12. \A n \in 1..made' : owed'[n] \subseteq DOMAIN owner
  BY <1>1, <1>2 DEF RegistrationInv
<1>13. PastOrdersAreClaimed'
  <2>1. \A n \in settled : n \in 1..made' /\ n <= made /\ owed'[n] = owed[n]
    BY <1>1, <1>2, <1>5 DEF RegistrationInv, RegistrationTypeOK
  <2> QED BY <1>1, <2>1 DEF RegistrationInv, PastOrdersAreClaimed
<1>14. \E n : users' \subseteq {n}
  BY <1>1
<1>15. row'.token <= tokens'
  BY <1>1 DEF RegistrationInv
<1> QED
  BY <1>1, <1>7, <1>9, <1>10, <1>11, <1>12, <1>13, <1>14, <1>15 DEF RegistrationInv

LEMMA ClaimKeeps ==
  ASSUME RegistrationInv, NEW v \in Visitor, ClaimGuestOrders(v)
  PROVE  RegistrationInv'
<1>1. NoWork \in Work /\ "idle" \in Stage
  BY DEF NoWork, Work, NoRow, Row, Stage
<1>2. /\ at[v] = "claiming"
      /\ owner' = [o \in DOMAIN owner |-> IF owner[o] = 0 THEN work[v].user ELSE owner[o]]
      /\ settled' = settled \cup {work[v].user}
      /\ Goes(v, "idle", NoWork)
      /\ UNCHANGED <<row, users, counters, delivery, owed, overlaid>>
  BY DEF ClaimGuestOrders
<1>3. /\ at' \in [Visitor -> Stage] /\ work' \in [Visitor -> Work] /\ visits' = visits
      /\ Others(v) /\ at'[v] = "idle" /\ work'[v] = NoWork
  BY <1>1, <1>2, GoesFacts DEF RegistrationInv, Others
<1>4. work[v].user \in 1..made /\ made' = made /\ made \in Nat
      /\ tokens' = tokens /\ tokens \in Nat
  BY <1>2 DEF RegistrationInv, RegistrationTypeOK, Knows, counters
<1>5. \A o \in DOMAIN owner' : o \in GuestOrder /\ owner'[o] \in 1..made
  BY <1>2, <1>4 DEF RegistrationInv, RegistrationTypeOK
<1>6. RegistrationTypeOK'
  <2>1. settled' \subseteq 1..made /\ DOMAIN owed' = 1..made
    BY <1>2, <1>4 DEF RegistrationInv, RegistrationTypeOK
  <2>2. \A o \in DOMAIN owner' : o \in GuestOrder /\ owner'[o] \in 0..made
    BY <1>5
  <2> QED
    BY <1>2, <1>3, <1>4, <2>1, <2>2
    DEF RegistrationInv, RegistrationTypeOK, Stage, delivery, counters
<1>7. Gone \/ Same
  BY <1>2, RowAlone DEF counters
<1>8. SignupCanGoOn'
  BY <1>2, <1>3, <1>7, StillGoesOn DEF delivery
<1>9. \A u \in Visitor : u # v => Knows(u)'
  BY <1>3, <1>4, <1>7, OthersKnow
<1>10. Knows(v)'
  BY <1>3, <1>4 DEF Knows, NoWork
<1>11. \A n \in 1..made : owed[n] \subseteq DOMAIN owner'
  BY <1>2 DEF RegistrationInv
<1>12. settled' \subseteq 1..made
  BY <1>2, <1>4 DEF RegistrationInv, RegistrationTypeOK
<1>13. PastOrdersAreClaimed'
  BY <1>2, <1>4, <1>5, <1>11, <1>12 DEF PastOrdersAreClaimed
<1>14. row'.token <= tokens' /\ \E n : users' \subseteq {n}
  BY <1>2, <1>4 DEF RegistrationInv
<1> QED
  BY <1>2, <1>4, <1>6, <1>8, <1>9, <1>10, <1>11, <1>13, <1>14 DEF RegistrationInv

LEMMA OrderKeeps ==
  ASSUME RegistrationInv, NEW o \in GuestOrder, PlaceGuestOrder(o)
  PROVE  RegistrationInv'
<1>1. /\ o \notin DOMAIN owner
      /\ owner' = [p \in DOMAIN owner \cup {o} |-> IF p = o THEN 0 ELSE owner[p]]
      /\ UNCHANGED <<row, users, requests, counters, delivery, claims, overlaid>>
  BY DEF PlaceGuestOrder
<1>2. /\ DOMAIN owner' = DOMAIN owner \cup {o} /\ owner'[o] = 0
      /\ \A p \in DOMAIN owner : owner'[p] = owner[p]
  BY <1>1
<1>3. \A p \in DOMAIN owner' : p \in GuestOrder /\ owner'[p] \in 0..made
  BY <1>2 DEF RegistrationInv, RegistrationTypeOK
<1>4. RegistrationTypeOK'
  BY <1>1, <1>3 DEF RegistrationInv, RegistrationTypeOK, requests, counters, delivery, claims
<1>5. \A n \in 1..made : owed[n] \subseteq DOMAIN owner'
  BY <1>2 DEF RegistrationInv
<1>6. PastOrdersAreClaimed'
  <2>1. \A n \in settled : owed[n] \subseteq DOMAIN owner
    BY DEF RegistrationInv, RegistrationTypeOK
  <2> QED BY <1>1, <1>2, <2>1 DEF RegistrationInv, PastOrdersAreClaimed, claims
<1>7. SignupCanGoOn' /\ \A u \in Visitor : Knows(u)'
  BY <1>1 DEF RegistrationInv, SignupCanGoOn, Knows, requests, counters, delivery
<1> QED
  BY <1>1, <1>4, <1>5, <1>6, <1>7 DEF RegistrationInv, counters, claims

LEMMA EraseKeeps ==
  ASSUME RegistrationInv, NEW n \in users, EraseAccount(n)
  PROVE  RegistrationInv'
<1>1. /\ users' \subseteq users /\ visits' \in 0..MaxVisits
      /\ UNCHANGED <<row, owner, at, work, counters, delivery, claims, overlaid>>
  BY RegistrationAssumption DEF EraseAccount, RegistrationInv, RegistrationTypeOK
<1>2. RegistrationTypeOK'
  BY <1>1 DEF RegistrationInv, RegistrationTypeOK, counters, delivery, claims
<1>3. SignupCanGoOn' /\ \A u \in Visitor : Knows(u)'
  BY <1>1 DEF RegistrationInv, SignupCanGoOn, Knows, counters, delivery
<1>4. row'.token <= tokens'
  BY <1>1 DEF RegistrationInv, counters
<1> QED BY <1>1, <1>2, <1>3, <1>4, Gather DEF counters, claims

LEMMA TimeKeeps ==
  ASSUME RegistrationInv, Lapse \/ Sweep
  PROVE  RegistrationInv'
<1>1. UNCHANGED <<users, owner, requests, counters, delivery, claims, overlaid>>
  BY DEF Lapse, Sweep
<1>2. Gone \/ Same
  <2>1. CASE Lapse
    BY <1>1, <2>1 DEF Lapse, Same, counters, RegistrationInv, RegistrationTypeOK, Row
  <2>2. CASE Sweep
    BY <1>1, <2>2 DEF Sweep, Gone, counters
  <2> QED BY <2>1, <2>2
<1>3. /\ row' \in Row /\ (row'.id = 0 => row' = NoRow) /\ row'.id <= rows
      /\ row'.token <= tokens
  <2>1. NoRow \in Row /\ NoRow.id = 0 /\ NoRow.token = 0
    BY DEF NoRow, Row
  <2>2. row \in Row /\ rows \in Nat /\ tokens \in Nat
    BY DEF RegistrationInv, RegistrationTypeOK
  <2>3. CASE Sweep
    BY <2>1, <2>2, <2>3 DEF Sweep
  <2>4. CASE Lapse
    <3>1. row' \in Row /\ row'.id = row.id /\ row'.token = row.token
      BY <2>2, <2>4 DEF Lapse, Row
    <3>2. row # NoRow
      BY <2>4 DEF Lapse
    <3> QED BY <3>1, <3>2 DEF RegistrationInv, RegistrationTypeOK
  <2> QED BY <2>3, <2>4
<1>4. RegistrationTypeOK'
  BY <1>1, <1>3 DEF RegistrationInv, RegistrationTypeOK, requests, counters, delivery, claims
<1>5. SignupCanGoOn'
  <2>1. CASE Gone
    BY <2>1 DEF Gone, SignupCanGoOn
  <2>2. CASE Same
    BY <1>1, <2>2 DEF Same, RegistrationInv, SignupCanGoOn, requests, delivery
  <2> QED BY <1>2, <2>1, <2>2
<1>6. ASSUME NEW u \in Visitor
      PROVE  Knows(u)'
  <2>1. CASE Gone
    BY <1>1, <2>1 DEF Gone, RegistrationInv, Knows, requests, counters
  <2>2. CASE Same
    BY <1>1, <2>2 DEF Same, RegistrationInv, Knows, requests, counters
  <2> QED BY <1>2, <2>1, <2>2
<1>7. row'.token <= tokens'
  BY <1>1, <1>3 DEF counters
<1> QED BY <1>1, <1>4, <1>5, <1>6, <1>7, Gather DEF counters, claims

LEMMA RegistrationInvInit == RegistrationInit => RegistrationInv
<1> SUFFICES ASSUME RegistrationInit
             PROVE  RegistrationInv
  OBVIOUS
<1>1. NoRow \in Row /\ NoRow.id = 0 /\ NoRow.token = 0
  BY DEF NoRow, Row
<1>2. NoWork \in Work /\ NoWork.token = 0
  BY <1>1 DEF NoWork, Work
<1>3. /\ at \in [Visitor -> {"idle", "upserting", "mailing", "saving", "dropping", "checking",
                             "rotating", "handing", "creating", "clearing", "claiming"}]
      /\ work \in [Visitor -> Work]
      /\ \A v \in Visitor : at[v] = "idle" /\ work[v].token = 0
  BY <1>2 DEF RegistrationInit
<1>4. overlaid \in BOOLEAN
  BY DEF RegistrationInit
<1>5. /\ row \in Row /\ (row.id = 0 => row = NoRow) /\ row.id <= rows /\ row.token <= tokens
      /\ users \subseteq 1..made
      /\ \A o \in DOMAIN owner : o \in GuestOrder /\ owner[o] \in 0..made
      /\ visits \in 0..MaxVisits /\ tokens \in Nat /\ rows \in Nat /\ made \in Nat
      /\ mailed \cup handed \cup missed \subseteq 1..tokens
      /\ settled \subseteq 1..made
  BY <1>1, RegistrationAssumption DEF RegistrationInit
<1>6. DOMAIN owed = 1..made /\ \A n \in 1..made : owed[n] \subseteq DOMAIN owner
  BY DEF RegistrationInit
<1>7. RegistrationTypeOK
  BY <1>3, <1>4, <1>5, <1>6 DEF RegistrationTypeOK
<1>8. PastOrdersAreClaimed /\ SignupCanGoOn /\ \E n : users \subseteq {n}
  BY DEF RegistrationInit, PastOrdersAreClaimed, SignupCanGoOn
<1>9. \A v \in Visitor : Knows(v)
  BY <1>3 DEF Knows, RegistrationInit
<1> QED BY <1>5, <1>6, <1>7, <1>8, <1>9 DEF RegistrationInv

LEMMA RegistrationInvHolds == RegistrationSpec => []RegistrationInv
<1>1. RegistrationInv /\ [RegistrationNext]_registrationVars => RegistrationInv'
  <2> SUFFICES ASSUME RegistrationInv, [RegistrationNext]_registrationVars
               PROVE  RegistrationInv'
    OBVIOUS
  <2>1. CASE UNCHANGED registrationVars
    BY <2>1 DEF RegistrationInv, RegistrationTypeOK, PastOrdersAreClaimed, SignupCanGoOn, Knows,
                registrationVars, database, requests, counters, delivery, claims
  <2>2. ASSUME NEW v \in Visitor,
               \/ Register(v) \/ InviteAccountFromCheckout(v) \/ ResendVerification(v)
               \/ \E t \in 1..tokens : VerifyEmail(v, t) \/ CompleteRegistration(v, t)
               \/ SocialLogin(v) \/ CreateUser(v)
        PROVE  RegistrationInv'
    BY <2>2, ArrivalKeeps DEF Comes
  <2> QED
    BY <2>1, <2>2, DeliveriesKeep, ChecksKeep, SavesKeep, ClearKeeps, AccountKeeps, ClaimKeeps,
       OrderKeeps, EraseKeeps, TimeKeeps
    DEF RegistrationNext
<1> QED BY <1>1, RegistrationInvInit, PTL DEF RegistrationSpec

-----------------------------------------------------------------------------
(* Every variable keeps its type (auth.service.js). *)
THEOREM RegistrationTyped == RegistrationSpec => []RegistrationTypeOK
BY RegistrationInvHolds, PTL DEF RegistrationInv

(* However many signups, invitations, social sign-ins and staff race for an
   address, it has one account at most (auth.service.js, user.service.js). *)
THEOREM AddressHasOneAccount == RegistrationSpec => []OneAccountPerAddress
<1>1. RegistrationInv => OneAccountPerAddress
  <2> SUFFICES ASSUME RegistrationInv
               PROVE  Cardinality(users) <= 1
    BY DEF OneAccountPerAddress
  <2>1. PICK n : users \subseteq {n}
    BY DEF RegistrationInv
  <2>2. users = {} \/ users = {n}
    BY <2>1
  <2>3. CASE users = {}
    BY <2>3, FS_EmptySet
  <2>4. CASE users = {n}
    <3>1. Cardinality(users) = 1
      BY <2>4, FS_Singleton
    <3> QED BY <3>1
  <2> QED BY <2>2, <2>3, <2>4
<1> QED BY <1>1, RegistrationInvHolds, PTL

(* An account that has claimed left no guest order behind that was placed
   before the account was made (auth.service.js, afterAccountCreated). *)
THEOREM ClaimsLeaveNothing == RegistrationSpec => []PastOrdersAreClaimed
BY RegistrationInvHolds, PTL DEF RegistrationInv

(* Unless a request saved over a changed row, the token that waits is where
   it is needed, on its way there, or its delivery failed
   (auth.service.js, register, verifyEmail, resendVerification). *)
THEOREM SignupsStayOpen == RegistrationSpec => []SignupCanGoOn
BY RegistrationInvHolds, PTL DEF RegistrationInv

-------------------------------------------------------------------------------
(* What leads to an account and what goes on in one, side by side. *)

(* Each side of a behaviour is one of its component (auth.service.js:
   PendingRegistration and the account's sessions share no document). *)
THEOREM AccountsAreTheirSides ==
  AccountsSpec => Spec /\ RegistrationSpec
<1>1. AccountsInit => Init /\ RegistrationInit
  BY DEF AccountsInit
<1>2. [AccountsNext]_<<vars, registrationVars, side>> =>
        [Next]_vars /\ [RegistrationNext]_registrationVars
  BY Zenon DEF AccountsNext, SessionsSide, RegistrationSide
<1>3. QED
  BY <1>1, <1>2, PTL DEF AccountsSpec, Spec, RegistrationSpec

(* Whatever happens on either side, the account's document, the pending row and
   the requests keep their types (auth.service.js, user.model.js,
   pendingRegistration.model.js). *)
THEOREM AccountsTyped ==
  AccountsSpec => []AccountsTypeOK
<1>1. TypeOK /\ RegistrationTypeOK => AccountsTypeOK
  BY DEF AccountsTypeOK
<1>2. QED
  BY <1>1, AccountsAreTheirSides, SessionsTyped, RegistrationTyped, PTL

===============================================================================
