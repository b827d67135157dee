------------------------------- MODULE Sessions -------------------------------
(***************************************************************************)
(* One password account under concurrent requests: signing in and out,     *)
(* refresh with rotation, the three ways a password changes, and what      *)
(* staff do to the account (modules/auth/auth.service.js,                  *)
(* modules/user/user.model.js and user.service.js).                        *)
(*                                                                         *)
(* Every request reads the document, changes its copy and saves it.        *)
(* Mongoose writes the modified paths only.  A save that replaces the      *)
(* session list names the version it read and fails when the document has  *)
(* another; a save that only pushes a session advances the version and     *)
(* checks nothing; a save of other fields ignores it.  Assigning a list    *)
(* equal to the one read is not a modification.                            *)
(*                                                                         *)
(* Tokens are numbered in the order their sessions were stored, which is   *)
(* the order of the array: the list is the set of the numbers in it.  A    *)
(* request that is refused before it saves changes nothing and is no step. *)
(* Roles, names and what is mailed are left out.                           *)
(***************************************************************************)
EXTENDS Integers, Sequences, FiniteSets

CONSTANTS
  Request,      \* requests in flight at a time
  MaxSessions,  \* MAX_SESSIONS
  MaxCalls      \* bound: requests in a behaviour

ASSUME SessionsAssumption ==
  /\ IsFiniteSet(Request) /\ Request # {}
  /\ MaxSessions \in Nat \ {0}
  /\ MaxCalls \in Nat

VARIABLES
  password,      \* the secret whose hash is stored
  tokenVersion,
  status,        \* "GONE" when the document is deleted
  sessions,      \* the refresh tokens whose hash is stored
  link,          \* passwordResetTokenHash; 0: none
  version,       \* the document's __v
  pc, draft,     \* each request's next step and its copy of the document
  issued,        \* the refresh tokens handed out, in order
  expired,       \* tokens up to this one are past their lifetime
  lapsed,        \* reset links up to this one are past theirs
  begun,         \* how much of MaxCalls is used
  secrets, links, \* the last password chosen, the last link made
  revoked,       \* history: revocations saved
  raced,         \* history: one was saved by a request that missed another
  signedOut,     \* history: sign-ins whose session a logout removed
  evicted,       \* history: tokens dropped at the cap
  spent          \* history: the reset links that set a password, in order

doc == <<password, tokenVersion, status, sessions, link, version>>
call == <<pc, draft>>
clock == <<expired, lapsed>>
supply == <<begun, secrets, links>>
history == <<revoked, raced, signedOut, evicted, spent>>
vars == <<doc, call, issued, clock, supply, history>>

Status == {"ACTIVE", "SUSPENDED", "DELETED"}

Op == {"none", "login", "refresh", "reuse", "logout", "logoutAll",
       "changePassword", "forgotPassword", "resetPassword", "resetExpired",
       "updateRole", "updateStatus", "softDelete", "hardDelete"}

(* The modified paths: "push" is sessions with a session appended and      *)
(* nothing else changed.                                                   *)
Field == {"password", "tokenVersion", "status", "link", "sessions", "push"}

(* A token carries tokenVersion; the rest tells where it came from: the    *)
(* token it replaced (0: a sign-in), the sign-in it descends from, the     *)
(* password that was proven there, and how many revocations had been saved *)
(* when its document was read.                                             *)
Token == [tokenVersion : Nat, parent : Nat, login : Nat, secret : Nat, epoch : Nat]

Draft == [op : Op, presented : Nat, password : Nat, tokenVersion : Nat,
          status : Status \cup {"GONE"}, sessions : SUBSET Nat, link : Nat,
          version : Nat, epoch : Nat, writes : SUBSET Field]

NoDraft == [op |-> "none", presented |-> 0, password |-> 0, tokenVersion |-> 0,
            status |-> "ACTIVE", sessions |-> {}, link |-> 0, version |-> 0,
            epoch |-> 0, writes |-> {}]

TypeOK ==
  /\ password \in Nat /\ tokenVersion \in Nat /\ version \in Nat /\ link \in Nat
  /\ status \in Status \cup {"GONE"}
  /\ sessions \subseteq DOMAIN issued
  /\ pc \in [Request -> {"idle", "authenticated", "saving"}]
  /\ draft \in [Request -> Draft]
  /\ issued \in Seq(Token)
  /\ expired \in Nat /\ lapsed \in Nat
  /\ begun \in 0..MaxCalls /\ secrets \in Nat /\ links \in Nat
  /\ revoked \in Nat /\ raced \in BOOLEAN
  /\ signedOut \subseteq Nat /\ evicted \subseteq Nat /\ spent \in Seq(Nat)

(* Registration created the account and issued its first session. *)
Init ==
  /\ password = 1 /\ tokenVersion = 0 /\ status = "ACTIVE" /\ link = 0
  /\ sessions = {1} /\ version = 1
  /\ pc = [c \in Request |-> "idle"] /\ draft = [c \in Request |-> NoDraft]
  /\ issued = <<[tokenVersion |-> 0, parent |-> 0, login |-> 1, secret |-> 1,
                 epoch |-> 0]>>
  /\ expired = 0 /\ lapsed = 0
  /\ begun = 0 /\ secrets = 1 /\ links = 0
  /\ revoked = 0 /\ raced = FALSE
  /\ signedOut = {} /\ evicted = {} /\ spent = <<>>

-------------------------------------------------------------------------------
(* The copy a request works on. *)

Copy(op, presented) ==
  [op |-> op, presented |-> presented, password |-> password,
   tokenVersion |-> tokenVersion, status |-> status, sessions |-> sessions,
   link |-> link, version |-> version, epoch |-> revoked, writes |-> {}]

SetSessions(d, list) ==
  [d EXCEPT !.sessions = list,
            !.writes = IF list = d.sessions THEN @ ELSE @ \cup {"sessions"}]

PruneExpiredSessions(d) == SetSessions(d, {t \in d.sessions : t > expired})

(* Mutant: the session that was presented stays. *)
RemoveNothing(d, t) == d

RemoveSessionByJti(d, t) == SetSessions(d, d.sessions \ {t})

(* Mutants of it: the tokenVersion stays, or is turned back. *)
ClearSessionsOnly(d) == SetSessions(d, {})

TurnBack(d) ==
  SetSessions([d EXCEPT !.tokenVersion = @ - 1,
                        !.writes = @ \cup {"tokenVersion"}], {})

RevokeAllSessions(d) ==
  SetSessions([d EXCEPT !.tokenVersion = @ + 1,
                        !.writes = @ \cup {"tokenVersion"}], {})

(* slice(-n) *)
Newest(list, n) == {t \in list : Cardinality({u \in list : u > t}) < n}

(* Mutant: no cap. *)
AddUncapped(d) == [d EXCEPT !.writes = @ \cup {"push"}]

(* The new session itself is appended by Save, which numbers its token. *)
AddSession(d) ==
  IF Cardinality(d.sessions) + 1 > MaxSessions
  THEN [d EXCEPT !.sessions = Newest(@, MaxSessions - 1),
                 !.writes = @ \cup {"sessions"}]
  ELSE [d EXCEPT !.writes = @ \cup {"push"}]

Set(d, field, value) ==
  IF d[field] = value THEN d
  ELSE [d EXCEPT ![field] = value, !.writes = @ \cup {field}]

-------------------------------------------------------------------------------
(* Requests begin. *)

Admit(c) ==
  /\ pc[c] = "idle"
  /\ begun < MaxCalls
  /\ begun' = begun + 1

(* The handler has read the document and will save d. *)
ToSave(c, d) ==
  /\ pc' = [pc EXCEPT ![c] = "saving"]
  /\ draft' = [draft EXCEPT ![c] = d]
  /\ UNCHANGED <<doc, issued, clock, history>>

CanSignIn == status = "ACTIVE"
Exists == status # "GONE"

(* The middleware accepted an access token of the account: every access    *)
(* token is minted beside a refresh token.  The handler reads later.       *)
Authenticate(c, op) ==
  /\ Admit(c)
  /\ CanSignIn
  /\ \E t \in DOMAIN issued : t > expired /\ issued[t].tokenVersion = tokenVersion
  /\ pc' = [pc EXCEPT ![c] = "authenticated"]
  /\ draft' = [draft EXCEPT ![c].op = op]
  /\ UNCHANGED <<doc, issued, clock, secrets, links, history>>

Authenticated(c, op) == pc[c] = "authenticated" /\ draft[c].op = op

(* The caller knows the password that is stored. *)
Login(c) ==
  /\ Admit(c) /\ CanSignIn
  /\ ToSave(c, AddSession(Copy("login", 0)))
  /\ UNCHANGED <<secrets, links>>

(* Presenting a token that was ever handed out. *)
Refresh(c, t) ==
  /\ Admit(c) /\ CanSignIn
  /\ t > expired /\ issued[t].tokenVersion = tokenVersion
  /\ ToSave(c, LET d == PruneExpiredSessions(Copy("refresh", t))
               IN IF t \in d.sessions THEN AddSession(RemoveSessionByJti(d, t))
                  ELSE RevokeAllSessions([d EXCEPT !.op = "reuse"]))
  /\ UNCHANGED <<secrets, links>>

(* A cookie that matches no session leaves the list as it was. *)
Logout(c, t) ==
  /\ Authenticated(c, "logout") /\ Exists
  /\ t > expired /\ t \in sessions
  /\ ToSave(c, RemoveSessionByJti(Copy("logout", t), t))
  /\ UNCHANGED supply

LogoutAll(c) ==
  /\ Authenticated(c, "logoutAll") /\ Exists
  /\ ToSave(c, RevokeAllSessions(Copy("logoutAll", 0)))
  /\ UNCHANGED supply

ChangePassword(c) ==
  /\ Authenticated(c, "changePassword") /\ Exists
  /\ secrets' = secrets + 1
  /\ ToSave(c, RevokeAllSessions(Set(Copy("changePassword", 0), "password", secrets + 1)))
  /\ UNCHANGED <<begun, links>>

ForgotPassword(c) ==
  /\ Admit(c) /\ CanSignIn
  /\ links' = links + 1
  /\ ToSave(c, Set(Copy("forgotPassword", 0), "link", links + 1))
  /\ UNCHANGED secrets

(* Mutant: the link stays. *)
ResetKeepsLink(c) ==
  /\ Admit(c) /\ CanSignIn /\ link > lapsed
  /\ secrets' = secrets + 1
  /\ ToSave(c, RevokeAllSessions(
       Set(Copy("resetPassword", link), "password", secrets + 1)))
  /\ UNCHANGED links

(* The link that is stored is presented; a password is set if it has not   *)
(* lapsed, and otherwise only the link is cleared.                         *)
ResetPassword(c) ==
  /\ Admit(c) /\ Exists /\ link # 0
  /\ \/ /\ link > lapsed /\ CanSignIn
        /\ secrets' = secrets + 1
        /\ ToSave(c, RevokeAllSessions(
             Set(Set(Copy("resetPassword", link), "password", secrets + 1), "link", 0)))
     \/ /\ link <= lapsed
        /\ ToSave(c, Set(Copy("resetExpired", link), "link", 0))
        /\ UNCHANGED secrets
  /\ UNCHANGED links

UpdateRole(c) ==
  /\ Admit(c) /\ Exists
  /\ ToSave(c, Set(Copy("updateRole", 0), "tokenVersion", tokenVersion + 1))
  /\ UNCHANGED <<secrets, links>>

UpdateStatus(c, new) ==
  /\ Admit(c) /\ Exists
  /\ LET d == Set(Copy("updateStatus", 0), "status", new)
     IN ToSave(c, IF new = "ACTIVE" THEN d ELSE RevokeAllSessions(d))
  /\ UNCHANGED <<secrets, links>>

SoftDelete(c) ==
  /\ Admit(c) /\ Exists /\ status # "DELETED"
  /\ ToSave(c, RevokeAllSessions(Set(Copy("softDelete", 0), "status", "DELETED")))
  /\ UNCHANGED <<secrets, links>>

HardDelete(c) ==
  /\ Admit(c) /\ Exists
  /\ ToSave(c, Copy("hardDelete", 0))
  /\ UNCHANGED <<secrets, links>>

-------------------------------------------------------------------------------
(* Requests save. *)

Mints(d) == d.op \in {"login", "refresh"}

Versioned(d) == "sessions" \in d.writes

(* Mutants: only a logout's save, or only a rotation's, looks at the version. *)
LogoutVersioned(d) == Exists /\ (d.op = "logout" => d.version = version)

RefreshVersioned(d) == Exists /\ (d.op = "refresh" => d.version = version)

SaveSucceeds(d) == Exists /\ (Versioned(d) => d.version = version)

End(c) ==
  /\ pc' = [pc EXCEPT ![c] = "idle"]
  /\ draft' = [draft EXCEPT ![c] = NoDraft]
  /\ UNCHANGED <<clock, supply>>

(* Mutant: signed with the tokenVersion at the time of the save. *)
SignedLate(d) ==
  [tokenVersion |-> tokenVersion, parent |-> d.presented, login |-> Len(issued) + 1,
   secret |-> d.password, epoch |-> d.epoch]

(* What issueSession signed from the copy. *)
NewToken(d) ==
  IF d.presented = 0
  THEN [tokenVersion |-> d.tokenVersion, parent |-> 0, login |-> Len(issued) + 1,
        secret |-> d.password, epoch |-> d.epoch]
  ELSE [issued[d.presented] EXCEPT !.tokenVersion = d.tokenVersion,
                                   !.parent = d.presented, !.epoch = d.epoch]

Save(c) ==
  LET d == draft[c]
      Written(field, old) == IF field \in d.writes THEN d[field] ELSE old
      revokes == "tokenVersion" \in d.writes
  IN
  /\ pc[c] = "saving" /\ d.op # "hardDelete" /\ SaveSucceeds(d)
  /\ password' = Written("password", password)
  /\ tokenVersion' = Written("tokenVersion", tokenVersion)
  /\ status' = Written("status", status)
  /\ link' = Written("link", link)
  /\ sessions' = Written("sessions", sessions)
                   \cup (IF Mints(d) THEN {Len(issued) + 1} ELSE {})
  /\ version' = IF d.writes \cap {"sessions", "push"} = {} THEN version ELSE version + 1
  /\ issued' = IF Mints(d) THEN Append(issued, NewToken(d)) ELSE issued
  /\ revoked' = IF revokes THEN revoked + 1 ELSE revoked
  /\ raced' = (raced \/ (revokes /\ d.tokenVersion # tokenVersion + 1))
  /\ signedOut' = IF d.op = "logout" THEN signedOut \cup {issued[d.presented].login}
                  ELSE signedOut
  /\ evicted' = IF Mints(d) /\ Versioned(d)
                THEN evicted \cup (sessions \ (d.sessions \cup {d.presented}))
                ELSE evicted
  /\ spent' = IF d.op = "resetPassword" THEN Append(spent, d.presented) ELSE spent
  /\ End(c)

(* A VersionError or a DocumentNotFoundError: the request fails. *)
SaveFails(c) ==
  /\ pc[c] = "saving" /\ draft[c].op # "hardDelete" /\ ~SaveSucceeds(draft[c])
  /\ End(c)
  /\ UNCHANGED <<doc, issued, history>>

(* The document is deleted by its id. *)
Delete(c) ==
  /\ pc[c] = "saving" /\ draft[c].op = "hardDelete"
  /\ status' = "GONE"
  /\ End(c)
  /\ UNCHANGED <<password, tokenVersion, sessions, link, version, issued, history>>

-------------------------------------------------------------------------------
(* Time passes: the oldest session or the stored link runs out. *)
Expire ==
  /\ \/ expired < Len(issued) /\ expired' = expired + 1 /\ UNCHANGED lapsed
     \/ lapsed < link /\ lapsed' = link /\ UNCHANGED expired
  /\ UNCHANGED <<doc, call, issued, supply, history>>

Next ==
  \/ \E c \in Request :
       \/ \E op \in {"logout", "logoutAll", "changePassword"} : Authenticate(c, op)
       \/ Login(c)
       \/ \E t \in DOMAIN issued : Refresh(c, t) \/ Logout(c, t)
       \/ LogoutAll(c) \/ ChangePassword(c) \/ ForgotPassword(c) \/ ResetPassword(c)
       \/ UpdateRole(c) \/ \E new \in {"ACTIVE", "SUSPENDED"} : UpdateStatus(c, new)
       \/ SoftDelete(c) \/ HardDelete(c)
       \/ Save(c) \/ SaveFails(c) \/ Delete(c)
  \/ Expire

Spec == Init /\ [][Next]_vars

-------------------------------------------------------------------------------
(* Properties. *)

(* A refresh token is exchanged at most once, however many requests present
   it at the same time: rotation consumes it (auth.service.js, refresh). *)
TokenUsedOnce ==
  \A t, u \in DOMAIN issued :
    issued[t].parent = issued[u].parent /\ issued[t].parent # 0 => t = u

(* The session list stays bounded although a sign-in below the cap appends
   without looking: racing sign-ins exceed MAX_SESSIONS by at most one less
   than there are requests (user.model.js, addSession). *)
ListBounded ==
  Cardinality(sessions) <= MaxSessions + Cardinality(Request) - 1

(* Once a logout removed its session, no session that descends from the same
   sign-in is stored, now or later: a refresh in flight cannot bring it back
   (auth.service.js, logout and refresh). *)
SignedOutStaysOut ==
  \A t \in sessions : issued[t].login \notin signedOut

(* A device holds one session: rotation replaces and never multiplies
   (auth.service.js, refresh). *)
OneSessionPerLogin ==
  \A t, u \in sessions : issued[t].login = issued[u].login => t = u

(* Unless one revocation was saved over another it had not seen, every token
   the account's tokenVersion still accepts was minted from a document read
   after the last revocation: a sign-in or refresh that raced with it yields
   tokens that are already dead, and they stay dead
   (auth.service.js, logoutAll; user.service.js, updateStatus). *)
RevocationIsFinal ==
  ~raced => \A t \in DOMAIN issued :
              issued[t].tokenVersion = tokenVersion => issued[t].epoch = revoked

(* Under the same condition, a token that is accepted descends from a sign-in
   with the password that is stored: changing or resetting the password ends
   the sessions of whoever knew the old one (auth.service.js, changePassword
   and resetPassword). *)
NewPasswordEndsOldSessions ==
  ~raced => \A t \in DOMAIN issued :
              issued[t].tokenVersion = tokenVersion => issued[t].secret = password

(* Under the same condition, a token that is in its lifetime and not revoked
   has its session stored, or it was rotated, signed out or evicted: no save
   loses another's session, so nobody trips the reuse alarm by bad luck
   (auth.service.js, refresh). *)
NoSessionLost ==
  ~raced => \A t \in DOMAIN issued :
    \/ t \in sessions \/ t <= expired \/ issued[t].tokenVersion # tokenVersion
    \/ \E u \in DOMAIN issued : issued[u].parent = t
    \/ issued[t].login \in signedOut \/ t \in evicted

(* A reset link sets a password at most once, unless two resets raced past
   each other (auth.service.js, resetPassword). *)
ResetLinkWorksOnce ==
  ~raced => \A i, j \in DOMAIN spent : spent[i] = spent[j] => i = j

===============================================================================
