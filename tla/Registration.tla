---------------------------- MODULE Registration ----------------------------
(***************************************************************************)
(* One e-mail address on its way to an account: signup with a confirmation *)
(* link, the invitation after a guest checkout, resends, social sign-in,   *)
(* accounts made by staff, and the guest orders an account takes over      *)
(* (modules/auth/auth.service.js, pendingRegistration.model.js,            *)
(* modules/order/order.link.js, modules/user/user.service.js).             *)
(*                                                                         *)
(* Every request reads, then writes, then mails; any other request may act *)
(* between two of its steps, and it may die at each.  A save names the row *)
(* by its id and fails when that is gone.                                  *)
(*                                                                         *)
(* A request that is refused before it writes is no step.  The minute      *)
(* between two resends may pass between any two steps.  Names, phones, and *)
(* the session that a new account gets are left out; a social profile      *)
(* whose account is there already changes nothing here.                    *)
(***************************************************************************)
EXTENDS Integers, FiniteSets

CONSTANTS
  Visitor,     \* requests in flight at a time
  GuestOrder,  \* orders placed by guests with this address
  MaxResends,  \* MAX_RESENDS
  MaxVisits    \* bound: requests in a behaviour

ASSUME RegistrationAssumption ==
  /\ MaxResends \in Nat /\ MaxVisits \in Nat

VARIABLES
  row,        \* the pending registration of the address
  users,      \* the accounts with the address, by number
  owner,      \* the guest orders that exist, and the account each belongs to
  at, work,   \* each request's next step and what it knows
  visits,     \* requests made
  tokens,     \* tokens minted
  rows,       \* rows made
  made,       \* accounts made
  mailed,     \* history: tokens that reached the inbox
  handed,     \* history: tokens handed to whoever followed a link
  missed,     \* history: tokens nobody got
  owed,       \* history: the orders without an owner when an account was made
  settled,    \* history: the accounts that have claimed theirs
  overlaid    \* history: a request saved over a row that had changed since it read it

database == <<row, users, owner>>
requests == <<at, work, visits>>
counters == <<tokens, rows, made>>
delivery == <<mailed, handed, missed>>
claims == <<owed, settled>>
registrationVars ==
  <<database, requests, counters, delivery, claims, overlaid>>

(* secret: the password hash, 0 when the row has none. *)
Row == [id : Nat, token : Nat, secret : Nat, verified : BOOLEAN, lapsed : BOOLEAN,
        resends : Nat]
NoRow == [id |-> 0, token |-> 0, secret |-> 0, verified |-> FALSE, lapsed |-> FALSE,
          resends |-> 0]

(* read: the row as it was read; token: the token to deliver; user: the    *)
(* account that was made.                                                  *)
Work == [op : {"none", "register", "invite", "resend", "verify", "complete", "social",
               "createUser"},
         read : Row, secret : Nat, token : Nat, user : Nat]
NoWork == [op |-> "none", read |-> NoRow, secret |-> 0, token |-> 0, user |-> 0]

RegistrationTypeOK ==
  /\ row \in Row /\ (row.id = 0 => row = NoRow) /\ row.id <= rows
  /\ users \subseteq 1..made
  /\ \A o \in DOMAIN owner : o \in GuestOrder /\ owner[o] \in 0..made
  /\ at \in [Visitor -> {"idle", "upserting", "mailing", "saving", "dropping", "checking",
                         "rotating", "handing", "creating", "clearing", "claiming"}]
  /\ work \in [Visitor -> Work]
  /\ visits \in 0..MaxVisits /\ tokens \in Nat /\ rows \in Nat /\ made \in Nat
  /\ mailed \cup handed \cup missed \subseteq 1..tokens
  /\ DOMAIN owed = 1..made /\ settled \subseteq 1..made
  /\ overlaid \in BOOLEAN

RegistrationInit ==
  /\ row = NoRow /\ users = {} /\ owner = [o \in {} |-> 0]
  /\ at = [v \in Visitor |-> "idle"] /\ work = [v \in Visitor |-> NoWork]
  /\ visits = 0 /\ tokens = 0 /\ rows = 0 /\ made = 0
  /\ mailed = {} /\ handed = {} /\ missed = {}
  /\ owed = [n \in {} |-> {}] /\ settled = {}
  /\ overlaid = FALSE

-------------------------------------------------------------------------------
(* Requests begin. *)

Arrives(v, op, next, w) ==
  /\ at[v] = "idle" /\ visits < MaxVisits
  /\ visits' = visits + 1
  /\ at' = [at EXCEPT ![v] = next]
  /\ work' = [work EXCEPT ![v] = [w EXCEPT !.op = op]]
  /\ UNCHANGED <<database, counters, delivery, claims, overlaid>>

NewSecret == visits + 1

(* Signing up is refused when there is an account, and so is inviting. *)
Register(v) ==
  users = {} /\ Arrives(v, "register", "upserting", [NoWork EXCEPT !.secret = NewSecret])

InviteAccountFromCheckout(v) ==
  users = {} /\ Arrives(v, "invite", "upserting", NoWork)

ResendVerification(v) ==
  /\ row # NoRow /\ row.resends < MaxResends
  /\ Arrives(v, "resend", "saving", [NoWork EXCEPT !.read = row])

(* Whoever got a token presents it. *)
Presented(t) == row # NoRow /\ row.token = t /\ t \in mailed \cup handed

AfterLookup == IF row.lapsed THEN "dropping" ELSE "checking"

VerifyEmail(v, t) ==
  /\ Presented(t)
  /\ Arrives(v, "verify", AfterLookup, [NoWork EXCEPT !.read = row, !.secret = row.secret])

CompleteRegistration(v, t) ==
  /\ Presented(t) /\ row.verified /\ row.secret = 0
  /\ Arrives(v, "complete", AfterLookup, [NoWork EXCEPT !.read = row, !.secret = NewSecret])

(* A profile that vouches for the address, not known here. *)
SocialLogin(v) == users = {} /\ Arrives(v, "social", "creating", NoWork)

CreateUser(v) ==
  users = {} /\ Arrives(v, "createUser", "creating", [NoWork EXCEPT !.secret = NewSecret])

-------------------------------------------------------------------------------
(* Requests go on. *)

Goes(v, next, w) ==
  /\ at' = [at EXCEPT ![v] = next]
  /\ work' = [work EXCEPT ![v] = IF next = "idle" THEN NoWork ELSE w]
  /\ UNCHANGED visits

Delivers(v, next) ==
  /\ tokens' = tokens + 1
  /\ Goes(v, next, [work[v] EXCEPT !.token = tokens + 1])

(* A signup keeps the mark that an earlier row was verified; an invitation *)
(* clears it, and the password.                                            *)
Upsert(v) ==
  /\ at[v] = "upserting"
  /\ row' = [id |-> IF row = NoRow THEN rows + 1 ELSE row.id,
             token |-> tokens + 1, secret |-> work[v].secret,
             verified |-> row.verified /\ work[v].op = "register",
             lapsed |-> FALSE, resends |-> 0]
  /\ rows' = IF row = NoRow THEN rows + 1 ELSE rows
  /\ Delivers(v, "mailing")
  /\ UNCHANGED <<users, owner, made, delivery, claims, overlaid>>

Mail(v) ==
  /\ at[v] = "mailing"
  /\ mailed' = mailed \cup {work[v].token}
  /\ Goes(v, "idle", NoWork)
  /\ UNCHANGED <<database, counters, handed, missed, claims, overlaid>>

(* The answer to verifyEmail. *)
Hand(v) ==
  /\ at[v] = "handing"
  /\ handed' = handed \cup {work[v].token}
  /\ Goes(v, "idle", NoWork)
  /\ UNCHANGED <<database, counters, mailed, missed, claims, overlaid>>

SaveResend(v) ==
  /\ at[v] = "saving" /\ row.id = work[v].read.id
  /\ row' = [row EXCEPT !.token = tokens + 1, !.lapsed = FALSE,
                        !.resends = work[v].read.resends + 1]
  /\ overlaid' = (overlaid \/ row # work[v].read)
  /\ Delivers(v, "mailing")
  /\ UNCHANGED <<users, owner, rows, made, delivery, claims>>

(* Mutant: a row with a password is not told apart. *)
RotateEvery(v) ==
  /\ at[v] = "checking"
  /\ Goes(v, IF users # {} THEN "dropping"
             ELSE IF work[v].op = "verify" THEN "rotating" ELSE "creating", work[v])
  /\ UNCHANGED <<database, counters, delivery, claims, overlaid>>

(* User.exists: an address that has an account by now loses the row. *)
CheckAddress(v) ==
  /\ at[v] = "checking"
  /\ Goes(v, IF users # {} THEN "dropping"
             ELSE IF work[v].secret = 0 THEN "rotating" ELSE "creating", work[v])
  /\ UNCHANGED <<database, counters, delivery, claims, overlaid>>

Rotate(v) ==
  /\ at[v] = "rotating" /\ row.id = work[v].read.id
  /\ row' = [row EXCEPT !.token = tokens + 1, !.verified = TRUE, !.lapsed = FALSE]
  /\ overlaid' = (overlaid \/ row # work[v].read)
  /\ Delivers(v, "handing")
  /\ UNCHANGED <<users, owner, rows, made, delivery, claims>>

(* DocumentNotFoundError. *)
SaveMisses(v) ==
  /\ at[v] \in {"saving", "rotating"} /\ row.id # work[v].read.id
  /\ Goes(v, "idle", NoWork)
  /\ UNCHANGED <<database, counters, delivery, claims, overlaid>>

(* Mutant: no unique index on users.email. *)
CreateAnyway(v) ==
  /\ at[v] = "creating"
  /\ made' = made + 1
  /\ users' = users \cup {made + 1}
  /\ owed' = [n \in 1..made + 1 |->
                IF n <= made THEN owed[n] ELSE {o \in DOMAIN owner : owner[o] = 0}]
  /\ Goes(v, IF work[v].op = "createUser" THEN "idle" ELSE "clearing",
          [work[v] EXCEPT !.user = made + 1])
  /\ UNCHANGED <<row, owner, tokens, rows, delivery, settled, overlaid>>

(* The unique index on users.email admits one. *)
CreateAccount(v) ==
  /\ at[v] = "creating" /\ users = {}
  /\ made' = made + 1
  /\ users' = users \cup {made + 1}
  /\ owed' = [n \in 1..made + 1 |->
                IF n <= made THEN owed[n] ELSE {o \in DOMAIN owner : owner[o] = 0}]
  /\ Goes(v, IF work[v].op = "createUser" THEN "idle" ELSE "clearing",
          [work[v] EXCEPT !.user = made + 1])
  /\ UNCHANGED <<row, owner, tokens, rows, delivery, settled, overlaid>>

CreateCollides(v) ==
  /\ at[v] = "creating" /\ users # {}
  /\ Goes(v, "idle", NoWork)
  /\ UNCHANGED <<database, counters, delivery, claims, overlaid>>

(* A link's request deletes the row it read, a social one the address's.   *)
Deleted(w) ==
  IF w.op = "social" \/ row.id = w.read.id THEN NoRow ELSE row

ClearRow(v) ==
  /\ at[v] \in {"clearing", "dropping"}
  /\ row' = Deleted(work[v])
  /\ Goes(v, IF at[v] = "clearing" THEN "claiming" ELSE "idle", work[v])
  /\ UNCHANGED <<users, owner, counters, delivery, claims, overlaid>>

(* Mutant: one order only is claimed. *)
ClaimOne(v) ==
  LET first == CHOOSE o \in DOMAIN owner : owner[o] = 0
  IN
  /\ at[v] = "claiming"
  /\ owner' = [o \in DOMAIN owner |->
                 IF owner[o] = 0 /\ o = first THEN work[v].user ELSE owner[o]]
  /\ settled' = settled \cup {work[v].user}
  /\ Goes(v, "idle", NoWork)
  /\ UNCHANGED <<row, users, counters, delivery, owed, overlaid>>

ClaimGuestOrders(v) ==
  /\ at[v] = "claiming"
  /\ owner' = [o \in DOMAIN owner |-> IF owner[o] = 0 THEN work[v].user ELSE owner[o]]
  /\ settled' = settled \cup {work[v].user}
  /\ Goes(v, "idle", NoWork)
  /\ UNCHANGED <<row, users, counters, delivery, owed, overlaid>>

(* The process dies, the mail server refuses, the claim fails: the request *)
(* ends where it is.                                                       *)
Fail(v) ==
  /\ at[v] # "idle"
  /\ missed' = IF at[v] \in {"mailing", "handing"} THEN missed \cup {work[v].token} ELSE missed
  /\ Goes(v, "idle", NoWork)
  /\ UNCHANGED <<database, counters, mailed, handed, claims, overlaid>>

-------------------------------------------------------------------------------
(* Others. *)

PlaceGuestOrder(o) ==
  /\ o \notin DOMAIN owner
  /\ owner' = [p \in DOMAIN owner \cup {o} |-> IF p = o THEN 0 ELSE owner[p]]
  /\ UNCHANGED <<row, users, requests, counters, delivery, claims, overlaid>>

(* An owner removes an account for good. *)
EraseAccount(n) ==
  /\ visits < MaxVisits /\ visits' = visits + 1
  /\ users' = users \ {n}
  /\ UNCHANGED <<row, owner, at, work, counters, delivery, claims, overlaid>>

(* Mutant: the rotation leaves no date of expiry. *)
LapseUnlessVerified ==
  /\ row # NoRow /\ ~row.lapsed /\ ~row.verified
  /\ row' = [row EXCEPT !.lapsed = TRUE]
  /\ UNCHANGED <<users, owner, requests, counters, delivery, claims, overlaid>>

Lapse ==
  /\ row # NoRow /\ ~row.lapsed
  /\ row' = [row EXCEPT !.lapsed = TRUE]
  /\ UNCHANGED <<users, owner, requests, counters, delivery, claims, overlaid>>

(* The TTL index. *)
Sweep ==
  /\ row # NoRow /\ row.lapsed
  /\ row' = NoRow
  /\ UNCHANGED <<users, owner, requests, counters, delivery, claims, overlaid>>

RegistrationNext ==
  \/ \E v \in Visitor :
       \/ Register(v) \/ InviteAccountFromCheckout(v) \/ ResendVerification(v)
       \/ \E t \in 1..tokens : VerifyEmail(v, t) \/ CompleteRegistration(v, t)
       \/ SocialLogin(v) \/ CreateUser(v)
       \/ Upsert(v) \/ Mail(v) \/ Hand(v) \/ SaveResend(v) \/ CheckAddress(v) \/ Rotate(v)
       \/ SaveMisses(v) \/ CreateAccount(v) \/ CreateCollides(v) \/ ClearRow(v)
       \/ ClaimGuestOrders(v) \/ Fail(v)
  \/ \E o \in GuestOrder : PlaceGuestOrder(o)
  \/ \E n \in users : EraseAccount(n)
  \/ Lapse \/ Sweep

(* Time passes and the database sweeps. *)
RegistrationFairness == WF_registrationVars(Lapse) /\ WF_registrationVars(Sweep)

RegistrationSpec == RegistrationInit /\ [][RegistrationNext]_registrationVars

-------------------------------------------------------------------------------
(* Properties. *)

(* However many ways in race for an address, it has one account at most:
   everyone looks first and inserts later (auth.service.js, verifyEmail,
   completeRegistration and socialLogin; user.service.js, createUser). *)
OneAccountPerAddress == Cardinality(users) <= 1

(* Once an account has claimed, no guest order placed before the account was
   made is without an owner (auth.service.js, afterAccountCreated). *)
PastOrdersAreClaimed ==
  \A n \in settled : \A o \in owed[n] : owner[o] # 0

(* Unless a request saved over a row that had changed, the token of the row
   that waits is where it has to be to go on: with whoever chooses a password
   when the address is proven and no password known, and in the inbox
   otherwise; or its delivery is under way or failed (auth.service.js,
   register, verifyEmail, inviteAccountFromCheckout, resendVerification). *)
SignupCanGoOn ==
  ~overlaid /\ row # NoRow =>
    \/ row.token \in mailed \cup missed
    \/ row.token \in handed /\ row.verified /\ row.secret = 0
    \/ \E v \in Visitor : at[v] \in {"mailing", "handing"} /\ work[v].token = row.token

(* A signup that nobody completes goes away and frees the address
   (pendingRegistration.model.js, the TTL index). *)
SignupsEvaporate == row # NoRow ~> row = NoRow

===============================================================================
