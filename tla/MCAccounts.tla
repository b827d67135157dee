------------------------------ MODULE MCAccounts ------------------------------
(***************************************************************************)
(* Small instances for TLC of what leads to an account and of what goes on *)
(* in one.  The two share no document here: a behaviour is one of a single *)
(* component, the other stands still.                                      *)
(***************************************************************************)
EXTENDS Sessions, Registration, TLC

VARIABLE side

AccountsInit ==
  Init /\ RegistrationInit /\ side \in {"sessions", "registration"}

SessionsSide ==
  side = "sessions" /\ Next /\ UNCHANGED <<registrationVars, side>>

RegistrationSide ==
  side = "registration" /\ RegistrationNext /\ UNCHANGED <<vars, side>>

AccountsNext == SessionsSide \/ RegistrationSide

AccountsSpec ==
  /\ AccountsInit /\ [][AccountsNext]_<<vars, registrationVars, side>>
  /\ RegistrationFairness

(* What is asked of every behaviour is about the registration, in which no
   request of the other side takes part: the symmetry does not bear on it. *)
Symmetry == Permutations(Request)

(* Every variable of the account's document, of the pending row, and of the
   requests about them has its type (auth.service.js, user.model.js,
   pendingRegistration.model.js). *)
AccountsTypeOK == TypeOK /\ RegistrationTypeOK

===============================================================================
