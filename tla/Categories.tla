----------------------------- MODULE Categories -----------------------------
(***************************************************************************)
(* The category tree under concurrent edits                                *)
(* (modules/category/category.service.js).                                 *)
(*                                                                         *)
(* A create or an update tests its parent by reading the ancestors one at  *)
(* a time, sort reads the whole tree at once, remove looks for a child.    *)
(* Each saves later, naming the category by its id alone.  A sort writes   *)
(* in a transaction where the database has them.                           *)
(*                                                                         *)
(* A call that is refused before its first wait is no step.  Names, slugs, *)
(* the order among siblings and attributes are left out.                   *)
(***************************************************************************)
EXTENDS Integers, FiniteSets

CONSTANTS
  Category,
  Existing,  \* the categories that are there at first
  Root,      \* no parent
  Editor,    \* calls in flight at a time
  MaxEdits,  \* bound: calls in a behaviour
  MaxMoves   \* bound: categories a sort moves

ASSUME CategoriesAssumption ==
  /\ Existing \subseteq Category /\ Root \notin Category
  /\ MaxEdits \in Nat /\ MaxMoves \in Nat

VARIABLES
  parent, state,   \* the documents: parentId, and whether they are there
  transactional,   \* the deployment supports transactions
  step, edit,      \* each call's next step and what it knows
  edits,           \* calls made
  crossed          \* history: a call saved after another had saved since it began

tree == <<parent, state>>
categoriesVars == <<tree, transactional, step, edit, edits, crossed>>

Parent == Category \cup {Root}

(* next: the ancestor to read next; seen: those read; moves: what a sort   *)
(* has left to write; overtaken: another call saved since this one began.  *)
Edit == [op : {"create", "update", "sort", "remove"}, id : Parent, to : Parent,
         next : Parent, seen : SUBSET Category,
         moves : UNION {[ids -> Parent] : ids \in SUBSET Category},
         overtaken : BOOLEAN]

NewEdit(op, id, to) ==
  [op |-> op, id |-> id, to |-> to, next |-> to, seen |-> {},
   moves |-> [c \in {} |-> Root], overtaken |-> FALSE]

NoEdit == NewEdit("create", Root, Root)

CategoriesTypeOK ==
  /\ parent \in [Category -> Parent]
  /\ state \in [Category -> {"absent", "live", "removed"}]
  /\ transactional \in BOOLEAN
  /\ step \in [Editor -> {"idle", "walking", "saving", "sorting", "removing"}]
  /\ edit \in [Editor -> Edit]
  /\ edits \in 0..MaxEdits
  /\ crossed \in BOOLEAN

(* None is below another. *)
CategoriesInit ==
  /\ parent = [c \in Category |-> Root]
  /\ state = [c \in Category |-> IF c \in Existing THEN "live" ELSE "absent"]
  /\ transactional \in BOOLEAN
  /\ step = [e \in Editor |-> "idle"]
  /\ edit = [e \in Editor |-> NoEdit]
  /\ edits = 0 /\ crossed = FALSE

Live == {c \in Category : state[c] = "live"}

(* From every category of a set one can leave the set upwards somewhere:   *)
(* following the parents never returns.                                    *)
AcyclicOn(cats, up) ==
  \A S \in SUBSET cats : S # {} => \E c \in S : up[c] \notin S

-------------------------------------------------------------------------------
(* Calls begin. *)

Begin(e, next, d) ==
  /\ step[e] = "idle" /\ edits < MaxEdits
  /\ edits' = edits + 1
  /\ step' = [step EXCEPT ![e] = next]
  /\ edit' = [edit EXCEPT ![e] = d]
  /\ UNCHANGED <<tree, transactional, crossed>>

AfterParent(to) == IF to = Root THEN "saving" ELSE "walking"

Create(e, to) == Begin(e, AfterParent(to), NewEdit("create", Root, to))

Update(e, c, to) ==
  /\ c \in Live /\ to # c
  /\ Begin(e, AfterParent(to), NewEdit("update", c, to))

(* Mutant: the tree the moves would make is not tested. *)
SortUntested(e, moves) ==
  /\ Begin(e, "sorting", [NewEdit("sort", Root, Root) EXCEPT !.moves = moves])
  /\ DOMAIN moves \subseteq Live
  /\ \A c \in DOMAIN moves : moves[c] \in (Live \cup {Root}) \ {c}

Sort(e, moves) ==
  /\ Begin(e, "sorting", [NewEdit("sort", Root, Root) EXCEPT !.moves = moves])
  /\ DOMAIN moves \subseteq Live
  /\ \A c \in DOMAIN moves : moves[c] \in (Live \cup {Root}) \ {c}
  /\ AcyclicOn(Live, [c \in Category |-> IF c \in DOMAIN moves THEN moves[c]
                                         ELSE parent[c]])

(* Mutant: children are not looked for. *)
RemoveUnlooked(e, c) ==
  c \in Live /\ Begin(e, "removing", NewEdit("remove", c, Root))

Remove(e, c) ==
  /\ c \in Live /\ \A d \in Live : parent[d] # c
  /\ Begin(e, "removing", NewEdit("remove", c, Root))

-------------------------------------------------------------------------------
(* Calls go on. *)

End(e) ==
  /\ step' = [step EXCEPT ![e] = "idle"]
  /\ edit' = [edit EXCEPT ![e] = NoEdit]

(* Mutant: an ancestor is not compared with the category that moves. *)
RefusesNothing(e) ==
  edit[e].seen = {} /\ state[edit[e].next] # "live"

(* The parent does not exist, or is below the category that moves. *)
Refuses(e) ==
  \/ edit[e].next = edit[e].id
  \/ edit[e].seen = {} /\ state[edit[e].next] # "live"

(* One turn of validateParent's loop.  An ancestor that is not found ends  *)
(* it as the top does.                                                     *)
Walk(e) ==
  LET n == edit[e].next
      up == IF state[n] = "live" THEN parent[n] ELSE Root
  IN
  /\ step[e] = "walking"
  /\ \/ Refuses(e) /\ End(e)
     \/ /\ ~Refuses(e)
        /\ edit' = [edit EXCEPT ![e].seen = @ \cup {n}, ![e].next = up]
        /\ step' = [step EXCEPT ![e] = AfterParent(up)]
  /\ UNCHANGED <<tree, transactional, edits, crossed>>

(* The tree was written by e, which goes on with d. *)
SaveGoesOn(e, d) ==
  /\ edit' = [f \in Editor |-> IF f = e THEN d
                              ELSE [edit[f] EXCEPT !.overtaken = step[f] # "idle"]]
  /\ step' = [step EXCEPT ![e] = IF d = NoEdit THEN "idle" ELSE @]
  /\ crossed' = (crossed \/ edit[e].overtaken)
  /\ UNCHANGED <<transactional, edits>>

Saved(e) == SaveGoesOn(e, NoEdit)

SaveCreate(e) ==
  /\ step[e] = "saving" /\ edit[e].op = "create"
  /\ \E c \in Category :
       /\ state[c] = "absent"
       /\ state' = [state EXCEPT ![c] = "live"]
       /\ parent' = [parent EXCEPT ![c] = edit[e].to]
  /\ Saved(e)

SaveUpdate(e) ==
  /\ step[e] = "saving" /\ edit[e].op = "update"
  /\ parent' = [parent EXCEPT ![edit[e].id] = edit[e].to]
  /\ Saved(e)
  /\ UNCHANGED state

(* A move finds its category only while that is live. *)
Moved(moves) ==
  [c \in Category |-> IF c \in DOMAIN moves /\ c \in Live THEN moves[c] ELSE parent[c]]

SaveSort(e) ==
  /\ step[e] = "sorting" /\ transactional
  /\ parent' = Moved(edit[e].moves)
  /\ Saved(e)
  /\ UNCHANGED state

(* Without transactions the moves are written one after the other. *)
SaveMove(e) ==
  LET moves == edit[e].moves
      Only(ids) == [c \in ids |-> moves[c]]
  IN
  /\ step[e] = "sorting" /\ ~transactional
  /\ \E c \in DOMAIN moves :
       /\ parent' = Moved(Only({c}))
       /\ SaveGoesOn(e, IF DOMAIN moves = {c} THEN NoEdit
                        ELSE [edit[e] EXCEPT !.moves = Only(DOMAIN moves \ {c})])
  /\ UNCHANGED state

SaveRemove(e) ==
  /\ step[e] = "removing" /\ edit[e].id \in Live
  /\ state' = [state EXCEPT ![edit[e].id] = "removed"]
  /\ Saved(e)
  /\ UNCHANGED parent

(* The process dies, or the database refuses: the call ends where it is.   *)
Abandon(e) ==
  /\ step[e] # "idle"
  /\ End(e)
  /\ UNCHANGED <<tree, transactional, edits, crossed>>

CategoriesNext ==
  \E e \in Editor :
    \/ \E to \in Parent : Create(e, to)
    \/ \E c \in Category, to \in Parent : Update(e, c, to)
    \/ \E ids \in SUBSET Category \ {{}} :
         Cardinality(ids) <= MaxMoves /\ \E moves \in [ids -> Parent] : Sort(e, moves)
    \/ \E c \in Category : Remove(e, c)
    \/ Walk(e) \/ SaveCreate(e) \/ SaveUpdate(e) \/ SaveSort(e) \/ SaveMove(e)
    \/ SaveRemove(e) \/ Abandon(e)

(* A call whose query was answered goes on. *)
CategoriesFairness == \A e \in Editor : WF_categoriesVars(Walk(e))

CategoriesSpec == CategoriesInit /\ [][CategoriesNext]_categoriesVars

-------------------------------------------------------------------------------
(* Properties.  They are about deployments with transactions in which no   *)
(* call saved on a tree that another had changed since it began to read.   *)

Undisturbed == transactional /\ ~crossed

Acyclic == AcyclicOn(Live, parent)
ParentsLive == \A c \in Live : parent[c] \in Live \cup {Root}

(* No category is its own ancestor, although a move is tested one ancestor at
   a time and a sort moves many at once, and none is below a removed one
   (category.service.js, validateParent, sort and remove). *)
TreeStands == Undisturbed => Acyclic /\ ParentsLive

(* A call that walks up the tree comes to an end: there is no cycle to walk
   in (category.service.js, the loop of validateParent, which has no other
   bound). *)
WalksEnd ==
  transactional =>
    \A e \in Editor : step[e] = "walking" ~> (step[e] # "walking" \/ crossed)

===============================================================================
