---------------------------- MODULE CategoryPanel ----------------------------
(***************************************************************************)
(* The tree that staff arrange by hand (src/frontend/components/panel/     *)
(* categories: category-tree.tsx, categories-view.tsx,                     *)
(* category-dialogs.tsx; hooks/use-admin-categories.ts) and the endpoints  *)
(* behind it (modules/category/category.service.js, filterGrouped, sort).  *)
(*                                                                         *)
(* The panel shows the tree as a list of rows, each as deep as its         *)
(* category.  A drop moves a row with all below it and sends the parent    *)
(* and the position of every row shown; an arrow sends one family.  A      *)
(* search thins the rows out, and so does the list itself, which has no    *)
(* drafts and nothing below one.  The endpoint's tests and writes are one  *)
(* step here; module Categories has what happens between them.  Categories *)
(* are numbered in the order of their names.  What else a category has is  *)
(* left out, and so are a position typed by hand and a form that stays     *)
(* open while the list is read again.                                      *)
(***************************************************************************)
EXTENDS Integers, Subsequences, FiniteSetsExt, Functions

CONSTANTS
  MaxNodes,     \* bound: categories
  MaxDepth,     \* MAX_DEPTH
  Panel,        \* open panels
  Mutation,     \* calls in flight at a time
  MaxMutations  \* bound: calls in a behaviour

ASSUME CategoryPanelAssumption ==
  MaxNodes \in Nat /\ MaxDepth \in Nat /\ MaxMutations \in Nat /\ Panel # {}

VARIABLES
  place,     \* the documents: parentId and sortOrder
  there,     \* the categories that exist
  archived,  \* those that did
  matches,   \* the categories in each panel's list that match its search
  panel,     \* what each panel shows, and whether nothing was written since
  mutation,  \* the calls
  mutations  \* calls made

documents == <<place, there, archived>>
categoryPanelVars == <<documents, matches, panel, mutation, mutations>>

Node == 1..MaxNodes
Top == 0

Place == [up : Node \cup {Top}, rank : 0..MaxNodes]
Places == UNION {[ids -> Place] : ids \in SUBSET Node}

FlatCategory == [id : Node, up : Node \cup {Top}, depth : Nat]

(* list: what the panel would show once the call is carried out; fresh:    *)
(* nothing was written since its panel was read.                           *)
MutationCall ==
  [kind : {"none", "sort", "edit", "create", "archive", "written"},
   places : Places,
   list : Seq(FlatCategory), by : Panel, fresh : BOOLEAN]

NoPlaces == [n \in {} |-> Top]
NothingShown == [known |-> NoPlaces, items |-> <<>>, fresh |-> FALSE]

NoMutation ==
  [kind |-> "none", places |-> NoPlaces, list |-> <<>>,
   by |-> CHOOSE p \in Panel : TRUE, fresh |-> FALSE]

CategoryPanelTypeOK ==
  /\ place \in [Node -> Place]
  /\ there \subseteq Node /\ archived \subseteq Node
  /\ matches \in [Panel -> SUBSET Node]
  /\ panel \in [Panel -> [known : Places, items : Seq(FlatCategory), fresh : BOOLEAN]]
  /\ mutation \in [Mutation -> MutationCall]
  /\ mutations \in 0..MaxMutations

AcyclicTree(places) ==
  ~\E S \in SUBSET DOMAIN places : S # {} /\ \A n \in S : places[n].up \in S

(* All but one are there, in any tree that nobody has sorted yet and whose *)
(* names go down with it.                                                  *)
CategoryPanelInit ==
  /\ there = Node \ {MaxNodes} /\ archived = {}
  /\ place \in [Node -> [up : there \cup {Top}, rank : {0}]]
  /\ \A n \in Node : place[n].up < n /\ (n \notin there => place[n].up = Top)
  /\ matches \in [Panel -> SUBSET Node]
  /\ panel = [p \in Panel |-> NothingShown]
  /\ mutation = [u \in Mutation |-> NoMutation]
  /\ mutations = 0

-------------------------------------------------------------------------------
(* What the endpoints make of the documents. *)

(* What matches a search, and the ancestors it is shown under. *)
Included(places, found) ==
  {n \in there :
     \A S \in SUBSET there :
       found \cap there \subseteq S /\ (\A m \in S : places[m].up \in S \cup {Top})
         => n \in S}

Children(places, up) == {n \in DOMAIN places : places[n].up = up}

(* The order in which filterGrouped reads a family. *)
Before(places, n, m) ==
  \/ places[n].rank < places[m].rank
  \/ places[n].rank = places[m].rank /\ n < m

First(places, family) ==
  CHOOSE n \in family : \A m \in family \ {n} : Before(places, n, m)

(* flattenTree: the first of a family, what is below it, the others; left  *)
(* is how many categories there may still be.                              *)
FlattenTree(places) ==
  LET flat[left \in 0..MaxNodes] ==
        [family \in SUBSET DOMAIN places |-> [depth \in Nat |->
           IF left = 0 \/ family = {} THEN <<>>
           ELSE LET n == First(places, family) IN
                <<[id |-> n, up |-> places[n].up, depth |-> depth]>>
                  \o flat[left - 1][Children(places, n)][depth + 1]
                  \o flat[left - 1][family \ {n}][depth]]]
  IN flat

Rows(places) == FlattenTree(places)[MaxNodes][Children(places, Top)][0]

-------------------------------------------------------------------------------
(* The list of rows. *)

(* The row at i and those below it. *)
ActiveBlock(list, i) ==
  LET end == Max({k \in i..Len(list) :
                    \A m \in i + 1..k : list[m].depth > list[i].depth})
  IN SubSeq(list, i, end)

ParentForDepth(rows, at, depth) ==
  LET over == {k \in 1..at : rows[k].depth < depth} IN
  IF over # {} /\ rows[Max(over)].depth = depth - 1 THEN rows[Max(over)].id ELSE Top

Deepest(rows, at) == IF at = 0 THEN 0 ELSE Min({rows[at].depth + 1, MaxDepth})

(* Mutant: the depth is bounded from above only. *)
DepthsUnbounded(rows, at) == -1..Deepest(rows, at)

(* How deep a row may come out, by how far to the side it is dragged. *)
Depths(rows, at) ==
  LET least == IF at = Len(rows) THEN 0 ELSE rows[at + 1].depth
  IN least..Max({least, Deepest(rows, at)})

(* The lists that come of dropping the row at i on the row at o. *)
Drops(list, i, o) ==
  LET block == ActiveBlock(list, i)
      rows == SubSeq(list, 1, i - 1) \o SubSeq(list, i + Len(block), Len(list))
      at == IF i < o THEN o - Len(block) ELSE o - 1
      Moved(depth) ==
        [k \in DOMAIN block |->
           [block[k] EXCEPT
              !.depth = @ + depth - list[i].depth,
              !.up = IF k = 1 THEN ParentForDepth(rows, at, depth) ELSE @]]
  IN {SubSeq(rows, 1, at) \o Moved(depth) \o SubSeq(rows, at + 1, Len(rows)) :
        depth \in Depths(rows, at)}

SortEntries(list) ==
  [n \in {list[k].id : k \in DOMAIN list} |->
     LET k == CHOOSE k \in DOMAIN list : list[k].id = n
     IN [up |-> list[k].up,
         rank |-> Cardinality({m \in 1..k - 1 : list[m].up = list[k].up})]]

-------------------------------------------------------------------------------
(* What staff do. *)

Fetch(p) ==
  LET known == Restrict(place, Included(place, matches[p])) IN
  /\ panel' = [panel EXCEPT ![p] =
       [known |-> known, items |-> Rows(known), fresh |-> TRUE]]
  /\ UNCHANGED <<documents, matches, mutation, mutations>>

Sends(u, p, kind, places, list) ==
  /\ mutation[u] = NoMutation /\ mutations < MaxMutations
  /\ mutations' = mutations + 1
  /\ mutation' = [mutation EXCEPT ![u] =
       [kind |-> kind, places |-> places, list |-> list, by |-> p,
        fresh |-> panel[p].fresh]]
  /\ UNCHANGED <<documents, matches, panel>>

OnDragEnd(u, p, i, o) ==
  LET list == panel[p].items IN
  /\ o \notin i..i + Len(ActiveBlock(list, i)) - 1
  /\ \E dropped \in Drops(list, i, o) :
       Sends(u, p, "sort", SortEntries(dropped), dropped)

(* The row at i, or its upper neighbour, moves past the other; what        *)
(* is sent is their family.                                                *)
Nudge(u, p, i) ==
  LET list == panel[p].items
      family == {k \in DOMAIN list : list[k].up = list[i].up}
      j == Max({k \in family : k < i})
      mine == ActiveBlock(list, i)
      swapped == SubSeq(list, 1, j - 1) \o mine \o ActiveBlock(list, j)
                   \o SubSeq(list, i + Len(mine), Len(list))
  IN
  /\ i # Min(family)
  /\ Sends(u, p, "sort",
           Restrict(SortEntries(swapped), {list[k].id : k \in family}), swapped)

(* The form of a category, which offers every parent that is not below it  *)
(* and sends the position along that it was opened with.                   *)
SaveCategory(u, p, i, to) ==
  LET list == panel[p].items
      id == list[i].id
  IN
  /\ to \in (DOMAIN panel[p].known \cup {Top})
             \ {row.id : row \in Range(ActiveBlock(list, i))}
  /\ Sends(u, p, "edit",
           [n \in {id} |-> [panel[p].known[n] EXCEPT !.up = to]], <<>>)

NewCategory(u, p, to) ==
  /\ to \in DOMAIN panel[p].known \cup {Top}
  /\ \E id \in Node \ (there \cup archived) :
       /\ \A v \in Mutation : id \notin DOMAIN mutation[v].places
       /\ Sends(u, p, "create", [n \in {id} |-> [up |-> to, rank |-> 0]], <<>>)

ArchiveCategory(u, p, id) ==
  /\ id \in DOMAIN panel[p].known
  /\ Sends(u, p, "archive", [n \in {id} |-> panel[p].known[n]], <<>>)

-------------------------------------------------------------------------------
(* What the API and the panel make of a call. *)

After(call) ==
  [n \in Node |-> IF n \in DOMAIN call.places THEN call.places[n] ELSE place[n]]

Allows(call) ==
  LET ids == DOMAIN call.places IN
  CASE call.kind = "archive" ->
         ids \subseteq there /\ \A n \in there : place[n].up \notin ids
    [] call.kind = "create" -> \A n \in ids : call.places[n].up \in there \cup {Top}
    [] OTHER ->
         /\ ids \subseteq there
         /\ \A n \in ids : call.places[n].up \in there \cup {Top}
         /\ AcyclicTree(Restrict(After(call), there))

(* Whatever was read or sent before is out of date then. *)
CarryOut(u) ==
  LET call == mutation[u]
      ids == DOMAIN call.places
  IN
  /\ call.kind \notin {"none", "written"} /\ Allows(call)
  /\ place' = IF call.kind = "archive" THEN place ELSE After(call)
  /\ there' = IF call.kind = "archive" THEN there \ ids ELSE there \cup ids
  /\ archived' = IF call.kind = "archive" THEN archived \cup ids ELSE archived
  /\ panel' = [p \in Panel |-> [panel[p] EXCEPT !.fresh = FALSE]]
  /\ mutation' = [v \in Mutation |->
       IF v = u THEN [NoMutation EXCEPT !.kind = "written", !.by = call.by]
       ELSE [mutation[v] EXCEPT !.fresh = FALSE]]
  /\ UNCHANGED <<matches, mutations>>

Refused(u) ==
  /\ mutation[u].kind \notin {"none", "written"} /\ ~Allows(mutation[u])
  /\ mutation' = [mutation EXCEPT ![u] = NoMutation]
  /\ UNCHANGED <<documents, matches, panel, mutations>>

(* The panel shows nothing until it has read the tree again. *)
Succeeded(u) ==
  /\ mutation[u].kind = "written"
  /\ panel' = [panel EXCEPT ![mutation[u].by] = NothingShown]
  /\ mutation' = [mutation EXCEPT ![u] = NoMutation]
  /\ UNCHANGED <<documents, matches, mutations>>

CategoryPanelNext ==
  \/ \E p \in Panel :
       \/ Fetch(p)
       \/ \E u \in Mutation :
            \/ \E i, o \in DOMAIN panel[p].items : OnDragEnd(u, p, i, o)
            \/ \E i \in DOMAIN panel[p].items :
                 Nudge(u, p, i) \/ \E to \in Node \cup {Top} : SaveCategory(u, p, i, to)
            \/ \E to \in Node \cup {Top} : NewCategory(u, p, to)
            \/ \E id \in Node : ArchiveCategory(u, p, id)
  \/ \E u \in Mutation : CarryOut(u) \/ Refused(u) \/ Succeeded(u)

CategoryPanelSpec == CategoryPanelInit /\ [][CategoryPanelNext]_categoryPanelVars

-------------------------------------------------------------------------------
(* Properties. *)

(* The rows of a list whose category is one of these. *)
Of(list, ids) == Picked(list, {k \in DOMAIN list : list[k].id \in ids})

(* The categories that a call's list has a row for. *)
Shown(call) == {row.id : row \in Range(call.list)}

(* What the panel of a sort reads once the call is carried out. *)
Read(call) == Included(After(call), matches[call.by])

(* What staff see under the pointer is what they get.  On a list that is up
   to date no call is refused but one to archive what has children, and the
   tree that the panel reads after a drop or an arrow, under its search, is
   the list it had shown, row by row, less the rows that the search no longer
   reaches.  A drop on a list that is out of date, through a colleague or
   through this panel's own last call, is refused or wins: the categories it
   had shown come out as it had shown them, among those that have come since.
   Of an arrow on a list that is out of date this says nothing, unless the
   list is one family.  A list is up to date while nothing at all is written
   (category-tree.tsx, projection, applyProjection, sortEntries;
   category.service.js, sort and filterGrouped). *)
DropsLandAsShown ==
  \A u \in Mutation :
    LET call == mutation[u] IN
    /\ call.fresh /\ call.kind # "archive" => Allows(call)
    /\ call.fresh /\ call.kind = "sort" => Read(call) \subseteq Shown(call)
    /\ call.kind = "sort" /\ Allows(call)
         /\ (call.fresh \/ DOMAIN call.places = Shown(call))
       => Of(Rows(Restrict(After(call), Read(call))), Shown(call))
            = Of(call.list, Read(call))

===============================================================================
