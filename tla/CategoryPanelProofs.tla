------------------------- MODULE CategoryPanelProofs --------------------------
(***************************************************************************)
(* Proofs about module CategoryPanel, for any number of categories, panels *)
(* and calls.  A list of rows determines the parents and the order of its  *)
(* categories (ListsAll); flattenTree makes one list of a tree, and that   *)
(* list (RowsList, ListedIsRows); a drop and an arrow make another list    *)
(* that is one (DropIsMove, SwappedNested); and writing the positions of   *)
(* that list, or of one family of it, makes its tree (SortListsAll,        *)
(* FamilySorted).                                                          *)
(***************************************************************************)
EXTENDS CategoryPanel, SubsequencesProofs

-------------------------------------------------------------------------------
(* The rows of the category panel. *)

(* The row at j is the parent of the one at k. *)
ParentOf(list, j, k) ==
  /\ list[j].id = list[k].up /\ list[k].depth = list[j].depth + 1
  /\ \A m \in j + 1..k - 1 : list[m].depth > list[j].depth

WellNested(list) ==
  /\ list \in Seq(FlatCategory)
  /\ \A j, k \in DOMAIN list : list[j].id = list[k].id => j = k
  /\ \A k \in DOMAIN list :
       \/ list[k].depth = 0 /\ list[k].up = Top
       \/ \E j \in 1..k - 1 : ParentOf(list, j, k)

Ids(list) == {list[k].id : k \in DOMAIN list}

(* The rows of these categories, in the order of their positions. *)
ListsAll(list, places) ==
  /\ WellNested(list) /\ Ids(list) = DOMAIN places
  /\ \A k \in DOMAIN list : list[k].up = places[list[k].id].up
  /\ \A j, k \in DOMAIN list :
       j < k /\ list[j].up = list[k].up => Before(places, list[j].id, list[k].id)

(* A bounded set of naturals has a greatest element. *)
LEMMA GreatestNumber ==
  ASSUME NEW len \in Nat, NEW P, P \subseteq 0..len, P # {}
  PROVE  Max(P) \in P /\ \A j \in P : j <= Max(P)
<1> DEFINE T == {len - j : j \in P}
<1>1. T \subseteq Nat /\ T # {}
  <2>1. \A j \in P : j \in 0..len /\ len - j \in Nat
    OBVIOUS
  <2>2. QED
    BY <2>1
<1>2. PICK m \in T : \A n \in T : m <= n
  BY <1>1, LeastNatural
<1>3. PICK i \in P : m = len - i
  BY <1>2
<1>4. ASSUME NEW j \in P
      PROVE  i >= j
  <2>1. j \in 0..len /\ i \in 0..len
    OBVIOUS
  <2>2. m <= len - j
    BY <1>2
  <2>3. QED
    BY <1>3, <2>1, <2>2
<1>5. QED
  BY <1>3, <1>4 DEF Max

(* What a row is made of. *)
LEMMA RowFields ==
  ASSUME NEW list \in Seq(FlatCategory), NEW k \in DOMAIN list
  PROVE  /\ k \in 1..Len(list) /\ Len(list) \in Nat
         /\ list[k] \in FlatCategory
         /\ list[k].id \in Nat \ {0} /\ list[k].id \in Node
         /\ list[k].up \in Nat /\ list[k].depth \in Nat
<1>1. list[k] \in FlatCategory /\ k \in 1..Len(list) /\ Len(list) \in Nat
  OBVIOUS
<1>2. list[k].id \in Node /\ list[k].up \in Node \cup {Top} /\ list[k].depth \in Nat
  BY <1>1 DEF FlatCategory
<1>3. \A n \in Node : n \in Nat \ {0}
  BY CategoryPanelAssumption DEF Node
<1>4. QED
  BY <1>1, <1>2, <1>3 DEF Top

(* A row is at most one deeper than the one before it, the first at the top. *)
LEMMA StepByOne ==
  ASSUME NEW list, WellNested(list), NEW k \in DOMAIN list
  PROVE  /\ k = 1 => list[k].depth = 0
         /\ k > 1 => list[k].depth <= list[k - 1].depth + 1
<1>1. list \in Seq(FlatCategory)
  BY DEF WellNested
<1>2. k \in 1..Len(list) /\ Len(list) \in Nat /\ DOMAIN list = 1..Len(list)
  BY <1>1
<1>3. \A m \in 1..Len(list) : list[m].depth \in Nat
  BY <1>1, <1>2, RowFields
<1>4. CASE list[k].depth = 0
  <2>1. k > 1 => list[k - 1].depth \in Nat
    BY <1>2, <1>3
  <2>2. QED
    BY <1>4, <2>1
<1>5. CASE \E j \in 1..k - 1 : ParentOf(list, j, k)
  <2>1. PICK j \in 1..k - 1 : ParentOf(list, j, k)
    BY <1>5
  <2>2. list[j].depth \in Nat /\ list[k - 1].depth \in Nat
    BY <1>2, <1>3, <2>1
  <2>3. CASE j = k - 1
    BY <2>1, <2>2, <2>3, <1>2 DEF ParentOf
  <2>4. CASE j # k - 1
    <3>1. k - 1 \in j + 1..k - 1
      BY <2>4, <1>2
    <3>2. list[k - 1].depth > list[j].depth
      BY <3>1, <2>1 DEF ParentOf
    <3>3. QED
      BY <3>2, <2>1, <2>2, <1>2 DEF ParentOf
  <2>5. QED
    BY <2>3, <2>4
<1>6. QED
  BY <1>4, <1>5 DEF WellNested

(* Whose up a row names is its parent; a row at the top names none. *)
LEMMA NamedIsParent ==
  ASSUME NEW list, WellNested(list), NEW k \in DOMAIN list
  PROVE  /\ \A j \in DOMAIN list :
              list[j].id = list[k].up => j \in 1..k - 1 /\ ParentOf(list, j, k)
         /\ list[k].up = Top <=> list[k].depth = 0
         /\ list[k].up # Top => \E j \in 1..k - 1 : ParentOf(list, j, k)
<1>1. list \in Seq(FlatCategory) /\ DOMAIN list = 1..Len(list) /\ Len(list) \in Nat
  BY DEF WellNested
<1>2. \A m \in DOMAIN list : list[m].depth \in Nat /\ list[m].id \in Nat \ {0}
  BY <1>1, RowFields
<1>3. CASE list[k].depth = 0 /\ list[k].up = Top
  BY <1>2, <1>3 DEF Top
<1>4. CASE \E j \in 1..k - 1 : ParentOf(list, j, k)
  <2>1. PICK j \in 1..k - 1 : ParentOf(list, j, k)
    BY <1>4
  <2>2. j \in DOMAIN list
    BY <1>1, <2>1
  <2>3. list[k].depth # 0 /\ list[k].up # Top
    BY <1>2, <2>1, <2>2 DEF ParentOf, Top
  <2>4. \A i \in DOMAIN list : list[i].id = list[k].up => i = j
    BY <2>1, <2>2 DEF ParentOf, WellNested
  <2>5. QED
    BY <2>1, <2>3, <2>4
<1>5. QED
  BY <1>3, <1>4 DEF WellNested

(* The rows of a family are equally deep. *)
LEMMA FamilyDepth ==
  ASSUME NEW list, WellNested(list), NEW j \in DOMAIN list, NEW k \in DOMAIN list,
         list[j].up = list[k].up
  PROVE  list[j].depth = list[k].depth
<1>1. CASE list[k].up = Top
  BY <1>1, NamedIsParent
<1>2. CASE list[k].up # Top
  <2>1. PICK p \in 1..k - 1 : ParentOf(list, p, k)
    BY <1>2, NamedIsParent
  <2>2. p \in DOMAIN list
    BY <2>1 DEF WellNested
  <2>3. ParentOf(list, p, j)
    BY <2>1, <2>2, NamedIsParent DEF ParentOf
  <2>4. QED
    BY <2>1, <2>3 DEF ParentOf
<1>3. QED
  BY <1>1, <1>2

(* Where the block of a row ends. *)
EndsBlock(list, i, b) ==
  /\ b \in i..Len(list)
  /\ \A m \in i + 1..b : list[m].depth > list[i].depth
  /\ b = Len(list) \/ list[b + 1].depth <= list[i].depth

LEMMA BlockEnds ==
  ASSUME NEW list \in Seq(FlatCategory), NEW i \in DOMAIN list
  PROVE  \E b \in i..Len(list) :
           ActiveBlock(list, i) = SubSeq(list, i, b) /\ EndsBlock(list, i, b)
<1> DEFINE K == {k \in i..Len(list) : \A m \in i + 1..k : list[m].depth > list[i].depth}
<1>1. i \in 1..Len(list) /\ Len(list) \in Nat
  OBVIOUS
<1>2. i \in K /\ K \subseteq 0..Len(list)
  BY <1>1
<1>3. PICK b \in i..Len(list) : b = Max(K) /\ b \in K /\ \A k \in K : k <= b
  <2> HIDE DEF K
  <2>1. Max(K) \in K /\ \A k \in K : k <= Max(K)
    BY <1>1, <1>2, GreatestNumber
  <2>2. K \subseteq i..Len(list)
    BY DEF K
  <2>3. QED
    BY <2>1, <2>2
<1>4. ActiveBlock(list, i) = SubSeq(list, i, b)
  BY <1>3 DEF ActiveBlock
<1>5. ASSUME b # Len(list), ~(list[b + 1].depth <= list[i].depth)
      PROVE  FALSE
  <2>1. b + 1 \in i..Len(list) /\ b + 1 \in DOMAIN list
    BY <1>1, <1>3, <1>5
  <2>2. list[b + 1].depth > list[i].depth
    BY <1>5, <2>1, RowFields
  <2>3. \A m \in i + 1..b + 1 : list[m].depth > list[i].depth
    BY <2>2, <1>1, <1>3
  <2>4. b + 1 \in K
    BY <2>1, <2>3
  <2>5. QED
    BY <2>4, <1>3, <1>1
<1>6. QED
  BY <1>3, <1>4, <1>5 DEF EndsBlock

-------------------------------------------------------------------------------
(* FlattenTree. *)

(* What it makes of what it made with one category less. *)
Level(places, fewer, left) ==
  [family \in SUBSET DOMAIN places |-> [depth \in Nat |->
     IF left = 0 \/ family = {} THEN <<>>
     ELSE LET n == First(places, family) IN
          <<[id |-> n, up |-> places[n].up, depth |-> depth]>>
            \o fewer[Children(places, n)][depth + 1]
            \o fewer[family \ {n}][depth]]]

LEMMA FlattenLevels ==
  ASSUME NEW places
  PROVE  FlattenTree(places) =
           [left \in 0..MaxNodes |-> Level(places, FlattenTree(places)[left - 1], left)]
<1> DEFINE Upto(n, f) == f = [left \in 0..n |-> Level(places, f[left - 1], left)]
           Fails == {n \in 0..MaxNodes : ~\E f : Upto(n, f)}
<1>1. MaxNodes \in Nat
  BY CategoryPanelAssumption
<1>2. FlattenTree(places) = CHOOSE flat : flat = [left \in 0..MaxNodes |-> Level(places, flat[left - 1], left)]
  BY DEF FlattenTree, Level
<1>3. \A x, y : Level(places, x, 0) = Level(places, y, 0)
  BY DEF Level
<1>4. ASSUME Fails # {}
      PROVE  FALSE
  <2>1. PICK n \in Fails : \A m \in Fails : n <= m
    <3>1. Fails \subseteq Nat
      BY <1>1
    <3> HIDE DEF Fails
    <3>2. QED
      BY <3>1, <1>4, LeastNatural
  <2>2. n \in 0..MaxNodes /\ ~\E f : Upto(n, f)
    OBVIOUS
  <2>3. CASE n = 0
    <3> DEFINE f == [left \in 0..0 |-> Level(places, <<>>, 0)]
    <3>1. \A left \in 0..0 : left = 0
      OBVIOUS
    <3>2. \A left \in 0..0 : f[left] = Level(places, f[left - 1], left)
      <4> TAKE left \in 0..0
      <4>1. f[left] = Level(places, <<>>, 0)
        OBVIOUS
      <4>2. Level(places, <<>>, 0) = Level(places, f[left - 1], 0)
        BY <1>3
      <4>3. QED
        BY <4>1, <4>2, <3>1
    <3>3. f = [left \in 0..0 |-> Level(places, f[left - 1], left)]
      BY <3>2
    <3> HIDE DEF f
    <3>4. QED
      BY <2>2, <2>3, <3>3
  <2>4. CASE n # 0
    <3>1. n - 1 \in 0..MaxNodes /\ n - 1 \notin Fails
      BY <1>1, <2>1, <2>2, <2>4
    <3>2. PICK f : Upto(n - 1, f)
      BY <3>1
    <3> DEFINE g == [left \in 0..n |-> IF left = n THEN Level(places, f[n - 1], n) ELSE f[left]]
    <3>3. \A left \in 0..n : g[left] = Level(places, g[left - 1], left)
      <4> TAKE left \in 0..n
      <4>1. CASE left = n
        <5>1. n - 1 \in 0..n /\ n - 1 # n /\ n \in 0..n
          BY <1>1, <2>2, <2>4
        <5>2. g[n - 1] = f[n - 1]
          BY <5>1
        <5>3. g[n] = Level(places, f[n - 1], n)
          BY <5>1
        <5>4. QED
          BY <5>2, <5>3, <4>1
      <4>2. CASE left # n /\ left # 0
        <5>1. left \in 0..n - 1 /\ left - 1 \in 0..n /\ left - 1 # n
          BY <4>2, <1>1, <2>2
        <5>2. f[left] = Level(places, f[left - 1], left)
          BY <5>1, <3>2
        <5>3. g[left] = f[left] /\ g[left - 1] = f[left - 1]
          BY <5>1, <4>2
        <5>4. QED
          BY <5>2, <5>3
      <4>3. CASE left # n /\ left = 0
        <5>1. 0 \in 0..n - 1
          BY <2>2, <2>4
        <5>2. f[0] = Level(places, f[0 - 1], 0)
          BY <5>1, <3>2
        <5>3. g[left] = f[0]
          BY <4>3
        <5>4. QED
          BY <5>2, <5>3, <1>3, <4>3
      <4>4. QED
        BY <4>1, <4>2, <4>3
    <3>4. g = [left \in 0..n |-> Level(places, g[left - 1], left)]
      BY <3>3
    <3> HIDE DEF g
    <3>5. QED
      BY <2>2, <3>4
  <2>5. QED
    BY <2>3, <2>4
<1>5. \E f : Upto(MaxNodes, f)
  BY <1>4, <1>1
<1>6. QED
  BY <1>2, <1>5

(* Before orders any two categories. *)
LEMMA BeforeOrders ==
  ASSUME NEW places \in Places, NEW n \in DOMAIN places, NEW m \in DOMAIN places
  PROVE  /\ n # m => Before(places, n, m) \/ Before(places, m, n)
         /\ ~(Before(places, n, m) /\ Before(places, m, n))
         /\ \A q \in DOMAIN places :
              Before(places, n, m) /\ Before(places, m, q) => Before(places, n, q)
<1>1. \A q \in DOMAIN places : q \in Nat /\ places[q].rank \in Nat
  <2>1. PICK ids \in SUBSET Node : places \in [ids -> Place]
    BY DEF Places
  <2>2. \A q \in ids : q \in 1..MaxNodes /\ places[q].rank \in 0..MaxNodes
    BY <2>1 DEF Place, Node
  <2>3. QED
    BY <2>1, <2>2, CategoryPanelAssumption
<1>2. QED
  BY <1>1 DEF Before

(* A list of all rows lists them as FlattenTree does: where a family ends,
   with left enough for the rows up to there. *)
TailOf(list, i, e, depth) ==
  /\ i \in 1..Len(list) + 1 /\ e \in i - 1..Len(list) /\ depth \in Nat
  /\ \A m \in i..e : list[m].depth >= depth
  /\ i <= e => list[i].depth = depth
  /\ \A m, k \in i..e : list[m].depth = depth /\ list[k].depth = depth => list[m].up = list[k].up
  /\ e < Len(list) => list[e + 1].depth < depth

Eldest(list, i, e, depth) ==
  {list[m].id : m \in {m \in i..e : list[m].depth = depth}}

(* The children of a category are the rows in its block that are one deeper. *)
LEMMA ChildrenInBlock ==
  ASSUME NEW list, WellNested(list), NEW i \in DOMAIN list, NEW b, EndsBlock(list, i, b),
         NEW k \in DOMAIN list
  PROVE  list[k].up = list[i].id <=> k \in i + 1..b /\ list[k].depth = list[i].depth + 1
<1>0. list \in Seq(FlatCategory) /\ DOMAIN list = 1..Len(list) /\ Len(list) \in Nat
  BY DEF WellNested
<1>b. b \in i..Len(list)
  BY DEF EndsBlock
<1>1. /\ list \in Seq(FlatCategory) /\ DOMAIN list = 1..Len(list) /\ Len(list) \in Nat
      /\ i \in 1..Len(list) /\ k \in 1..Len(list) /\ b \in i..Len(list)
      /\ i \in Nat /\ k \in Nat /\ b \in Nat
  BY <1>0, <1>b
<1>a. /\ \A m \in i + 1..b : list[m].depth > list[i].depth
      /\ b = Len(list) \/ list[b + 1].depth <= list[i].depth
  BY DEF EndsBlock
<1>2. \A m \in 1..Len(list) : list[m].depth \in Nat
  BY <1>1, RowFields
<1>3. ASSUME list[k].up = list[i].id
      PROVE  k \in i + 1..b /\ list[k].depth = list[i].depth + 1
  <2>1. i \in 1..k - 1 /\ ParentOf(list, i, k)
    BY <1>3, NamedIsParent
  <2>2. list[k].depth = list[i].depth + 1 /\ \A m \in i + 1..k - 1 : list[m].depth > list[i].depth
    BY <2>1 DEF ParentOf
  <2>3. ASSUME ~(k <= b)
        PROVE  FALSE
    <3>1. b + 1 \in 1..Len(list) /\ k \in b + 1..Len(list) /\ b \in Nat
      BY <2>3, <1>1
    <3>a. b # Len(list)
      <4>1. b + 1 <= Len(list) /\ b \in Nat /\ Len(list) \in Nat
        BY <3>1, <1>1
      <4>2. QED
        BY <4>1
    <3>2. list[b + 1].depth <= list[i].depth
      BY <3>a, <1>a
    <3>3. CASE k = b + 1
      BY <3>2, <3>3, <2>2, <1>1, <1>2
    <3>4. CASE k # b + 1
      <4>1. b + 1 \in i + 1..k - 1
        BY <3>1, <3>4, <1>1
      <4>2. list[b + 1].depth > list[i].depth
        BY <4>1, <2>2
      <4>3. QED
        BY <4>2, <3>1, <3>2, <1>1, <1>2
    <3>5. QED
      BY <3>3, <3>4
  <2>4. QED
    BY <2>1, <2>2, <2>3, <1>1
<1>4. ASSUME k \in i + 1..b, list[k].depth = list[i].depth + 1
      PROVE  list[k].up = list[i].id
  <2>1. list[k].up # Top
    <3>1. list[k].depth # 0
      BY <1>1, <1>2, <1>4
    <3>2. QED
      BY <3>1, NamedIsParent
  <2>2. PICK j \in 1..k - 1 : ParentOf(list, j, k)
    BY <2>1, NamedIsParent
  <2>3. j \in 1..Len(list) /\ i \in 1..Len(list) /\ k \in 1..Len(list)
    BY <1>1, <2>2
  <2>4. list[j].id = list[k].up /\ list[k].depth = list[j].depth + 1
    BY <2>2 DEF ParentOf
  <2>5. ~(j > i)
    <3>1. SUFFICES ASSUME j > i
                   PROVE  FALSE
      OBVIOUS
    <3>2. j \in i + 1..b
      BY <3>1, <2>2, <2>3, <1>4, <1>1
    <3>3. list[j].depth > list[i].depth
      BY <3>2, <1>a
    <3>4. QED
      BY <3>3, <2>3, <2>4, <1>2, <1>4
  <2>6. ~(j < i)
    <3>1. SUFFICES ASSUME j < i
                   PROVE  FALSE
      OBVIOUS
    <3>2. i \in j + 1..k - 1
      BY <3>1, <2>3, <1>4
    <3>3. list[i].depth > list[j].depth
      BY <3>2, <2>2 DEF ParentOf
    <3>4. QED
      BY <3>3, <2>3, <2>4, <1>2, <1>4
  <2>7. j = i
    BY <2>3, <2>5, <2>6
  <2>8. QED
    BY <2>4, <2>7
<1>5. QED
  BY <1>3, <1>4

(* A piece of a list: the first row, its block, and the rest. *)
LEMMA TailSplits ==
  ASSUME NEW places \in Places, NEW list, ListsAll(list, places),
         NEW i, NEW e, NEW depth, TailOf(list, i, e, depth), i <= e
  PROVE  \E b \in i..e :
           /\ TailOf(list, i + 1, b, depth + 1) /\ TailOf(list, b + 1, e, depth)
           /\ Eldest(list, i + 1, b, depth + 1) = Children(places, list[i].id)
           /\ Eldest(list, b + 1, e, depth) = Eldest(list, i, e, depth) \ {list[i].id}
           /\ list[i].id \in Eldest(list, i, e, depth)
           /\ First(places, Eldest(list, i, e, depth)) = list[i].id
<1>1. list \in Seq(FlatCategory) /\ DOMAIN list = 1..Len(list) /\ Len(list) \in Nat /\ WellNested(list)
  BY DEF ListsAll, WellNested
<1>2. \A m \in 1..Len(list) : list[m].depth \in Nat /\ list[m].id \in Node
  BY <1>1, RowFields
<1>3. /\ i \in 1..Len(list) /\ e \in i..Len(list) /\ depth \in Nat
      /\ list[i].depth = depth /\ i \in DOMAIN list
      /\ \A m \in i..e : list[m].depth >= depth
      /\ \A m, k \in i..e : list[m].depth = depth /\ list[k].depth = depth => list[m].up = list[k].up
      /\ e < Len(list) => list[e + 1].depth < depth
  BY <1>1 DEF TailOf
<1>c. PICK b \in i..Len(list) : EndsBlock(list, i, b)
  BY <1>1, <1>3, BlockEnds
<1>4. /\ \A m \in i + 1..b : list[m].depth > list[i].depth
      /\ b = Len(list) \/ list[b + 1].depth <= list[i].depth
  BY <1>c DEF EndsBlock
<1>b. b \in Nat /\ e \in Nat /\ i \in Nat /\ b \in i..Len(list) /\ b <= Len(list) /\ e <= Len(list)
  BY <1>1, <1>3
<1>5. b <= e
  <2>1. SUFFICES ASSUME ~(b <= e)
                 PROVE  FALSE
    OBVIOUS
  <2>2. e + 1 \in i + 1..b /\ e < Len(list) /\ e + 1 \in 1..Len(list)
    BY <2>1, <1>1, <1>3
  <2>3. list[e + 1].depth > list[i].depth /\ list[e + 1].depth < depth
    BY <2>2, <1>3, <1>4
  <2>4. QED
    BY <2>3, <2>2, <1>2, <1>3
<1>6. \A k \in 1..Len(list) :
        list[k].up = list[i].id <=> k \in i + 1..b /\ list[k].depth = depth + 1
  BY <1>1, <1>3, <1>c, ChildrenInBlock
<1>7. TailOf(list, i + 1, b, depth + 1)
  <2>1. i + 1 \in 1..Len(list) + 1 /\ b \in (i + 1) - 1..Len(list) /\ depth + 1 \in Nat
    BY <1>1, <1>3, <1>b
  <2>2. \A m \in i + 1..b : m \in 1..Len(list) /\ list[m].depth >= depth + 1
    <3> TAKE m \in i + 1..b
    <3>1. m \in 1..Len(list)
      BY <1>3, <1>4
    <3>2. list[m].depth > depth
      BY <1>3, <1>4
    <3>3. QED
      BY <3>1, <3>2, <1>2, <1>3
  <2>3. i + 1 <= b => list[i + 1].depth = depth + 1
    <3>1. SUFFICES ASSUME i + 1 <= b
                   PROVE  list[i + 1].depth = depth + 1
      OBVIOUS
    <3>2. i + 1 \in i + 1..b /\ i + 1 \in DOMAIN list
      BY <3>1, <1>1, <1>b
    <3>3. list[i + 1].depth <= list[(i + 1) - 1].depth + 1
      BY <3>2, <1>1, <1>3, StepByOne
    <3>4. (i + 1) - 1 = i
      BY <1>3
    <3>5. QED
      BY <3>2, <3>3, <3>4, <2>2, <1>1, <1>2, <1>3
  <2>4. \A m, k \in i + 1..b :
          list[m].depth = depth + 1 /\ list[k].depth = depth + 1 => list[m].up = list[k].up
    BY <2>2, <1>6
  <2>5. b < Len(list) => list[b + 1].depth < depth + 1
    <3>1. SUFFICES ASSUME b < Len(list)
                   PROVE  list[b + 1].depth < depth + 1
      OBVIOUS
    <3>b. b + 1 \in 1..Len(list) /\ b + 1 <= Len(list) /\ b \in Nat /\ Len(list) \in Nat
      BY <3>1, <1>1, <1>b
    <3>a. b + 1 \in 1..Len(list) /\ b # Len(list)
      BY <3>b
    <3>2. b + 1 \in 1..Len(list) /\ list[b + 1].depth <= depth
      BY <3>a, <1>3, <1>4
    <3>3. QED
      BY <3>2, <1>2, <1>3
  <2>6. QED
    BY <2>1, <2>2, <2>3, <2>4, <2>5 DEF TailOf
<1>8. TailOf(list, b + 1, e, depth)
  <2>1. b + 1 \in 1..Len(list) + 1 /\ e \in (b + 1) - 1..Len(list)
    BY <1>1, <1>3, <1>4, <1>5
  <2>2. \A m \in b + 1..e : m \in i..e
    BY <1>3, <1>4
  <2>3. b + 1 <= e => list[b + 1].depth = depth
    <3>1. SUFFICES ASSUME b + 1 <= e
                   PROVE  list[b + 1].depth = depth
      OBVIOUS
    <3>b. b + 1 \in i..e /\ b + 1 \in 1..Len(list) /\ b + 1 <= Len(list) /\ b \in Nat /\ Len(list) \in Nat
      BY <3>1, <1>1, <1>b
    <3>2. b + 1 \in i..e /\ b + 1 \in 1..Len(list) /\ b # Len(list)
      BY <3>b
    <3>3. list[b + 1].depth >= depth /\ list[b + 1].depth <= depth
      BY <3>2, <1>3, <1>4
    <3>4. QED
      BY <3>2, <3>3, <1>2, <1>3
  <2>4. QED
    BY <2>1, <2>2, <2>3, <1>3 DEF TailOf
<1>9. Eldest(list, i + 1, b, depth + 1) = Children(places, list[i].id)
  <2>1. \A k \in 1..Len(list) : list[k].up = places[list[k].id].up
    BY <1>1 DEF ListsAll
  <2>2. DOMAIN places = {list[k].id : k \in 1..Len(list)}
    BY <1>1 DEF ListsAll, Ids
  <2>3. Children(places, list[i].id) = {list[k].id : k \in {k \in 1..Len(list) : list[k].up = list[i].id}}
    BY <2>1, <2>2 DEF Children
  <2>4. {k \in 1..Len(list) : list[k].up = list[i].id} = {m \in i + 1..b : list[m].depth = depth + 1}
    <3>1. \A m \in i + 1..b : m \in 1..Len(list)
      BY <1>3, <1>4
    <3>2. QED
      BY <3>1, <1>6
  <2>5. QED
    BY <2>3, <2>4 DEF Eldest
<1>10. Eldest(list, b + 1, e, depth) = Eldest(list, i, e, depth) \ {list[i].id}
  <2>1. \A m \in i..e : list[m].depth = depth <=> m = i \/ (m \in b + 1..e /\ list[m].depth = depth)
    <3> TAKE m \in i..e
    <3>1. m = i \/ m \in i + 1..b \/ m \in b + 1..e
      BY <1>3, <1>4
    <3>2. m \in i + 1..b => list[m].depth # depth
      <4>1. SUFFICES ASSUME m \in i + 1..b
                     PROVE  list[m].depth # depth
        OBVIOUS
      <4>2. list[m].depth > depth /\ m \in 1..Len(list)
        BY <4>1, <1>3, <1>4
      <4>3. QED
        BY <4>2, <1>2, <1>3
    <3>3. QED
      BY <3>1, <3>2, <1>3
  <2>2. \A m \in b + 1..e : m \in i..e /\ m # i /\ m \in DOMAIN list
    BY <1>1, <1>b
  <2>3. \A m \in b + 1..e : list[m].id # list[i].id
    BY <2>2, <1>1, <1>3 DEF WellNested
  <2>4. QED
    BY <2>1, <2>2, <2>3 DEF Eldest
<1>11. list[i].id \in Eldest(list, i, e, depth)
  BY <1>3 DEF Eldest
<1>12. First(places, Eldest(list, i, e, depth)) = list[i].id
  <2>1. \A n \in Eldest(list, i, e, depth) \ {list[i].id} : Before(places, list[i].id, n)
    <3> TAKE n \in Eldest(list, i, e, depth) \ {list[i].id}
    <3>1. PICK m \in i..e : list[m].depth = depth /\ n = list[m].id
      BY DEF Eldest
    <3>2. m \in DOMAIN list /\ i < m /\ list[i].up = list[m].up
      BY <3>1, <1>1, <1>3
    <3>3. QED
      BY <3>1, <3>2, <1>1, <1>3 DEF ListsAll
  <2>2. Eldest(list, i, e, depth) \subseteq DOMAIN places
    <3>1. \A m \in i..e : m \in DOMAIN list
      BY <1>1, <1>3
    <3>2. QED
      BY <3>1 DEF ListsAll, Ids, Eldest
  <2>3. \A n \in Eldest(list, i, e, depth) \ {list[i].id} : ~Before(places, n, list[i].id)
    BY <2>1, <2>2, <1>11, BeforeOrders
  <2>4. QED
    BY <2>1, <2>3, <1>11 DEF First
<1>13. QED
  BY <1>3, <1>4, <1>5, <1>7, <1>8, <1>9, <1>10, <1>11, <1>12

LEMMA PieceOfSequence ==
  ASSUME NEW S, NEW list \in Seq(S), NEW i \in 1..Len(list), NEW e \in i..Len(list), NEW b \in i..e
  PROVE  SubSeq(list, i, e) = <<list[i]>> \o SubSeq(list, i + 1, b) \o SubSeq(list, b + 1, e)
  OBVIOUS

(* Distinct rows are no more than the categories. *)
LEMMA ListsAreShort ==
  ASSUME NEW list \in Seq(FlatCategory),
         \A j, k \in DOMAIN list : list[j].id = list[k].id => j = k
  PROVE  Len(list) <= MaxNodes /\ Len(list) \in Nat
<1> DEFINE f == [k \in 1..Len(list) |-> list[k].id]
<1>1. Len(list) \in Nat /\ DOMAIN list = 1..Len(list) /\ MaxNodes \in Nat
  BY CategoryPanelAssumption
<1>2. \A k \in 1..Len(list) : list[k].id \in Node
  BY <1>1, RowFields
<1>3. f \in Injection(1..Len(list), Node)
  BY <1>1, <1>2 DEF Injection, IsInjective
<1>4. IsFiniteSet(Node) /\ Cardinality(Node) = MaxNodes
  <2>1. IsFiniteSet(1..MaxNodes) /\ Cardinality(1..MaxNodes) = IF 1 > MaxNodes THEN 0 ELSE MaxNodes - 1 + 1
    BY <1>1, FS_Interval
  <2>2. QED
    BY <2>1, <1>1 DEF Node
<1>5. Cardinality(1..Len(list)) <= Cardinality(Node)
  <2>1. PICK D : D = 1..Len(list)
    OBVIOUS
  <2>2. PICK g : g \in Injection(D, Node)
    BY <1>3, <2>1
  <2> HIDE DEF f
  <2>3. IsFiniteSet(D) /\ Cardinality(D) <= Cardinality(Node)
    BY <2>2, <1>4, FS_Injection
  <2>4. QED
    BY <2>1, <2>3
<1>6. Cardinality(1..Len(list)) = Len(list)
  <2>1. Cardinality(1..Len(list)) = IF 1 > Len(list) THEN 0 ELSE Len(list) - 1 + 1
    BY <1>1, FS_Interval
  <2>2. QED
    BY <2>1, <1>1
<1>7. QED
  BY <1>1, <1>4, <1>5, <1>6

RowOf(places, n, depth) == <<[id |-> n, up |-> places[n].up, depth |-> depth]>>

RowsFrom(places, fewer, family, depth, n) ==
  RowOf(places, n, depth) \o fewer[Children(places, n)][depth + 1]
    \o fewer[family \ {n}][depth]

LEMMA FlattenNext ==
  ASSUME NEW places, NEW left \in 0..MaxNodes
  PROVE  FlattenTree(places)[left] = Level(places, FlattenTree(places)[left - 1], left)
  BY FlattenLevels

LEMMA LevelNone ==
  ASSUME NEW places, NEW fewer, NEW left, NEW depth \in Nat
  PROVE  Level(places, fewer, left)[{}][depth] = <<>>
  BY DEF Level

LEMMA LevelFirst ==
  ASSUME NEW places, NEW fewer, NEW left, left # 0,
         NEW family, family \subseteq DOMAIN places, NEW depth \in Nat,
         NEW n \in family, n = First(places, family)
  PROVE  Level(places, fewer, left)[family][depth] = RowsFrom(places, fewer, family, depth, n)
  BY DEF Level, RowOf, RowsFrom

LEMMA TailIsFlattened ==
  ASSUME NEW places \in Places, NEW list, ListsAll(list, places)
  PROVE  \A left \in 0..MaxNodes : \A i, e, depth :
           TailOf(list, i, e, depth) /\ e - i + 1 <= left =>
             FlattenTree(places)[left][Eldest(list, i, e, depth)][depth] = SubSeq(list, i, e)
<1> DEFINE flat == FlattenTree(places)
           Holds(left) == \A i, e, depth :
              TailOf(list, i, e, depth) /\ e - i + 1 <= left =>
                flat[left][Eldest(list, i, e, depth)][depth] = SubSeq(list, i, e)
           Fails == {left \in 0..MaxNodes : ~Holds(left)}
<1>0. flat = FlattenTree(places)
  OBVIOUS
<1>1. MaxNodes \in Nat
  BY CategoryPanelAssumption
<1>2. list \in Seq(FlatCategory) /\ DOMAIN list = 1..Len(list) /\ Len(list) \in Nat /\ WellNested(list)
  BY DEF ListsAll, WellNested
<1>3. \A m \in 1..Len(list) : list[m].id \in DOMAIN places /\ list[m].up = places[list[m].id].up
  BY <1>2 DEF ListsAll, Ids
<1>4. SUFFICES ASSUME Fails # {}
               PROVE  FALSE
  OBVIOUS
<1>5. PICK left \in Fails : \A n \in Fails : left <= n
  <2>1. Fails \subseteq Nat
    BY <1>1
  <2> HIDE DEF Fails
  <2>2. QED
    BY <2>1, <1>4, LeastNatural
<1>6. left \in 0..MaxNodes /\ left \in Nat /\ ~Holds(left)
  BY <1>1
<1>7. PICK i, e, depth :
        /\ TailOf(list, i, e, depth) /\ e - i + 1 <= left
        /\ flat[left][Eldest(list, i, e, depth)][depth] # SubSeq(list, i, e)
  BY <1>6
<1>8. i \in 1..Len(list) + 1 /\ e \in i - 1..Len(list) /\ depth \in Nat
  BY <1>7 DEF TailOf
<1>9. Eldest(list, i, e, depth) \subseteq DOMAIN places
  <2>1. \A m \in i..e : m \in 1..Len(list)
    BY <1>2, <1>8
  <2>2. QED
    BY <2>1, <1>3 DEF Eldest
<1> HIDE DEF Holds, Fails, flat
<1>10. CASE i > e
  <2>1. i..e = {}
    BY <1>8, <1>10, <1>2
  <2>2. Eldest(list, i, e, depth) = {}
    BY <2>1 DEF Eldest
  <2>3. flat[left][Eldest(list, i, e, depth)][depth] = <<>>
    <3>1. left \in 0..MaxNodes /\ depth \in Nat
      BY <1>6, <1>8
    <3>2. flat[left] = Level(places, flat[left - 1], left)
      BY <3>1, <1>0, FlattenNext
    <3>3. QED
      BY <3>1, <3>2, <2>2, LevelNone
  <2>4. SubSeq(list, i, e) = <<>>
    BY <1>8, <1>10, <1>2
  <2>5. QED
    BY <2>3, <2>4, <1>7
<1>11. CASE i <= e
  <2>1. PICK b \in i..e :
          /\ TailOf(list, i + 1, b, depth + 1) /\ TailOf(list, b + 1, e, depth)
          /\ Eldest(list, i + 1, b, depth + 1) = Children(places, list[i].id)
          /\ Eldest(list, b + 1, e, depth) = Eldest(list, i, e, depth) \ {list[i].id}
          /\ list[i].id \in Eldest(list, i, e, depth)
          /\ First(places, Eldest(list, i, e, depth)) = list[i].id
    BY <1>7, <1>11, TailSplits
  <2>2. /\ i \in 1..Len(list) /\ e \in i..Len(list) /\ b \in i..e
        /\ i \in Nat /\ e \in Nat /\ b \in Nat /\ list[i].depth = depth
    BY <1>2, <1>8, <1>11, <1>7 DEF TailOf
  <2>3. left # 0 /\ left - 1 \in 0..MaxNodes /\ left - 1 < left
    BY <1>6, <1>7, <1>11, <2>2, <1>1
  <2>4. Holds(left - 1)
    <3>1. left - 1 \notin Fails
      BY <2>3, <1>5, <1>6
    <3>2. QED
      BY <3>1, <2>3 DEF Fails
  <2>5. b - (i + 1) + 1 <= left - 1 /\ e - (b + 1) + 1 <= left - 1
    BY <1>6, <1>7, <2>2
  <2>6. flat[left - 1][Children(places, list[i].id)][depth + 1] = SubSeq(list, i + 1, b)
    BY <2>1, <2>4, <2>5 DEF Holds
  <2>7. flat[left - 1][Eldest(list, i, e, depth) \ {list[i].id}][depth] = SubSeq(list, b + 1, e)
    BY <2>1, <2>4, <2>5 DEF Holds
  <2>8. flat[left][Eldest(list, i, e, depth)][depth] =
          RowOf(places, list[i].id, depth)
            \o flat[left - 1][Children(places, list[i].id)][depth + 1]
            \o flat[left - 1][Eldest(list, i, e, depth) \ {list[i].id}][depth]
    <3>1. PICK family : family = Eldest(list, i, e, depth)
      OBVIOUS
    <3>2. family \subseteq DOMAIN places /\ family # {} /\ First(places, family) = list[i].id
      BY <3>1, <2>1, <1>9
    <3>3. flat[left][family][depth] =
            RowOf(places, list[i].id, depth)
              \o flat[left - 1][Children(places, list[i].id)][depth + 1]
              \o flat[left - 1][family \ {list[i].id}][depth]
      <4>1. list[i].id \in family /\ left \in 0..MaxNodes /\ left # 0 /\ depth \in Nat
        BY <3>1, <2>1, <2>3, <1>6, <1>8
      <4>2. family \subseteq DOMAIN places /\ First(places, family) = list[i].id
        BY <3>2
      <4>3. PICK fewer, n : fewer = flat[left - 1] /\ n = list[i].id
        OBVIOUS
      <4>4. flat[left] = Level(places, fewer, left)
        BY <4>1, <4>3, <1>0, FlattenNext
      <4>5. Level(places, fewer, left)[family][depth] =
              RowsFrom(places, fewer, family, depth, n)
        <5>1. /\ left # 0 /\ family \subseteq DOMAIN places /\ depth \in Nat
              /\ n \in family /\ n = First(places, family)
          BY <4>1, <4>2, <4>3
        <5>2. QED
          BY <5>1, LevelFirst
      <4>6. QED
        BY <4>3, <4>4, <4>5 DEF RowsFrom
    <3>4. QED
      BY <3>1, <3>3
  <2>9. RowOf(places, list[i].id, depth) = <<list[i]>>
    <3>1. list[i] \in FlatCategory
      BY <1>2, <2>2
    <3>2. list[i].up = places[list[i].id].up
      BY <1>3, <2>2
    <3>3. QED
      BY <3>1, <3>2, <2>2 DEF FlatCategory, RowOf
  <2>10. SubSeq(list, i, e) = <<list[i]>> \o SubSeq(list, i + 1, b) \o SubSeq(list, b + 1, e)
    BY <1>2, <2>2, PieceOfSequence
  <2>11. QED
    BY <2>6, <2>7, <2>8, <2>9, <2>10, <1>7
<1>12. QED
  BY <1>8, <1>10, <1>11, <1>2

(* FlattenTree gives the rows of a tree, in the only order there is. *)
LEMMA ListedIsRows ==
  ASSUME NEW places \in Places, NEW list, ListsAll(list, places)
  PROVE  Rows(places) = list
<1>1. list \in Seq(FlatCategory) /\ DOMAIN list = 1..Len(list) /\ Len(list) \in Nat /\ WellNested(list)
  BY DEF ListsAll, WellNested
<1>2. \A m \in 1..Len(list) : list[m].depth \in Nat /\ (list[m].up = Top <=> list[m].depth = 0)
  BY <1>1, RowFields, NamedIsParent
<1>3. Len(list) <= MaxNodes /\ MaxNodes \in Nat
  BY <1>1, ListsAreShort, CategoryPanelAssumption DEF WellNested
<1>4. TailOf(list, 1, Len(list), 0)
  <2>1. 1 <= Len(list) => list[1].depth = 0
    BY <1>1, StepByOne
  <2>2. QED
    BY <2>1, <1>1, <1>2 DEF TailOf
<1>5. Eldest(list, 1, Len(list), 0) = Children(places, Top)
  <2>1. DOMAIN places = {list[k].id : k \in 1..Len(list)}
    BY <1>1 DEF ListsAll, Ids
  <2>2. \A k \in 1..Len(list) : list[k].up = places[list[k].id].up
    BY <1>1 DEF ListsAll
  <2>3. QED
    BY <2>1, <2>2, <1>2 DEF Eldest, Children
<1>6. FlattenTree(places)[MaxNodes][Eldest(list, 1, Len(list), 0)][0] = SubSeq(list, 1, Len(list))
  <2>1. MaxNodes \in 0..MaxNodes /\ Len(list) - 1 + 1 <= MaxNodes
    BY <1>1, <1>3
  <2>2. \A i, e, depth :
           TailOf(list, i, e, depth) /\ e - i + 1 <= MaxNodes =>
             FlattenTree(places)[MaxNodes][Eldest(list, i, e, depth)][depth] = SubSeq(list, i, e)
    BY <2>1, TailIsFlattened
  <2>3. QED
    BY <2>1, <2>2, <1>4
<1>7. SubSeq(list, 1, Len(list)) = list
  BY <1>1
<1>8. QED
  BY <1>5, <1>6, <1>7 DEF Rows

-------------------------------------------------------------------------------
(* Moving a block. *)

LEMMA JoinedAt ==
  ASSUME NEW s \in Seq(FlatCategory), NEW t \in Seq(FlatCategory)
  PROVE  /\ s \o t \in Seq(FlatCategory) /\ Len(s \o t) = Len(s) + Len(t)
         /\ \A k \in 1..Len(s) : (s \o t)[k] = s[k]
         /\ \A k \in 1..Len(t) : (s \o t)[Len(s) + k] = t[k]
  OBVIOUS

Inserted(rows, at, block) == SubSeq(rows, 1, at) \o block \o SubSeq(rows, at + 1, Len(rows))

LEMMA InsertedAt ==
  ASSUME NEW rows \in Seq(FlatCategory), NEW block \in Seq(FlatCategory), NEW at \in 0..Len(rows)
  PROVE  /\ Inserted(rows, at, block) \in Seq(FlatCategory) /\ Len(Inserted(rows, at, block)) = Len(rows) + Len(block)
         /\ \A k \in 1..at : Inserted(rows, at, block)[k] = rows[k]
         /\ \A k \in 1..Len(block) : Inserted(rows, at, block)[at + k] = block[k]
         /\ \A k \in at + 1..Len(rows) : Inserted(rows, at, block)[k + Len(block)] = rows[k]
<1>0. PICK list : list = Inserted(rows, at, block)
  OBVIOUS
<1>1. PICK s : s = SubSeq(rows, 1, at)
  OBVIOUS
<1>2. PICK t : t = SubSeq(rows, at + 1, Len(rows))
  OBVIOUS
<1>3. s \in Seq(FlatCategory) /\ Len(s) = at /\ \A k \in 1..at : s[k] = rows[k]
  BY <1>1
<1>4. t \in Seq(FlatCategory) /\ Len(t) = Len(rows) - at /\ \A k \in 1..Len(t) : t[k] = rows[at + k]
  BY <1>2
<1>5. list = s \o block \o t
  BY <1>0, <1>1, <1>2 DEF Inserted
<1>6. /\ list \in Seq(FlatCategory) /\ Len(list) = at + Len(block) + Len(t)
      /\ \A k \in 1..at : list[k] = s[k]
      /\ \A k \in 1..Len(block) : list[at + k] = block[k]
      /\ \A k \in 1..Len(t) : list[at + Len(block) + k] = t[k]
  <2>1. PICK l : l = s \o block
    OBVIOUS
  <2>2. /\ l \in Seq(FlatCategory) /\ Len(l) = at + Len(block)
        /\ \A k \in 1..at : l[k] = s[k]
        /\ \A k \in 1..Len(block) : l[at + k] = block[k]
    BY <2>1, <1>3, JoinedAt
  <2>3. list = l \o t
    BY <2>1, <1>5
  <2>4. /\ list \in Seq(FlatCategory) /\ Len(list) = Len(l) + Len(t)
        /\ \A k \in 1..Len(l) : list[k] = l[k]
        /\ \A k \in 1..Len(t) : list[Len(l) + k] = t[k]
    <3>1. /\ l \o t \in Seq(FlatCategory) /\ Len(l \o t) = Len(l) + Len(t)
          /\ \A k \in 1..Len(l) : (l \o t)[k] = l[k]
          /\ \A k \in 1..Len(t) : (l \o t)[Len(l) + k] = t[k]
      BY <2>2, <1>4, JoinedAt
    <3>2. QED
      BY <2>3, <3>1
  <2>5. \A k \in 1..at : k \in 1..Len(l)
    BY <2>2
  <2>6. \A k \in 1..Len(block) : at + k \in 1..Len(l)
    BY <2>2
  <2>7. QED
    BY <2>2, <2>4, <2>5, <2>6
<1>7. ASSUME NEW k \in at + 1..Len(rows)
      PROVE  list[k + Len(block)] = rows[k]
  <2>1. k - at \in 1..Len(t) /\ at + Len(block) + (k - at) = k + Len(block) /\ at + (k - at) = k
    BY <1>4
  <2>2. list[at + Len(block) + (k - at)] = t[k - at] /\ t[k - at] = rows[at + (k - at)]
    BY <2>1, <1>4, <1>6
  <2>3. QED
    BY <2>1, <2>2
<1>8. QED
  BY <1>0, <1>3, <1>4, <1>6, <1>7

Removed(list, i, b) == SubSeq(list, 1, i - 1) \o SubSeq(list, b + 1, Len(list))

LEMMA RemovedAt ==
  ASSUME NEW list \in Seq(FlatCategory), NEW i \in 1..Len(list), NEW b \in i..Len(list)
  PROVE  /\ Removed(list, i, b) \in Seq(FlatCategory) /\ Len(Removed(list, i, b)) = Len(list) - (b - i + 1)
         /\ \A k \in 1..i - 1 : Removed(list, i, b)[k] = list[k]
         /\ \A k \in i..Len(Removed(list, i, b)) : Removed(list, i, b)[k] = list[k + (b - i + 1)]
<1>0. PICK rows : rows = Removed(list, i, b)
  OBVIOUS
<1>1. PICK s : s = SubSeq(list, 1, i - 1)
  OBVIOUS
<1>2. PICK t : t = SubSeq(list, b + 1, Len(list))
  OBVIOUS
<1>3. s \in Seq(FlatCategory) /\ Len(s) = i - 1 /\ \A k \in 1..i - 1 : s[k] = list[k]
  BY <1>1
<1>4. t \in Seq(FlatCategory) /\ Len(t) = Len(list) - b /\ \A k \in 1..Len(t) : t[k] = list[b + k]
  BY <1>2
<1>5. /\ rows \in Seq(FlatCategory) /\ Len(rows) = i - 1 + Len(t)
      /\ \A k \in 1..i - 1 : rows[k] = s[k]
      /\ \A k \in 1..Len(t) : rows[i - 1 + k] = t[k]
  <2>1. rows = s \o t
    BY <1>0, <1>1, <1>2 DEF Removed
  <2>2. /\ s \o t \in Seq(FlatCategory) /\ Len(s \o t) = Len(s) + Len(t)
        /\ \A k \in 1..Len(s) : (s \o t)[k] = s[k]
        /\ \A k \in 1..Len(t) : (s \o t)[Len(s) + k] = t[k]
    BY <1>3, <1>4, JoinedAt
  <2>3. QED
    BY <2>1, <2>2, <1>3
<1>6. ASSUME NEW k \in i..Len(rows)
      PROVE  rows[k] = list[k + (b - i + 1)]
  <2>1. k - (i - 1) \in 1..Len(t) /\ i - 1 + (k - (i - 1)) = k /\ b + (k - (i - 1)) = k + (b - i + 1)
    BY <1>4, <1>5
  <2>2. rows[i - 1 + (k - (i - 1))] = t[k - (i - 1)] /\ t[k - (i - 1)] = list[b + (k - (i - 1))]
    BY <2>1, <1>4, <1>5
  <2>3. QED
    BY <2>1, <2>2
<1>7. QED
  BY <1>0, <1>3, <1>4, <1>5, <1>6

(* A block by itself, whatever it hangs from. *)
Nested(block) ==
  /\ block \in Seq(FlatCategory) /\ Len(block) > 0
  /\ \A j, k \in DOMAIN block : block[j].id = block[k].id => j = k
  /\ \A k \in 2..Len(block) :
       /\ block[k].depth > block[1].depth
       /\ \E j \in 1..k - 1 : ParentOf(block, j, k)

(* Where it may go. *)
Fits(rows, at, row) ==
  /\ \/ row.depth = 0 /\ row.up = Top
     \/ \E j \in 1..at :
          /\ rows[j].id = row.up /\ row.depth = rows[j].depth + 1
          /\ \A m \in j + 1..at : rows[m].depth > rows[j].depth
  /\ at = Len(rows) \/ rows[at + 1].depth <= row.depth

(* What has been put into a list keeps its parents. *)
LEMMA InsertedNested ==
  ASSUME NEW rows, WellNested(rows), NEW block, Nested(block), NEW at \in 0..Len(rows),
         Fits(rows, at, block[1]), Ids(rows) \cap Ids(block) = {},
         NEW list, list = Inserted(rows, at, block)
  PROVE  WellNested(list) /\ Ids(list) = Ids(rows) \cup Ids(block)
<1>1. /\ rows \in Seq(FlatCategory) /\ DOMAIN rows = 1..Len(rows) /\ Len(rows) \in Nat
      /\ block \in Seq(FlatCategory) /\ DOMAIN block = 1..Len(block) /\ Len(block) \in Nat
      /\ Len(block) > 0
  BY DEF WellNested, Nested
<1>2. PICK n \in Nat, c \in Nat : n = Len(rows) /\ c = Len(block)
  BY <1>1
<1>3. c > 0 /\ at \in Nat /\ at <= n
  BY <1>1, <1>2
<1>4. /\ list \in Seq(FlatCategory) /\ Len(list) = n + c
      /\ \A k \in 1..at : list[k] = rows[k]
      /\ \A k \in 1..c : list[at + k] = block[k]
      /\ \A k \in at + 1..n : list[k + c] = rows[k]
  <2>1. /\ list \in Seq(FlatCategory) /\ Len(list) = Len(rows) + Len(block)
        /\ \A k \in 1..at : list[k] = rows[k]
        /\ \A k \in 1..Len(block) : list[at + k] = block[k]
        /\ \A k \in at + 1..Len(rows) : list[k + Len(block)] = rows[k]
    BY <1>1, InsertedAt
  <2>2. QED
    BY <2>1, <1>2
<1>5. DOMAIN list = 1..n + c
  BY <1>2, <1>4
<1>6. /\ \A k \in 1..n : rows[k].depth \in Nat /\ rows[k].id \in Nat
      /\ \A k \in 1..c : block[k].depth \in Nat /\ block[k].id \in Nat
  BY <1>1, <1>2, RowFields
<1>7. \A k \in 1..n + c :
        \/ k \in 1..at
        \/ k - at \in 1..c /\ at + (k - at) = k
        \/ k - c \in at + 1..n /\ (k - c) + c = k
  BY <1>2, <1>3
<1>8. \A k \in 1..n + c :
        \/ k \in 1..at /\ list[k] = rows[k]
        \/ k - at \in 1..c /\ list[k] = block[k - at]
        \/ k - c \in at + 1..n /\ list[k] = rows[k - c]
  BY <1>4, <1>7
<1>9. Ids(list) = Ids(rows) \cup Ids(block)
  <2>1. \A k \in 1..n + c : list[k].id \in Ids(rows) \cup Ids(block)
    <3>1. \A k \in 1..at : k \in 1..n
      BY <1>2, <1>3
    <3>2. \A k \in at + 1..n : k \in 1..n
      BY <1>2, <1>3
    <3>3. QED
      BY <1>1, <1>2, <1>8, <3>1, <3>2 DEF Ids
  <2>2. \A k \in 1..n : rows[k].id \in Ids(list)
    <3> TAKE k \in 1..n
    <3>1. CASE k <= at
      <4>1. k \in 1..at /\ k \in 1..n + c
        BY <1>2, <1>3, <3>1
      <4>2. QED
        BY <4>1, <1>4, <1>5 DEF Ids
    <3>2. CASE k > at
      <4>1. k \in at + 1..n /\ k + c \in 1..n + c
        BY <1>2, <1>3, <3>2
      <4>2. QED
        BY <4>1, <1>4, <1>5 DEF Ids
    <3>3. QED
      BY <3>1, <3>2, <1>2, <1>3
  <2>3. \A k \in 1..c : block[k].id \in Ids(list)
    <3> TAKE k \in 1..c
    <3>1. at + k \in 1..n + c
      BY <1>2, <1>3
    <3>2. QED
      BY <3>1, <1>4, <1>5 DEF Ids
  <2>4. Ids(list) \subseteq Ids(rows) \cup Ids(block)
    BY <2>1, <1>5 DEF Ids
  <2>5. Ids(rows) \subseteq Ids(list)
    <3>1. ASSUME NEW x \in Ids(rows)
          PROVE  x \in Ids(list)
      <4>1. PICK k \in 1..n : x = rows[k].id
        BY <1>1, <1>2 DEF Ids
      <4>2. QED
        BY <4>1, <2>2
    <3>2. QED
      BY <3>1
  <2>6. Ids(block) \subseteq Ids(list)
    <3>1. ASSUME NEW x \in Ids(block)
          PROVE  x \in Ids(list)
      <4>1. PICK k \in 1..c : x = block[k].id
        BY <1>1, <1>2 DEF Ids
      <4>2. QED
        BY <4>1, <2>3
    <3>2. QED
      BY <3>1
  <2>7. QED
    BY <2>4, <2>5, <2>6
<1>10. \A j, k \in 1..n + c : list[j].id = list[k].id => j = k
  <2>1. SUFFICES ASSUME NEW j \in 1..n + c, NEW k \in 1..n + c, list[j].id = list[k].id
                 PROVE  j = k
    OBVIOUS
  <2>2. \A x, y \in 1..n : rows[x].id = rows[y].id => x = y
    BY <1>1, <1>2 DEF WellNested
  <2>3. \A x, y \in 1..c : block[x].id = block[y].id => x = y
    BY <1>1, <1>2 DEF Nested
  <2>4. \A x \in 1..n : \A y \in 1..c : rows[x].id # block[y].id
    BY <1>1, <1>2 DEF Ids
  <2>5. /\ \/ j \in 1..n /\ j <= at /\ list[j] = rows[j]
           \/ j - at \in 1..c /\ list[j] = block[j - at]
           \/ j - c \in 1..n /\ j - c > at /\ list[j] = rows[j - c]
        /\ \/ k \in 1..n /\ k <= at /\ list[k] = rows[k]
           \/ k - at \in 1..c /\ list[k] = block[k - at]
           \/ k - c \in 1..n /\ k - c > at /\ list[k] = rows[k - c]
    <3>1. /\ \A x \in 1..at : x \in 1..n /\ x <= at
          /\ \A x \in at + 1..n : x \in 1..n /\ x > at
      BY <1>2, <1>3
    <3>2. QED
      BY <1>8, <3>1
  <2>6. j \in Nat /\ k \in Nat
    OBVIOUS
  <2>7. CASE j - at \in 1..c /\ list[j] = block[j - at]
    <3>1. k - at \in 1..c /\ list[k] = block[k - at]
      BY <2>1, <2>4, <2>5, <2>7
    <3>2. j - at = k - at
      BY <2>1, <2>3, <2>7, <3>1
    <3>3. QED
      BY <3>2, <2>6, <1>3
  <2>8. CASE j \in 1..n /\ j <= at /\ list[j] = rows[j]
    <3>1. \/ k \in 1..n /\ k <= at /\ list[k] = rows[k]
          \/ k - c \in 1..n /\ k - c > at /\ list[k] = rows[k - c]
      BY <2>1, <2>4, <2>5, <2>8
    <3>2. j = k \/ (j = k - c /\ k - c > at)
      BY <2>1, <2>2, <2>8, <3>1
    <3>3. QED
      BY <3>2, <2>8, <2>6, <1>2, <1>3
  <2>9. CASE j - c \in 1..n /\ j - c > at /\ list[j] = rows[j - c]
    <3>1. \/ k \in 1..n /\ k <= at /\ list[k] = rows[k]
          \/ k - c \in 1..n /\ k - c > at /\ list[k] = rows[k - c]
      BY <2>1, <2>4, <2>5, <2>9
    <3>2. (j - c = k /\ k <= at) \/ j - c = k - c
      BY <2>1, <2>2, <2>9, <3>1
    <3>3. QED
      BY <3>2, <2>9, <2>6, <1>2, <1>3
  <2>10. QED
    BY <2>5, <2>7, <2>8, <2>9

<1>11. \A k \in 1..n + c :
         \/ list[k].depth = 0 /\ list[k].up = Top
         \/ \E j \in 1..k - 1 : ParentOf(list, j, k)
  <2>1. /\ at = n \/ rows[at + 1].depth <= block[1].depth
        /\ \/ block[1].depth = 0 /\ block[1].up = Top
           \/ \E j \in 1..at :
                /\ rows[j].id = block[1].up /\ block[1].depth = rows[j].depth + 1
                /\ \A m \in j + 1..at : rows[m].depth > rows[j].depth
    BY <1>2 DEF Fits
  <2>2. \A k \in 2..c : block[k].depth > block[1].depth /\ \E j \in 1..k - 1 : ParentOf(block, j, k)
    BY <1>2 DEF Nested
  <2>3. \A k \in 1..n : (rows[k].depth = 0 /\ rows[k].up = Top) \/ \E j \in 1..k - 1 : ParentOf(rows, j, k)
    BY <1>1, <1>2 DEF WellNested
  <2>4. SUFFICES ASSUME NEW k \in 1..n + c
                 PROVE  \/ list[k].depth = 0 /\ list[k].up = Top
                        \/ \E j \in 1..k - 1 : ParentOf(list, j, k)
    OBVIOUS
  <2>5. k \in Nat
    OBVIOUS
  <2>6. CASE k \in 1..at
    <3>1. k \in 1..n /\ list[k] = rows[k]
      BY <2>6, <1>2, <1>3, <1>4
    <3>2. ASSUME NEW j \in 1..k - 1, ParentOf(rows, j, k)
          PROVE  ParentOf(list, j, k)
      <4>1. j \in 1..at /\ \A m \in j + 1..k - 1 : m \in 1..at
        BY <2>6, <1>3
      <4>2. list[j] = rows[j] /\ \A m \in j + 1..k - 1 : list[m] = rows[m]
        BY <4>1, <1>4
      <4>3. QED
        BY <3>1, <3>2, <4>2 DEF ParentOf
    <3>3. QED
      BY <2>3, <3>1, <3>2
  <2>7. CASE k = at + 1
    <3>1. list[k] = block[1]
      BY <2>7, <1>3, <1>4
    <3>2. ASSUME NEW j \in 1..at,
                 rows[j].id = block[1].up, block[1].depth = rows[j].depth + 1,
                 \A m \in j + 1..at : rows[m].depth > rows[j].depth
          PROVE  j \in 1..k - 1 /\ ParentOf(list, j, k)
      <4>1. j \in 1..k - 1 /\ k - 1 = at /\ \A m \in j + 1..at : m \in 1..at
        BY <2>7, <1>3
      <4>2. list[j] = rows[j] /\ \A m \in j + 1..at : list[m] = rows[m]
        BY <4>1, <1>4
      <4>3. \A m \in j + 1..k - 1 : list[m].depth > list[j].depth
        BY <4>1, <4>2, <3>2
      <4>4. QED
        BY <3>1, <3>2, <4>1, <4>2, <4>3 DEF ParentOf
    <3>3. QED
      BY <2>1, <3>1, <3>2
  <2>8. CASE k - at \in 2..c
    <3>1. PICK p : p = k - at
      OBVIOUS
    <3>2. p \in 2..c /\ p \in 1..c /\ k = at + p
      BY <2>8, <3>1, <1>3
    <3>3. list[k] = block[p]
      BY <3>2, <1>4
    <3>4. PICK q \in 1..p - 1 : ParentOf(block, q, p)
      BY <2>2, <3>2
    <3>5. at + q \in 1..k - 1 /\ q \in 1..c
      BY <3>2, <3>4, <1>3
    <3>6. list[at + q] = block[q]
      BY <3>5, <1>4
    <3>7. \A m \in at + q + 1..k - 1 : list[m].depth > block[q].depth
      <4> TAKE m \in at + q + 1..k - 1
      <4>1. m - at \in q + 1..p - 1 /\ m - at \in 1..c /\ at + (m - at) = m
        BY <3>2, <3>4, <1>3
      <4>2. list[m] = block[m - at]
        BY <4>1, <1>4
      <4>3. QED
        BY <4>1, <4>2, <3>4 DEF ParentOf
    <3>8. ParentOf(list, at + q, k)
      BY <3>3, <3>4, <3>6, <3>7 DEF ParentOf
    <3>9. QED
      BY <3>5, <3>8
  <2>9. CASE k - c \in at + 1..n
    <3>1. PICK p : p = k - c
      OBVIOUS
    <3>2. p \in at + 1..n /\ p \in 1..n /\ k = p + c /\ p > at
      BY <2>9, <3>1, <1>2, <1>3
    <3>3. list[k] = rows[p]
      BY <3>2, <1>4
    <3>4. CASE rows[p].depth = 0 /\ rows[p].up = Top
      BY <3>3, <3>4
    <3>5. CASE \E q \in 1..p - 1 : ParentOf(rows, q, p)
      <4>1. PICK q \in 1..p - 1 : ParentOf(rows, q, p)
        BY <3>5
      <4>2. q \in 1..n
        BY <4>1, <3>2, <1>2
      <4>3. /\ rows[q].id = rows[p].up /\ rows[p].depth = rows[q].depth + 1
            /\ \A m \in q + 1..p - 1 : rows[m].depth > rows[q].depth
        BY <4>1 DEF ParentOf
      <4>4. CASE q > at
        <5>1. q \in at + 1..n /\ q + c \in 1..k - 1
          BY <4>4, <4>1, <3>2, <1>2, <1>3
        <5>2. list[q + c] = rows[q]
          BY <5>1, <1>4
        <5>3. \A m \in q + c + 1..k - 1 : list[m].depth > rows[q].depth
          <6> TAKE m \in q + c + 1..k - 1
          <6>1. m - c \in q + 1..p - 1 /\ m - c \in at + 1..n /\ (m - c) + c = m
            BY <3>2, <4>1, <4>4, <1>2, <1>3
          <6>2. list[m] = rows[m - c]
            BY <6>1, <1>4
          <6>3. QED
            BY <6>1, <6>2, <4>3
        <5>4. ParentOf(list, q + c, k)
          BY <3>3, <4>3, <5>2, <5>3 DEF ParentOf
        <5>5. QED
          BY <5>1, <5>4
      <4>5. CASE q <= at
        <5>1. q \in 1..at /\ q \in 1..k - 1
          BY <4>5, <4>1, <3>2, <1>2, <1>3
        <5>2. list[q] = rows[q]
          BY <5>1, <1>4
        <5>3. rows[q].depth \in Nat /\ rows[p].depth \in Nat /\ block[1].depth \in Nat
          BY <4>2, <3>2, <1>3, <1>6
        <5>4. block[1].depth > rows[q].depth
          <6>1. at + 1 \in 1..n /\ at # n
            BY <3>2, <1>2, <1>3
          <6>2. rows[at + 1].depth <= block[1].depth /\ rows[at + 1].depth \in Nat
            BY <6>1, <2>1, <1>6
          <6>3. rows[at + 1].depth > rows[q].depth
            <7>1. CASE p = at + 1
              BY <7>1, <4>3, <5>3
            <7>2. CASE p # at + 1
              <8>1. at + 1 \in q + 1..p - 1
                BY <7>2, <4>5, <3>2, <4>1, <1>2, <1>3
              <8>2. QED
                BY <8>1, <4>3
            <7>3. QED
              BY <7>1, <7>2
          <6>4. QED
            BY <6>2, <6>3, <5>3
        <5>5. \A m \in q + 1..k - 1 : list[m].depth > rows[q].depth
          <6> TAKE m \in q + 1..k - 1
          <6>1. m \in 1..n + c /\ m \in Nat
            BY <4>1, <3>2, <1>2, <1>3
          <6>2. CASE m \in 1..at
            <7>1. m \in q + 1..p - 1
              BY <6>2, <3>2, <4>1, <1>2, <1>3
            <7>2. QED
              BY <7>1, <6>2, <4>3, <1>4
          <6>3. CASE m - at \in 1..c /\ at + (m - at) = m
            <7>1. list[m] = block[m - at]
              BY <6>3, <1>4
            <7>2. m - at = 1 \/ m - at \in 2..c
              BY <6>3, <1>3
            <7>3. block[m - at].depth \in Nat /\ (m - at = 1 \/ block[m - at].depth > block[1].depth)
              BY <6>3, <7>2, <2>2, <1>6
            <7>4. QED
              BY <7>1, <7>3, <5>3, <5>4
          <6>4. CASE m - c \in at + 1..n /\ (m - c) + c = m
            <7>1. m - c \in q + 1..p - 1
              BY <6>4, <6>1, <4>5, <3>2, <4>1, <1>2, <1>3
            <7>2. list[m] = rows[m - c]
              BY <6>4, <1>4
            <7>3. QED
              BY <7>1, <7>2, <4>3
          <6>5. QED
            BY <6>1, <6>2, <6>3, <6>4, <1>7
        <5>6. ParentOf(list, q, k)
          BY <3>3, <4>3, <5>2, <5>5 DEF ParentOf
        <5>7. QED
          BY <5>1, <5>6
      <4>6. QED
        BY <4>2, <4>4, <4>5, <1>3
    <3>6. QED
      BY <2>3, <3>2, <3>4, <3>5
  <2>10. k \in 1..at \/ k = at + 1 \/ k - at \in 2..c \/ k - c \in at + 1..n
    BY <2>5, <1>2, <1>3
  <2>11. QED
    BY <2>6, <2>7, <2>8, <2>9, <2>10
<1>12. QED
  BY <1>4, <1>5, <1>9, <1>10, <1>11 DEF WellNested

(* A list without a block keeps its parents. *)
LEMMA RemovedNested ==
  ASSUME NEW list, WellNested(list), NEW i \in DOMAIN list, NEW b, EndsBlock(list, i, b),
         NEW rows, rows = Removed(list, i, b)
  PROVE  /\ WellNested(rows)
         /\ Ids(rows) = Ids(list) \ {list[k].id : k \in i..b}
<1>1. /\ list \in Seq(FlatCategory) /\ DOMAIN list = 1..Len(list) /\ Len(list) \in Nat
      /\ i \in 1..Len(list) /\ b \in i..Len(list)
  BY DEF WellNested, EndsBlock
<1>a. b - i + 1 \in Nat
  BY <1>1
<1>2. PICK len \in Nat, n \in Nat : len = Len(list) /\ n = b - i + 1
  BY <1>1, <1>a
<1>3. /\ i \in Nat /\ b \in Nat /\ i >= 1 /\ i <= b /\ b <= len /\ n = b - i + 1 /\ n >= 1
      /\ i + n = b + 1
  BY <1>1, <1>2
<1>4. /\ rows \in Seq(FlatCategory) /\ Len(rows) = len - n
      /\ \A k \in 1..i - 1 : rows[k] = list[k]
      /\ \A k \in i..len - n : rows[k] = list[k + n]
  <2>1. /\ Removed(list, i, b) \in Seq(FlatCategory) /\ Len(Removed(list, i, b)) = Len(list) - (b - i + 1)
        /\ \A k \in 1..i - 1 : Removed(list, i, b)[k] = list[k]
        /\ \A k \in i..Len(Removed(list, i, b)) : Removed(list, i, b)[k] = list[k + (b - i + 1)]
    BY <1>1, RemovedAt
  <2>2. QED
    BY <2>1, <1>2
<1>5. DOMAIN rows = 1..len - n
  BY <1>4, <1>2, <1>3
<1>6. \A k \in 1..len : list[k].depth \in Nat /\ list[k].id \in Nat
  BY <1>1, <1>2, RowFields
<1>7. /\ \A m \in i + 1..b : list[m].depth > list[i].depth
      /\ b = len \/ list[b + 1].depth <= list[i].depth
  BY <1>2 DEF EndsBlock
<1>8. \A x, y \in 1..len : list[x].id = list[y].id => x = y
  BY <1>1, <1>2 DEF WellNested
<1>9. \A k \in 1..len - n :
        \/ k < i /\ k \in 1..len /\ rows[k] = list[k]
        \/ k >= i /\ k + n \in 1..len /\ k + n > b /\ rows[k] = list[k + n]
  <2> TAKE k \in 1..len - n
  <2>1. k \in 1..i - 1 \/ k \in i..len - n
    BY <1>2, <1>3
  <2>2. k \in 1..i - 1 => k < i /\ k \in 1..len
    BY <1>2, <1>3
  <2>3. k \in i..len - n => k >= i /\ k + n \in 1..len /\ k + n > b
    BY <1>2, <1>3
  <2>4. QED
    BY <2>1, <2>2, <2>3, <1>4
<1>10. \A j, k \in DOMAIN rows : rows[j].id = rows[k].id => j = k
  <2>1. SUFFICES ASSUME NEW j \in 1..len - n, NEW k \in 1..len - n, rows[j].id = rows[k].id
                 PROVE  j = k
    BY <1>5
  <2>2. PICK x \in 1..len : ((j < i /\ x = j) \/ (j >= i /\ x = j + n /\ x > b)) /\ rows[j] = list[x]
    BY <1>9
  <2>3. PICK y \in 1..len : ((k < i /\ y = k) \/ (k >= i /\ y = k + n /\ y > b)) /\ rows[k] = list[y]
    BY <1>9
  <2>4. x = y
    BY <2>1, <2>2, <2>3, <1>8
  <2>5. QED
    BY <2>2, <2>3, <2>4, <1>3
<1>11. Ids(rows) = Ids(list) \ {list[k].id : k \in i..b}
  <2>1. ASSUME NEW x \in Ids(rows)
        PROVE  x \in Ids(list) /\ x \notin {list[k].id : k \in i..b}
    <3>1. PICK k \in 1..len - n : x = rows[k].id
      BY <1>5 DEF Ids
    <3>2. PICK y \in 1..len : (y < i \/ y > b) /\ x = list[y].id
      BY <3>1, <1>9
    <3>3. \A m \in i..b : m \in 1..len /\ m # y
      BY <3>2, <1>2, <1>3
    <3>4. QED
      BY <3>2, <3>3, <1>1, <1>2, <1>8 DEF Ids
  <2>2. ASSUME NEW x \in Ids(list), x \notin {list[k].id : k \in i..b}
        PROVE  x \in Ids(rows)
    <3>1. PICK y \in 1..len : x = list[y].id
      BY <1>1, <1>2 DEF Ids
    <3>2. y < i \/ y > b
      BY <3>1, <2>2, <1>3
    <3>3. CASE y < i
      <4>1. y \in 1..i - 1 /\ y \in 1..len - n
        BY <3>3, <1>2, <1>3
      <4>2. QED
        BY <4>1, <3>1, <1>4, <1>5 DEF Ids
    <3>4. CASE y > b
      <4>1. y - n \in i..len - n /\ y - n \in 1..len - n /\ (y - n) + n = y
        BY <3>4, <1>2, <1>3
      <4>2. rows[y - n] = list[y]
        BY <4>1, <1>4
      <4>3. QED
        BY <4>1, <4>2, <3>1, <1>5 DEF Ids
    <3>5. QED
      BY <3>2, <3>3, <3>4
  <2>3. QED
    BY <2>1, <2>2
<1>12. \A k \in DOMAIN rows :
         \/ rows[k].depth = 0 /\ rows[k].up = Top
         \/ \E j \in 1..k - 1 : ParentOf(rows, j, k)
  <2>1. SUFFICES ASSUME NEW k \in 1..len - n
                 PROVE  \/ rows[k].depth = 0 /\ rows[k].up = Top
                        \/ \E j \in 1..k - 1 : ParentOf(rows, j, k)
    BY <1>5
  <2>2. PICK y \in 1..len : ((k < i /\ y = k) \/ (k >= i /\ y = k + n /\ y > b)) /\ rows[k] = list[y]
    BY <1>9
  <2>3. (list[y].depth = 0 /\ list[y].up = Top) \/ \E j \in 1..y - 1 : ParentOf(list, j, y)
    BY <1>1, <1>2 DEF WellNested
  <2>4. ASSUME NEW q \in 1..y - 1, ParentOf(list, q, y)
        PROVE  \E j \in 1..k - 1 : ParentOf(rows, j, k)
    <3>1. /\ list[q].id = list[y].up /\ list[y].depth = list[q].depth + 1
          /\ \A m \in q + 1..y - 1 : list[m].depth > list[q].depth
      BY <2>4 DEF ParentOf
    <3>2. q \in 1..len /\ q \in Nat /\ y \in Nat /\ list[q].depth \in Nat /\ list[y].depth \in Nat
      BY <1>2, <1>6
    <3>3. CASE q < i
      <4>1. q \in 1..i - 1 /\ q \in 1..k - 1
        BY <3>3, <2>2, <1>2, <1>3
      <4>2. rows[q] = list[q]
        BY <4>1, <1>4
      <4>3. \A m \in q + 1..k - 1 : rows[m].depth > list[q].depth
        <5> TAKE m \in q + 1..k - 1
        <5>1. m \in 1..len - n
          BY <3>2, <1>2, <1>3
        <5>2. PICK x \in 1..len : ((m < i /\ x = m) \/ (m >= i /\ x = m + n /\ x > b)) /\ rows[m] = list[x]
          BY <5>1, <1>9
        <5>a. /\ m \in Int /\ q + 1 <= m /\ m <= k - 1 /\ q \in Nat /\ k \in Nat /\ y \in Nat
              /\ n \in Nat /\ i \in Nat /\ x \in Nat
              /\ (m < i /\ x = m) \/ (m >= i /\ x = m + n)
              /\ (k < i /\ y = k) \/ (k >= i /\ y = k + n)
          BY <5>1, <5>2, <2>2, <3>2, <1>2, <1>3
        <5>3. x \in q + 1..y - 1
          BY <5>a
        <5>4. QED
          BY <5>2, <5>3, <3>1
      <4>4. ParentOf(rows, q, k)
        BY <4>2, <4>3, <2>2, <3>1 DEF ParentOf
      <4>5. QED
        BY <4>1, <4>4
    <3>4. CASE q > b
      <4>1. /\ q - n \in i..len - n /\ q - n \in 1..k - 1 /\ (q - n) + n = q
            /\ k >= i /\ y = k + n
        <5>1. /\ q \in Nat /\ k \in Nat /\ y \in Nat /\ q > b /\ q <= y - 1 /\ y <= len
              /\ (k < i /\ y = k) \/ (k >= i /\ y = k + n)
              /\ k <= len - n
          BY <3>4, <2>2, <3>2, <1>2, <1>3
        <5>2. k >= i /\ y = k + n
          BY <5>1, <1>3
        <5>3. i + n = b + 1 /\ i \in Nat /\ b \in Nat /\ len \in Nat /\ n \in Nat /\ i >= 1
          BY <1>2, <1>3
        <5>4. QED
          BY <5>1, <5>2, <5>3
      <4>2. rows[q - n] = list[q]
        BY <4>1, <1>4
      <4>3. \A m \in q - n + 1..k - 1 : rows[m].depth > list[q].depth
        <5> TAKE m \in q - n + 1..k - 1
        <5>a. /\ m \in Int /\ q - n + 1 <= m /\ m <= k - 1 /\ k \in Nat /\ q \in Nat /\ n \in Nat
              /\ q > b /\ k <= len - n /\ y = k + n
          BY <4>1, <3>2, <3>4, <1>2, <1>3
        <5>b. i + n = b + 1 /\ i \in Nat /\ b \in Nat /\ len \in Nat
          BY <1>2, <1>3
        <5>1. m \in i..len - n /\ m + n \in q + 1..y - 1
          BY <5>a, <5>b
        <5>2. QED
          BY <5>1, <3>1, <1>4
      <4>4. ParentOf(rows, q - n, k)
        BY <4>2, <4>3, <2>2, <3>1 DEF ParentOf
      <4>5. QED
        BY <4>1, <4>4
    <3>5. CASE q >= i /\ q <= b
      <4>1. y > b /\ b + 1 \in 1..len /\ b # len
        BY <3>5, <2>2, <3>2, <1>2, <1>3
      <4>2. list[b + 1].depth <= list[i].depth /\ list[b + 1].depth \in Nat /\ list[i].depth \in Nat
        BY <4>1, <1>1, <1>2, <1>6, <1>7
      <4>3. list[q].depth >= list[i].depth
        <5>1. q = i \/ q \in i + 1..b
          BY <3>5, <3>2, <1>3
        <5>2. QED
          BY <5>1, <3>2, <4>2, <1>7
      <4>4. CASE y = b + 1
        BY <4>2, <4>3, <4>4, <3>1, <3>2
      <4>5. CASE y # b + 1
        <5>1. b + 1 \in q + 1..y - 1
          BY <4>1, <4>5, <3>5, <3>2, <1>3
        <5>2. list[b + 1].depth > list[q].depth
          BY <5>1, <3>1
        <5>3. QED
          BY <5>2, <4>2, <4>3, <3>2
      <4>6. QED
        BY <4>4, <4>5
    <3>6. QED
      BY <3>2, <3>3, <3>4, <3>5, <1>3
  <2>5. QED
    BY <2>2, <2>3, <2>4
<1>13. QED
  BY <1>4, <1>10, <1>11, <1>12 DEF WellNested

(* The block at i, moved to another parent and depth. *)
Shifted(list, i, b, up, depth) ==
  [k \in 1..b - i + 1 |->
     [id |-> list[i + k - 1].id,
      up |-> IF k = 1 THEN up ELSE list[i + k - 1].up,
      depth |-> list[i + k - 1].depth + depth - list[i].depth]]

LEMMA ShiftedNested ==
  ASSUME NEW list, WellNested(list), NEW i \in DOMAIN list, NEW b, EndsBlock(list, i, b),
         NEW up \in Node \cup {Top}, NEW depth \in Nat,
         NEW block, block = Shifted(list, i, b, up, depth)
  PROVE  /\ Nested(block) /\ Len(block) = b - i + 1
         /\ Ids(block) = {list[k].id : k \in i..b}
         /\ block[1].id = list[i].id /\ block[1].up = up /\ block[1].depth = depth
<1>1. /\ list \in Seq(FlatCategory) /\ DOMAIN list = 1..Len(list) /\ Len(list) \in Nat
      /\ i \in 1..Len(list) /\ b \in i..Len(list)
  BY DEF WellNested, EndsBlock
<1>a. b - i + 1 \in Nat
  BY <1>1
<1>2. PICK len \in Nat, n \in Nat : len = Len(list) /\ n = b - i + 1
  BY <1>1, <1>a
<1>3. i \in Nat /\ b \in Nat /\ i >= 1 /\ i <= b /\ b <= len /\ n = b - i + 1 /\ n >= 1
  BY <1>1, <1>2
<1>4. \A k \in 1..len : /\ list[k].depth \in Nat /\ list[k].id \in Node
                        /\ list[k].up \in Node \cup {Top} /\ list[k] \in FlatCategory
  BY <1>1, <1>2, RowFields DEF FlatCategory
<1>5. \A m \in i + 1..b : list[m].depth > list[i].depth
  BY DEF EndsBlock
<1>6. \A x, y \in 1..len : list[x].id = list[y].id => x = y
  BY <1>1, <1>2 DEF WellNested
<1>7. \A k \in 1..n : i + k - 1 \in i..b /\ i + k - 1 \in 1..len
  BY <1>3, <1>2
<1>8. DOMAIN block = 1..n /\ \A k \in 1..n :
        /\ block[k].id = list[i + k - 1].id
        /\ block[k].up = IF k = 1 THEN up ELSE list[i + k - 1].up
        /\ block[k].depth = list[i + k - 1].depth + depth - list[i].depth
        /\ block[k] = [id |-> block[k].id, up |-> block[k].up, depth |-> block[k].depth]
  BY <1>2 DEF Shifted
<1>9. \A k \in 1..n : list[i + k - 1].depth >= list[i].depth /\ block[k].depth \in Nat
  <2> TAKE k \in 1..n
  <2>1. i + k - 1 = i \/ i + k - 1 \in i + 1..b
    BY <1>7, <1>3
  <2>2. list[i + k - 1].depth \in Nat /\ list[i].depth \in Nat
    BY <1>4, <1>7, <1>1, <1>2
  <2>3. list[i + k - 1].depth >= list[i].depth
    BY <2>1, <2>2, <1>5
  <2>4. block[k].depth = list[i + k - 1].depth + depth - list[i].depth
    BY <1>8
  <2>5. QED
    BY <2>2, <2>3, <2>4
<1>10. block \in Seq(FlatCategory) /\ Len(block) = n
  <2>1. \A k \in 1..n : block[k] \in FlatCategory
    <3> TAKE k \in 1..n
    <3>1. block[k].id \in Node /\ block[k].up \in Node \cup {Top} /\ block[k].depth \in Nat
      BY <1>4, <1>7, <1>8, <1>9
    <3>2. QED
      BY <3>1, <1>8 DEF FlatCategory
  <2>2. block = [k \in 1..n |-> block[k]]
    BY <1>2 DEF Shifted
  <2>3. block \in [1..n -> FlatCategory]
    BY <2>1, <2>2
  <2>4. QED
    BY <2>3
<1>11. Ids(block) = {list[k].id : k \in i..b}
  <2>1. \A k \in i..b : k - i + 1 \in 1..n /\ i + (k - i + 1) - 1 = k
    BY <1>3
  <2>2. ASSUME NEW x \in Ids(block)
        PROVE  x \in {list[k].id : k \in i..b}
    <3>1. PICK k \in 1..n : x = block[k].id
      BY <1>8 DEF Ids
    <3>2. QED
      BY <3>1, <1>7, <1>8
  <2>3. ASSUME NEW k \in i..b
        PROVE  list[k].id \in Ids(block)
    <3>1. PICK j \in 1..n : i + j - 1 = k
      BY <2>1
    <3>2. block[j].id = list[k].id
      BY <3>1, <1>8
    <3>3. j \in DOMAIN block
      BY <1>8
    <3>4. block[j].id \in Ids(block)
      BY <3>3 DEF Ids
    <3>5. QED
      BY <3>2, <3>4
  <2>4. QED
    BY <2>2, <2>3
<1>12. \A j, k \in DOMAIN block : block[j].id = block[k].id => j = k
  <2>1. SUFFICES ASSUME NEW j \in 1..n, NEW k \in 1..n, block[j].id = block[k].id
                 PROVE  j = k
    BY <1>8
  <2>2. i + j - 1 = i + k - 1
    BY <2>1, <1>6, <1>7, <1>8
  <2>3. QED
    BY <2>2, <1>3
<1>13. \A k \in 2..n :
         /\ block[k].depth > block[1].depth
         /\ \E j \in 1..k - 1 : ParentOf(block, j, k)
  <2> TAKE k \in 2..n
  <2>1. PICK y : y = i + k - 1
    OBVIOUS
  <2>2. y \in i + 1..b /\ y \in 1..len /\ k \in 1..n /\ 1 \in 1..n /\ i + 1 - 1 = i /\ y \in Nat /\ k \in Nat
    BY <2>1, <1>3, <1>2
  <2>3. list[y].depth > list[i].depth /\ list[y].depth \in Nat /\ list[i].depth \in Nat
    BY <2>2, <1>5, <1>4, <1>1, <1>2
  <2>4. /\ block[k].id = list[y].id /\ block[k].up = list[y].up
        /\ block[k].depth = list[y].depth + depth - list[i].depth
    BY <2>1, <2>2, <1>8
  <2>5. block[1].depth = list[i].depth + depth - list[i].depth
    BY <2>2, <1>8
  <2>6. block[k].depth > block[1].depth
    BY <2>3, <2>4, <2>5
  <2>7. PICK q \in 1..y - 1 : ParentOf(list, q, y)
    <3>1. list[y].depth # 0
      BY <2>3
    <3>2. QED
      BY <3>1, <2>2, <1>1, <1>2 DEF WellNested
  <2>8. /\ list[q].id = list[y].up /\ list[y].depth = list[q].depth + 1
        /\ \A m \in q + 1..y - 1 : list[m].depth > list[q].depth
        /\ q \in 1..len /\ q \in Nat /\ list[q].depth \in Nat
    BY <2>2, <2>7, <1>2, <1>4 DEF ParentOf
  <2>9. q >= i
    <3>1. SUFFICES ASSUME q < i
                   PROVE  FALSE
      BY <2>8, <1>3
    <3>2. i \in q + 1..y - 1
      BY <3>1, <2>2, <2>8, <1>3
    <3>3. list[i].depth > list[q].depth
      BY <3>2, <2>8
    <3>4. QED
      BY <3>3, <2>3, <2>8
  <2>10. q - i + 1 \in 1..k - 1 /\ q - i + 1 \in 1..n /\ i + (q - i + 1) - 1 = q
    BY <2>1, <2>2, <2>7, <2>8, <2>9, <1>3
  <2>11. /\ block[q - i + 1].id = list[q].id
         /\ block[q - i + 1].depth = list[q].depth + depth - list[i].depth
    BY <2>10, <1>8
  <2>12. \A m \in q - i + 1 + 1..k - 1 : block[m].depth > block[q - i + 1].depth
    <3> TAKE m \in q - i + 1 + 1..k - 1
    <3>a. m \in Int /\ m >= q - i + 2 /\ m <= k - 1 /\ q \in Nat /\ i \in Nat /\ k \in Nat /\ k <= n
      BY <2>2, <2>8, <1>3
    <3>1. i + m - 1 \in q + 1..y - 1 /\ m \in 1..n /\ i + m - 1 \in 1..len
      <4>1. y = i + k - 1 /\ q >= i /\ n \in Nat /\ b <= len /\ n = b - i + 1 /\ i >= 1 /\ len \in Nat /\ b \in Nat
        BY <2>1, <2>9, <1>3, <1>2
      <4>2. QED
        BY <3>a, <4>1
    <3>2. list[i + m - 1].depth > list[q].depth /\ list[i + m - 1].depth \in Nat
      BY <3>1, <2>8, <1>4
    <3>3. block[m].depth = list[i + m - 1].depth + depth - list[i].depth
      BY <3>1, <1>8
    <3>4. QED
      BY <3>2, <3>3, <2>3, <2>8, <2>11
  <2>13. ParentOf(block, q - i + 1, k)
    <3>1. block[q - i + 1].id = block[k].up
      BY <2>4, <2>8, <2>11
    <3>2. block[k].depth = block[q - i + 1].depth + 1
      BY <2>3, <2>4, <2>8, <2>11
    <3>3. QED
      BY <3>1, <3>2, <2>12 DEF ParentOf
  <2>14. QED
    BY <2>6, <2>10, <2>13
<1>14. block[1].id = list[i].id /\ block[1].up = up /\ block[1].depth = depth
  <2>1. 1 \in 1..n /\ i + 1 - 1 = i /\ list[i].depth \in Nat
    BY <1>1, <1>2, <1>3, <1>4
  <2>2. /\ block[1].id = list[i].id /\ block[1].up = up
        /\ block[1].depth = list[i].depth + depth - list[i].depth
    BY <2>1, <1>8
  <2>3. QED
    BY <2>1, <2>2
<1>15. QED
  BY <1>2, <1>3, <1>10, <1>11, <1>12, <1>13, <1>14 DEF Nested

(* A block moved to where it fits. *)
LEMMA MovedNested ==
  ASSUME NEW list, WellNested(list), NEW i \in DOMAIN list, NEW b, EndsBlock(list, i, b),
         NEW rows, rows = Removed(list, i, b), NEW at \in 0..Len(rows),
         NEW up \in Node \cup {Top}, NEW depth \in Nat,
         Fits(rows, at, [up |-> up, depth |-> depth]),
         NEW moved, moved = Inserted(rows, at, Shifted(list, i, b, up, depth))
  PROVE  WellNested(moved) /\ Ids(moved) = Ids(list)
<1>1. WellNested(rows) /\ Ids(rows) = Ids(list) \ {list[k].id : k \in i..b}
  BY RemovedNested
<1>2. PICK block : block = Shifted(list, i, b, up, depth)
  OBVIOUS
<1>3. /\ Nested(block) /\ Ids(block) = {list[k].id : k \in i..b}
      /\ block[1].up = up /\ block[1].depth = depth
  BY <1>2, ShiftedNested
<1>4. Fits(rows, at, block[1])
  BY <1>3 DEF Fits
<1>5. Ids(rows) \cap Ids(block) = {}
  BY <1>1, <1>3
<1>6. WellNested(moved) /\ Ids(moved) = Ids(rows) \cup Ids(block)
  BY <1>1, <1>2, <1>3, <1>4, <1>5, InsertedNested
<1>7. Ids(block) \subseteq Ids(list)
  <2>1. \A k \in i..b : k \in DOMAIN list
    BY DEF EndsBlock, WellNested
  <2>2. QED
    BY <2>1, <1>3 DEF Ids
<1>8. QED
  BY <1>1, <1>3, <1>6, <1>7

LEMMA MaxOfTwo ==
  ASSUME NEW x \in Int, NEW y \in Int
  PROVE  /\ Max({x, y}) = IF x >= y THEN x ELSE y
         /\ Min({x, y}) = IF x <= y THEN x ELSE y
<1>1. \A m \in {x, y} : (\A n \in {x, y} : m >= n) => m = IF x >= y THEN x ELSE y
  OBVIOUS
<1>2. \A m \in {x, y} : (\A n \in {x, y} : m <= n) => m = IF x <= y THEN x ELSE y
  OBVIOUS
<1>3. (\E m \in {x, y} : \A n \in {x, y} : m >= n) /\ (\E m \in {x, y} : \A n \in {x, y} : m <= n)
  OBVIOUS
<1>4. Max({x, y}) \in {x, y} /\ \A n \in {x, y} : Max({x, y}) >= n
  BY <1>3 DEF Max
<1>5. Min({x, y}) \in {x, y} /\ \A n \in {x, y} : Min({x, y}) <= n
  BY <1>3 DEF Min
<1>6. QED
  BY <1>1, <1>2, <1>4, <1>5

(* How deep a row may come out, and under what, is where it fits. *)
LEMMA DropFits ==
  ASSUME NEW rows, WellNested(rows), NEW at \in 0..Len(rows), NEW depth \in Depths(rows, at)
  PROVE  /\ depth \in Nat /\ ParentForDepth(rows, at, depth) \in Node \cup {Top}
         /\ Fits(rows, at, [up |-> ParentForDepth(rows, at, depth), depth |-> depth])
<1>1. rows \in Seq(FlatCategory) /\ DOMAIN rows = 1..Len(rows) /\ Len(rows) \in Nat
  BY DEF WellNested
<1>2. PICK n \in Nat : n = Len(rows)
  BY <1>1
<1>3. at \in Nat /\ at <= n
  BY <1>2
<1>4. \A k \in 1..n : rows[k].depth \in Nat /\ rows[k].id \in Node
  BY <1>1, <1>2, RowFields
<1>5. /\ \A k \in 1..n : k = 1 => rows[k].depth = 0
      /\ \A k \in 1..n : k > 1 => rows[k].depth <= rows[k - 1].depth + 1
  BY <1>1, <1>2, StepByOne
<1>6. PICK least : least = IF at = n THEN 0 ELSE rows[at + 1].depth
  OBVIOUS
<1>7. least \in Nat
  <2>1. at # n => at + 1 \in 1..n
    BY <1>2, <1>3
  <2>2. QED
    BY <2>1, <1>4, <1>6
<1>8. Deepest(rows, at) \in Int /\ (at = 0 => Deepest(rows, at) = 0)
      /\ (at # 0 => Deepest(rows, at) <= rows[at].depth + 1)
  <2>1. at = 0 => Deepest(rows, at) = 0
    BY DEF Deepest
  <2>2. ASSUME at # 0
        PROVE  Deepest(rows, at) \in Int /\ Deepest(rows, at) <= rows[at].depth + 1
    <3>1. at \in 1..n
      BY <2>2, <1>2, <1>3
    <3>2. rows[at].depth + 1 \in Int /\ MaxDepth \in Int
      BY <3>1, <1>4, CategoryPanelAssumption
    <3>3. Deepest(rows, at) = Min({rows[at].depth + 1, MaxDepth})
      BY <2>2 DEF Deepest
    <3>4. PICK x \in Int, y \in Int : x = rows[at].depth + 1 /\ y = MaxDepth
      BY <3>2
    <3>5. Min({x, y}) = IF x <= y THEN x ELSE y
      BY MaxOfTwo
    <3>6. QED
      BY <3>3, <3>4, <3>5
  <2>3. QED
    BY <2>1, <2>2
<1>9. depth \in least..Max({least, Deepest(rows, at)})
  BY <1>2, <1>6 DEF Depths
<1>10. /\ depth \in Int /\ depth >= least
       /\ depth <= least \/ depth <= Deepest(rows, at)
  <2>1. PICK x \in Int, y \in Int : x = least /\ y = Deepest(rows, at)
    BY <1>7, <1>8
  <2>2. Max({x, y}) = IF x >= y THEN x ELSE y
    BY MaxOfTwo
  <2>3. depth \in x..Max({x, y})
    BY <1>9, <2>1
  <2>4. depth \in Int /\ depth >= x /\ (depth <= x \/ depth <= y)
    BY <2>2, <2>3
  <2>5. QED
    BY <2>1, <2>4
<1>11. depth \in Nat
  BY <1>7, <1>10
<1>12. at = 0 => depth = 0
  <2>1. SUFFICES ASSUME at = 0
                 PROVE  depth = 0
    OBVIOUS
  <2>2. least = 0
    <3>1. n # 0 => 1 \in 1..n
      BY <1>2
    <3>2. QED
      BY <3>1, <2>1, <1>5, <1>6
  <2>3. QED
    BY <2>1, <2>2, <1>8, <1>10
<1>13. at # 0 => depth <= rows[at].depth + 1
  <2>1. SUFFICES ASSUME at # 0
                 PROVE  depth <= rows[at].depth + 1
    OBVIOUS
  <2>2. at \in 1..n /\ rows[at].depth \in Nat
    BY <2>1, <1>2, <1>3, <1>4
  <2>3. least <= rows[at].depth + 1
    <3>1. CASE at = n
      BY <3>1, <2>2, <1>6
    <3>2. CASE at # n
      <4>1. at + 1 \in 1..n /\ at + 1 > 1 /\ (at + 1) - 1 = at
        BY <3>2, <2>1, <1>2, <1>3
      <4>2. rows[at + 1].depth <= rows[(at + 1) - 1].depth + 1
        BY <4>1, <1>5
      <4>3. QED
        BY <4>1, <4>2, <3>2, <1>6
    <3>3. QED
      BY <3>1, <3>2
  <2>4. QED
    BY <2>1, <2>2, <2>3, <1>7, <1>8, <1>10, <1>11
<1> DEFINE over == {k \in 1..at : rows[k].depth < depth}
<1>14. CASE over = {}
  <2>1. depth = 0
    <3>1. CASE at = 0
      BY <3>1, <1>12
    <3>2. CASE at # 0
      <4>1. 1 \in 1..at /\ 1 \in 1..n
        BY <3>2, <1>2, <1>3
      <4>2. rows[1].depth = 0 /\ ~(rows[1].depth < depth)
        BY <4>1, <1>5, <1>14
      <4>3. QED
        BY <4>2, <1>11
    <3>3. QED
      BY <3>1, <3>2
  <2>2. ParentForDepth(rows, at, depth) = Top
    BY <1>14 DEF ParentForDepth
  <2>3. at = Len(rows) \/ rows[at + 1].depth <= depth
    BY <1>2, <1>6, <1>10
  <2>4. QED
    BY <2>1, <2>2, <2>3, <1>11 DEF Fits
<1>15. CASE over # {}
  <2>1. PICK j : j = Max(over)
    OBVIOUS
  <2>2. j \in over /\ \A k \in over : k <= j
    <3>1. over \subseteq 0..at
      BY <1>3
    <3>2. Max(over) \in over /\ \A k \in over : k <= Max(over)
      <4> HIDE DEF over
      <4>1. QED  BY <3>1, <1>3, <1>15, GreatestNumber
    <3>3. QED
      BY <2>1, <3>2
  <2>3. j \in 1..at /\ j \in 1..n /\ j \in Nat /\ rows[j].depth < depth /\ rows[j].depth \in Nat
    BY <2>2, <1>2, <1>3, <1>4
  <2>4. \A m \in j + 1..at : rows[m].depth >= depth
    <3> TAKE m \in j + 1..at
    <3>1. m \in 1..at /\ m \in 1..n /\ ~(m <= j)
      BY <2>3, <1>2, <1>3
    <3>2. m \notin over
      BY <3>1, <2>2
    <3>3. QED
      BY <3>1, <3>2, <1>4, <1>11
  <2>5. rows[j].depth = depth - 1
    <3>1. CASE j = at
      BY <3>1, <2>3, <1>11, <1>13, <1>3
    <3>2. CASE j # at
      <4>1. j + 1 \in j + 1..at /\ j + 1 \in 1..n /\ j + 1 > 1 /\ (j + 1) - 1 = j
        BY <3>2, <2>3, <1>2, <1>3
      <4>2. rows[j + 1].depth >= depth /\ rows[j + 1].depth <= rows[(j + 1) - 1].depth + 1
        BY <4>1, <2>4, <1>5
      <4>3. rows[j + 1].depth \in Nat
        BY <4>1, <1>4
      <4>4. QED
        BY <4>1, <4>2, <4>3, <2>3, <1>11
    <3>3. QED
      BY <3>1, <3>2
  <2>6. ParentForDepth(rows, at, depth) = rows[j].id
    <3>1. ParentForDepth(rows, at, depth) =
            IF over # {} /\ rows[Max(over)].depth = depth - 1 THEN rows[Max(over)].id ELSE Top
      BY DEF ParentForDepth
    <3>2. QED
      BY <3>1, <2>1, <2>5, <1>15
  <2>7. at = Len(rows) \/ rows[at + 1].depth <= depth
    BY <1>2, <1>6, <1>10
  <2>8. depth = rows[j].depth + 1 /\ \A m \in j + 1..at : rows[m].depth > rows[j].depth
    <3>1. depth = rows[j].depth + 1
      BY <2>3, <2>5, <1>11
    <3>2. ASSUME NEW m \in j + 1..at
          PROVE  rows[m].depth > rows[j].depth
      <4>1. m \in 1..n
        BY <2>3, <1>2, <1>3
      <4>2. rows[m].depth >= depth /\ rows[m].depth \in Nat
        BY <4>1, <2>4, <1>4
      <4>3. QED
        BY <4>2, <3>1, <2>3
    <3>3. QED
      BY <3>1, <3>2
  <2>9. QED
    BY <2>3, <2>6, <2>7, <2>8, <1>4, <1>11 DEF Fits
<1>16. QED
  BY <1>14, <1>15

(* A drop moves the block to where it fits. *)
LEMMA DropIsMove ==
  ASSUME NEW list, WellNested(list), NEW i \in DOMAIN list, NEW o \in DOMAIN list,
         o \notin i..i + Len(ActiveBlock(list, i)) - 1,
         NEW dropped \in Drops(list, i, o)
  PROVE  WellNested(dropped) /\ Ids(dropped) = Ids(list)
<1>1. list \in Seq(FlatCategory) /\ DOMAIN list = 1..Len(list) /\ Len(list) \in Nat
  BY DEF WellNested
<1>2. PICK b \in i..Len(list) : ActiveBlock(list, i) = SubSeq(list, i, b) /\ EndsBlock(list, i, b)
  BY <1>1, BlockEnds
<1>3. PICK block : block = ActiveBlock(list, i)
  OBVIOUS
<1>4. /\ i \in Nat /\ b \in Nat /\ i >= 1 /\ i <= b /\ b <= Len(list)
      /\ o \in Nat /\ o >= 1 /\ o <= Len(list)
  BY <1>1
<1>5. PICK n \in Nat : n = b - i + 1
  BY <1>4
<1>6. /\ block \in Seq(FlatCategory) /\ Len(block) = n /\ DOMAIN block = 1..n
      /\ \A k \in 1..n : block[k] = list[i + k - 1]
  BY <1>1, <1>2, <1>3, <1>4, <1>5
<1>7. i + Len(block) = b + 1 /\ i + Len(block) - 1 = b
  BY <1>4, <1>5, <1>6
<1>8. o < i \/ o > b
  <2>1. o \notin i..b
    BY <1>3, <1>7
  <2>2. QED
    BY <2>1, <1>4
<1>9. PICK rows : rows = Removed(list, i, b)
  OBVIOUS
<1>10. rows = SubSeq(list, 1, i - 1) \o SubSeq(list, i + Len(block), Len(list))
  BY <1>7, <1>9 DEF Removed
<1>11. PICK at : at = IF i < o THEN o - Len(block) ELSE o - 1
  OBVIOUS
<1>12. WellNested(rows) /\ Len(rows) = Len(list) - n
  BY <1>1, <1>2, <1>5, <1>9, RemovedNested, RemovedAt
<1>13. at \in 0..Len(rows)
  <2>1. PICK len \in Nat : len = Len(list)
    BY <1>1
  <2>2. Len(rows) = len - n /\ Len(block) = n /\ b <= len /\ o <= len
    BY <1>4, <1>6, <1>12, <2>1
  <2>3. QED
    BY <2>2, <1>4, <1>5, <1>8, <1>11
<1>14. PICK depth \in Depths(rows, at) :
         dropped = SubSeq(rows, 1, at)
                     \o [k \in DOMAIN block |->
                           [block[k] EXCEPT
                              !.depth = @ + depth - list[i].depth,
                              !.up = IF k = 1 THEN ParentForDepth(rows, at, depth) ELSE @]]
                     \o SubSeq(rows, at + 1, Len(rows))
  BY <1>3, <1>10, <1>11 DEF Drops
<1>15. PICK up : up = ParentForDepth(rows, at, depth)
  OBVIOUS
<1>16. /\ depth \in Nat /\ up \in Node \cup {Top}
       /\ Fits(rows, at, [up |-> up, depth |-> depth])
  BY <1>12, <1>13, <1>15, DropFits
<1>17. [k \in DOMAIN block |->
          [block[k] EXCEPT
             !.depth = @ + depth - list[i].depth,
             !.up = IF k = 1 THEN up ELSE @]] = Shifted(list, i, b, up, depth)
  <2>1. ASSUME NEW k \in 1..n
        PROVE  [block[k] EXCEPT
                  !.depth = @ + depth - list[i].depth,
                  !.up = IF k = 1 THEN up ELSE @]
               = [id |-> list[i + k - 1].id,
                  up |-> IF k = 1 THEN up ELSE list[i + k - 1].up,
                  depth |-> list[i + k - 1].depth + depth - list[i].depth]
    <3>1. block[k] \in FlatCategory /\ block[k] = list[i + k - 1]
      BY <1>6, RowFields
    <3>2. PICK r \in [id : Node, up : Node \cup {Top}, depth : Nat] : r = list[i + k - 1]
      BY <3>1 DEF FlatCategory
    <3>3. [r EXCEPT !.depth = @ + depth - list[i].depth, !.up = IF k = 1 THEN up ELSE @]
            = [id |-> r.id, up |-> IF k = 1 THEN up ELSE r.up,
               depth |-> r.depth + depth - list[i].depth]
      <4>1. PICK x, y : x = r.depth + depth - list[i].depth /\ y = IF k = 1 THEN up ELSE r.up
        OBVIOUS
      <4>2. PICK S, T : r \in [id : Node, up : S, depth : T] /\ y \in S /\ x \in T
        <5>1. r \in [id : Node, up : {r.up, y}, depth : {r.depth, x}]
          OBVIOUS
        <5>2. QED
          BY <5>1
      <4>3. [r EXCEPT !.depth = x, !.up = y] = [id |-> r.id, up |-> y, depth |-> x]
        <5>1. PICK q : q = [r EXCEPT !.depth = x, !.up = y]
          OBVIOUS
        <5>2. PICK s : s = [id |-> r.id, up |-> y, depth |-> x]
          OBVIOUS
        <5>3. q \in [id : Node, up : S, depth : T] /\ q.id = r.id /\ q.up = y /\ q.depth = x
          BY <4>2, <5>1
        <5>4. s \in [id : Node, up : S, depth : T] /\ s.id = r.id /\ s.up = y /\ s.depth = x
          BY <4>2, <5>2
        <5>5. QED
          BY <5>1, <5>2, <5>3, <5>4
      <4>4. QED
        BY <4>1, <4>3
    <3>4. QED
      BY <3>1, <3>2, <3>3
  <2>2. QED
    BY <2>1, <1>5, <1>6 DEF Shifted
<1>18. dropped = Inserted(rows, at, Shifted(list, i, b, up, depth))
  BY <1>14, <1>15, <1>17 DEF Inserted
<1>19. QED
  <2>1. EndsBlock(list, i, b)
    BY <1>2
  <2>2. depth \in Nat /\ up \in Node \cup {Top}
    BY <1>16
  <2>3. Fits(rows, at, [up |-> up, depth |-> depth])
    BY <1>16
  <2>4. QED
    BY <2>1, <2>2, <2>3, <1>9, <1>13, <1>18, MovedNested

(* A block has one end. *)
LEMMA OneEnd ==
  ASSUME NEW list \in Seq(FlatCategory), NEW i \in DOMAIN list,
         NEW b, EndsBlock(list, i, b), NEW c, EndsBlock(list, i, c)
  PROVE  b = c
<1>1. /\ i \in 1..Len(list) /\ Len(list) \in Nat
      /\ b \in i..Len(list) /\ c \in i..Len(list)
  BY DEF EndsBlock
<1>2. \A m \in DOMAIN list : list[m].depth \in Nat
  BY RowFields
<1>3. ASSUME NEW x, EndsBlock(list, i, x), NEW y, EndsBlock(list, i, y), x < y
      PROVE  FALSE
  <2>1. x \in i..Len(list) /\ y \in i..Len(list)
    BY <1>3 DEF EndsBlock
  <2>2. x + 1 \in i + 1..y /\ x + 1 \in 1..Len(list) /\ x # Len(list)
    BY <1>1, <1>3, <2>1
  <2>3. list[x + 1].depth > list[i].depth /\ list[x + 1].depth <= list[i].depth
    BY <2>2, <1>3 DEF EndsBlock
  <2>4. list[x + 1].depth \in Nat /\ list[i].depth \in Nat
    BY <1>2, <2>2
  <2>5. QED
    BY <2>3, <2>4
<1>4. ~(b < c) /\ ~(c < b)
  BY <1>3
<1>5. QED
  BY <1>1, <1>4

(* The rows of a family next to each other. *)
Neighbours(list, j, i) ==
  /\ j \in 1..i - 1 /\ list[j].up = list[i].up
  /\ \A m \in j + 1..i - 1 : list[m].up # list[i].up

(* The block of the upper neighbour ends where the other begins. *)
LEMMA NeighbourBlock ==
  ASSUME NEW list, WellNested(list), NEW i \in DOMAIN list, NEW j, Neighbours(list, j, i)
  PROVE  EndsBlock(list, j, i - 1) /\ list[j].depth = list[i].depth
<1>1. /\ list \in Seq(FlatCategory) /\ DOMAIN list = 1..Len(list) /\ Len(list) \in Nat
      /\ i \in 1..Len(list)
  BY DEF WellNested
<1>2. j \in 1..i - 1 /\ j \in DOMAIN list /\ list[j].up = list[i].up
  BY <1>1 DEF Neighbours
<1>3. list[j].depth = list[i].depth
  BY <1>2, FamilyDepth
<1>4. \A m \in 1..Len(list) : list[m].depth \in Nat
  BY <1>1, RowFields
<1>5. ASSUME NEW m \in j + 1..i - 1
      PROVE  list[m].depth > list[j].depth
  <2>1. m \in 1..Len(list) /\ m \in DOMAIN list /\ list[m].depth \in Nat /\ list[m].up # list[i].up
    BY <1>1, <1>2, <1>4 DEF Neighbours
  <2>2. CASE list[i].up = Top
    <3>1. list[i].depth = 0 /\ list[m].depth # 0
      BY <2>1, <2>2, NamedIsParent
    <3>2. QED
      BY <3>1, <2>1, <1>3
  <2>3. CASE list[i].up # Top
    <3>1. PICK p \in 1..i - 1 : ParentOf(list, p, i)
      BY <2>3, NamedIsParent
    <3>2. p \in DOMAIN list /\ p \in 1..Len(list)
      BY <3>1, <1>1
    <3>3. p \in 1..j - 1
      BY <3>1, <3>2, <1>2, NamedIsParent DEF ParentOf
    <3>4. PICK e \in p..Len(list) : EndsBlock(list, p, e)
      BY <1>1, <3>2, BlockEnds
    <3>5. list[i].up = list[p].id /\ list[i].depth = list[p].depth + 1
      BY <3>1 DEF ParentOf
    <3>6. i \in p + 1..e
      BY <3>2, <3>4, <3>5, ChildrenInBlock
    <3>7. m \in p + 1..e
      BY <3>3, <3>6, <3>4, <1>1, <1>2
    <3>8. list[m].depth > list[p].depth
      BY <3>7, <3>4 DEF EndsBlock
    <3>9. list[m].depth # list[p].depth + 1
      BY <3>2, <3>4, <3>5, <3>7, <2>1, ChildrenInBlock
    <3>10. list[p].depth \in Nat /\ list[i].depth \in Nat
      BY <3>2, <1>1, <1>4
    <3>11. QED
      BY <3>5, <3>8, <3>9, <3>10, <2>1, <1>3
  <2>4. QED
    BY <2>2, <2>3
<1>6. i - 1 \in j..Len(list) /\ (i - 1) + 1 = i /\ list[i].depth <= list[j].depth
  BY <1>1, <1>2, <1>3, <1>4
<1>7. QED
  BY <1>3, <1>5, <1>6 DEF EndsBlock

(* Two neighbours that change places. *)
Swapped(list, j, i, b) ==
  SubSeq(list, 1, j - 1) \o SubSeq(list, i, b) \o SubSeq(list, j, i - 1)
    \o SubSeq(list, b + 1, Len(list))

LEMMA SwappedAt ==
  ASSUME NEW list \in Seq(FlatCategory), NEW i \in 1..Len(list), NEW b \in i..Len(list),
         NEW j \in 1..i - 1
  PROVE  /\ Swapped(list, j, i, b) \in Seq(FlatCategory)
         /\ Len(Swapped(list, j, i, b)) = Len(list)
         /\ \A k \in 1..j - 1 : Swapped(list, j, i, b)[k] = list[k]
         /\ \A k \in i..b : Swapped(list, j, i, b)[k - i + j] = list[k]
         /\ \A k \in j..i - 1 : Swapped(list, j, i, b)[k + b - i + 1] = list[k]
         /\ \A k \in b + 1..Len(list) : Swapped(list, j, i, b)[k] = list[k]
<1>0. PICK q : q = Swapped(list, j, i, b)
  OBVIOUS
<1>1. PICK s1 : s1 = SubSeq(list, 1, j - 1)
  OBVIOUS
<1>2. PICK s2 : s2 = SubSeq(list, i, b)
  OBVIOUS
<1>3. PICK s3 : s3 = SubSeq(list, j, i - 1)
  OBVIOUS
<1>4. PICK s4 : s4 = SubSeq(list, b + 1, Len(list))
  OBVIOUS
<1>5. s1 \in Seq(FlatCategory) /\ Len(s1) = j - 1 /\ \A k \in 1..j - 1 : s1[k] = list[k]
  BY <1>1
<1>6. s2 \in Seq(FlatCategory) /\ Len(s2) = b - i + 1 /\ \A k \in 1..b - i + 1 : s2[k] = list[i - 1 + k]
  BY <1>2
<1>7. s3 \in Seq(FlatCategory) /\ Len(s3) = i - j /\ \A k \in 1..i - j : s3[k] = list[j - 1 + k]
  BY <1>3
<1>8. s4 \in Seq(FlatCategory) /\ Len(s4) = Len(list) - b /\ \A k \in 1..Len(list) - b : s4[k] = list[b + k]
  BY <1>4
<1>9. PICK t2 : t2 = s1 \o s2
  OBVIOUS
<1>10. /\ t2 \in Seq(FlatCategory) /\ Len(t2) = Len(s1) + Len(s2)
       /\ \A k \in 1..Len(s1) : t2[k] = s1[k]
       /\ \A k \in 1..Len(s2) : t2[Len(s1) + k] = s2[k]
  BY <1>5, <1>6, <1>9, JoinedAt
<1>11. PICK t3 : t3 = t2 \o s3
  OBVIOUS
<1>12. /\ t3 \in Seq(FlatCategory) /\ Len(t3) = Len(t2) + Len(s3)
       /\ \A k \in 1..Len(t2) : t3[k] = t2[k]
       /\ \A k \in 1..Len(s3) : t3[Len(t2) + k] = s3[k]
  BY <1>10, <1>7, <1>11, JoinedAt
<1>13. q = t3 \o s4
  BY <1>0, <1>1, <1>2, <1>3, <1>4, <1>9, <1>11 DEF Swapped
<1>14. /\ q \in Seq(FlatCategory) /\ Len(q) = Len(t3) + Len(s4)
       /\ \A k \in 1..Len(t3) : q[k] = t3[k]
       /\ \A k \in 1..Len(s4) : q[Len(t3) + k] = s4[k]
  <2>1. /\ t3 \o s4 \in Seq(FlatCategory) /\ Len(t3 \o s4) = Len(t3) + Len(s4)
        /\ \A k \in 1..Len(t3) : (t3 \o s4)[k] = t3[k]
        /\ \A k \in 1..Len(s4) : (t3 \o s4)[Len(t3) + k] = s4[k]
    BY <1>12, <1>8, JoinedAt
  <2>2. QED
    BY <2>1, <1>13
<1>15. PICK len \in Nat : len = Len(list)
  OBVIOUS
<1>16. /\ i \in Nat /\ b \in Nat /\ j \in Nat /\ i <= b /\ b <= len /\ j >= 1 /\ j < i
       /\ Len(s1) = j - 1 /\ Len(s2) = b - i + 1 /\ Len(s3) = i - j /\ Len(s4) = len - b
       /\ Len(t2) = j - 1 + (b - i + 1) /\ Len(t3) = b
  BY <1>5, <1>6, <1>7, <1>8, <1>10, <1>12, <1>15
<1>17. Len(q) = len
  BY <1>14, <1>16
<1>18. ASSUME NEW k \in 1..j - 1
       PROVE  q[k] = list[k]
  <2>1. k \in 1..Len(s1) /\ k \in 1..Len(t2) /\ k \in 1..Len(t3)
    BY <1>16
  <2>2. QED
    BY <2>1, <1>5, <1>10, <1>12, <1>14
<1>19. ASSUME NEW k \in i..b
       PROVE  q[k - i + j] = list[k]
  <2>1. PICK m \in Nat : m = k - i + 1
    BY <1>16
  <2>2. /\ m \in 1..Len(s2) /\ m \in 1..b - i + 1 /\ Len(s1) + m = k - i + j /\ i - 1 + m = k
        /\ k - i + j \in 1..Len(t2) /\ k - i + j \in 1..Len(t3)
    BY <1>16, <2>1
  <2>3. t2[k - i + j] = list[k]
    BY <2>2, <1>6, <1>10
  <2>4. QED
    BY <2>2, <2>3, <1>12, <1>14
<1>20. ASSUME NEW k \in j..i - 1
       PROVE  q[k + b - i + 1] = list[k]
  <2>1. PICK m \in Nat : m = k - j + 1
    BY <1>16
  <2>2. /\ m \in 1..Len(s3) /\ m \in 1..i - j /\ Len(t2) + m = k + b - i + 1 /\ j - 1 + m = k
        /\ k + b - i + 1 \in 1..Len(t3)
    BY <1>16, <2>1
  <2>3. t3[k + b - i + 1] = list[k]
    BY <2>2, <1>7, <1>12
  <2>4. QED
    BY <2>2, <2>3, <1>14
<1>21. ASSUME NEW k \in b + 1..Len(list)
       PROVE  q[k] = list[k]
  <2>1. PICK m \in Nat : m = k - b
    BY <1>15, <1>16
  <2>2. m \in 1..Len(s4) /\ m \in 1..Len(list) - b /\ Len(t3) + m = k /\ b + m = k
    BY <1>15, <1>16, <2>1
  <2>3. QED
    BY <2>2, <1>8, <1>14
<1>22. QED
  BY <1>0, <1>14, <1>15, <1>17, <1>18, <1>19, <1>20, <1>21

LEMMA SwapIsMove ==
  ASSUME NEW list, WellNested(list), NEW i \in DOMAIN list, NEW b, EndsBlock(list, i, b),
         NEW j \in 1..i - 1
  PROVE  Swapped(list, j, i, b)
           = Inserted(Removed(list, i, b), j - 1, Shifted(list, i, b, list[i].up, list[i].depth))
<1>1. /\ list \in Seq(FlatCategory) /\ DOMAIN list = 1..Len(list) /\ Len(list) \in Nat
      /\ i \in 1..Len(list) /\ b \in i..Len(list)
  BY DEF WellNested, EndsBlock
<1>2. PICK len \in Nat : len = Len(list)
  BY <1>1
<1>3. /\ i \in Nat /\ b \in Nat /\ j \in Nat /\ i <= b /\ b <= len /\ j >= 1 /\ j < i
  BY <1>1, <1>2
<1>4. PICK n \in Nat : n = b - i + 1
  BY <1>3
<1>5. PICK block : block = Shifted(list, i, b, list[i].up, list[i].depth)
  OBVIOUS
<1>6. list[i].up \in Node \cup {Top} /\ list[i].depth \in Nat
  BY <1>1, RowFields DEF FlatCategory
<1>7. block \in Seq(FlatCategory) /\ Len(block) = n
  BY <1>4, <1>5, <1>6, ShiftedNested DEF Nested
<1>8. \A k \in 1..n : block[k] = list[i + k - 1]
  <2> TAKE k \in 1..n
  <2>1. i + k - 1 \in 1..Len(list) /\ i + 1 - 1 = i
    BY <1>2, <1>3, <1>4
  <2>2. PICK r : r = list[i + k - 1]
    OBVIOUS
  <2>3. r \in FlatCategory /\ block[k] \in FlatCategory
    BY <2>1, <2>2, <1>1, <1>7, RowFields
  <2>4. k \in 1..b - i + 1
    BY <1>4
  <2>5. /\ block[k].id = r.id
        /\ block[k].up = IF k = 1 THEN list[i].up ELSE r.up
        /\ block[k].depth = r.depth + list[i].depth - list[i].depth
    BY <2>2, <2>4, <1>5 DEF Shifted
  <2>6. r.depth \in Nat
    BY <2>3 DEF FlatCategory
  <2>7. block[k].up = r.up
    <3>1. k = 1 => i + k - 1 = i
      BY <1>3
    <3>2. QED
      BY <3>1, <2>2, <2>5
  <2>8. block[k].depth = r.depth
    BY <2>5, <2>6, <1>6
  <2>9. QED
    BY <2>2, <2>3, <2>5, <2>7, <2>8 DEF FlatCategory
<1>9. PICK rows : rows = Removed(list, i, b)
  OBVIOUS
<1>10. /\ rows \in Seq(FlatCategory) /\ Len(rows) = len - n
       /\ \A k \in 1..i - 1 : rows[k] = list[k]
       /\ \A k \in i..Len(rows) : rows[k] = list[k + n]
  BY <1>1, <1>2, <1>4, <1>9, RemovedAt
<1>11. PICK q : q = Inserted(rows, j - 1, block)
  OBVIOUS
<1>12. /\ q \in Seq(FlatCategory) /\ Len(q) = len
       /\ \A k \in 1..j - 1 : q[k] = rows[k]
       /\ \A k \in 1..n : q[j - 1 + k] = block[k]
       /\ \A k \in j..len - n : q[k + n] = rows[k]
  <2>1. j - 1 \in 0..Len(rows)
    BY <1>3, <1>4, <1>10
  <2>2. /\ q \in Seq(FlatCategory) /\ Len(q) = Len(rows) + Len(block)
        /\ \A k \in 1..j - 1 : q[k] = rows[k]
        /\ \A k \in 1..Len(block) : q[j - 1 + k] = block[k]
        /\ \A k \in j - 1 + 1..Len(rows) : q[k + Len(block)] = rows[k]
    BY <2>1, <1>7, <1>10, <1>11, InsertedAt
  <2>3. Len(rows) + Len(block) = len /\ j - 1 + 1 = j
    BY <1>3, <1>4, <1>7, <1>10
  <2>4. QED
    BY <2>2, <2>3, <1>7, <1>10
<1>13. PICK s : s = Swapped(list, j, i, b)
  OBVIOUS
<1>14. /\ s \in Seq(FlatCategory) /\ Len(s) = len
       /\ \A k \in 1..j - 1 : s[k] = list[k]
       /\ \A k \in i..b : s[k - i + j] = list[k]
       /\ \A k \in j..i - 1 : s[k + b - i + 1] = list[k]
       /\ \A k \in b + 1..len : s[k] = list[k]
  BY <1>1, <1>2, <1>13, SwappedAt
<1>15. ASSUME NEW k \in 1..len
       PROVE  s[k] = q[k]
  <2>1. CASE k \in 1..j - 1
    <3>1. k \in 1..i - 1
      BY <2>1, <1>3
    <3>2. QED
      BY <3>1, <2>1, <1>10, <1>12, <1>14
  <2>2. CASE k \in j..j + n - 1
    <3>1. PICK m \in Nat : m = k - j + 1
      BY <2>2, <1>3
    <3>2. PICK x \in Nat : x = i + m - 1
      BY <3>1, <1>3
    <3>3. m \in 1..n /\ x \in i..b /\ j - 1 + m = k /\ x - i + j = k
      BY <3>1, <3>2, <2>2, <1>3, <1>4
    <3>4. q[k] = list[x] /\ s[k] = list[x]
      BY <3>2, <3>3, <1>8, <1>12, <1>14
    <3>5. QED
      BY <3>4
  <2>3. CASE k \in j + n..b
    <3>1. PICK m \in Nat : m = k - n
      BY <2>3, <1>3
    <3>2. m \in j..i - 1 /\ m \in 1..i - 1 /\ m \in j..len - n /\ m + n = k /\ m + b - i + 1 = k
      BY <3>1, <2>3, <1>3, <1>4
    <3>3. q[k] = list[m] /\ s[k] = list[m]
      BY <3>2, <1>10, <1>12, <1>14
    <3>4. QED
      BY <3>3
  <2>4. CASE k \in b + 1..len
    <3>1. PICK m \in Nat : m = k - n
      BY <2>4, <1>3, <1>4
    <3>2. m \in i..Len(rows) /\ m \in j..len - n /\ m + n = k
      BY <3>1, <2>4, <1>3, <1>4, <1>10
    <3>3. q[k] = list[k] /\ s[k] = list[k]
      BY <3>2, <2>4, <1>10, <1>12, <1>14
    <3>4. QED
      BY <3>3
  <2>5. QED
    BY <2>1, <2>2, <2>3, <2>4, <1>3, <1>4
<1>16. s = q
  BY <1>12, <1>14, <1>15
<1>17. QED
  BY <1>5, <1>9, <1>11, <1>13, <1>16

(* Neighbours may change places. *)
LEMMA SwappedNested ==
  ASSUME NEW list, WellNested(list), NEW i \in DOMAIN list, NEW b, EndsBlock(list, i, b),
         NEW j, Neighbours(list, j, i), NEW swapped, swapped = Swapped(list, j, i, b)
  PROVE  WellNested(swapped) /\ Ids(swapped) = Ids(list)
<1>1. /\ list \in Seq(FlatCategory) /\ DOMAIN list = 1..Len(list) /\ Len(list) \in Nat
      /\ i \in 1..Len(list) /\ b \in i..Len(list) /\ j \in 1..i - 1
  BY DEF WellNested, EndsBlock, Neighbours
<1>2. PICK rows : rows = Removed(list, i, b)
  OBVIOUS
<1>3. /\ rows \in Seq(FlatCategory) /\ Len(rows) = Len(list) - (b - i + 1)
      /\ \A k \in 1..i - 1 : rows[k] = list[k]
  BY <1>1, <1>2, RemovedAt
<1>4. j - 1 \in 0..Len(rows) /\ j \in 1..i - 1 /\ (j - 1) + 1 = j /\ \A k \in 1..j - 1 : k \in 1..i - 1
  BY <1>1, <1>3
<1>5. list[j].depth = list[i].depth /\ j \in DOMAIN list /\ list[j].up = list[i].up
  <2>1. list[j].depth = list[i].depth
    BY NeighbourBlock
  <2>2. QED
    BY <2>1, <1>1 DEF Neighbours
<1>6. PICK up, depth : up = list[i].up /\ depth = list[i].depth
  OBVIOUS
<1>7. up \in Node \cup {Top} /\ depth \in Nat
  BY <1>1, <1>6, RowFields DEF FlatCategory
<1>8. rows[(j - 1) + 1].depth <= depth
  BY <1>3, <1>4, <1>5, <1>6, <1>7
<1>9. \/ depth = 0 /\ up = Top
      \/ \E p \in 1..j - 1 : /\ rows[p].id = up /\ depth = rows[p].depth + 1
                             /\ \A m \in p + 1..j - 1 : rows[m].depth > rows[p].depth
  <2>1. CASE list[i].up = Top
    BY <2>1, <1>6, NamedIsParent
  <2>2. CASE list[i].up # Top
    <3>1. PICK p \in 1..j - 1 : ParentOf(list, p, j)
      BY <2>2, <1>5, NamedIsParent
    <3>2. rows[p] = list[p] /\ \A m \in p + 1..j - 1 : rows[m] = list[m] /\ list[m].depth > list[p].depth
      <4>1. \A m \in p + 1..j - 1 : m \in 1..j - 1
        BY <1>1
      <4>2. QED
        BY <4>1, <3>1, <1>3, <1>4 DEF ParentOf
    <3>3. list[p].id = up /\ depth = list[p].depth + 1
      BY <3>1, <1>5, <1>6 DEF ParentOf
    <3>4. QED
      BY <3>2, <3>3
  <2>3. QED
    BY <2>1, <2>2
<1>10. Fits(rows, j - 1, [up |-> up, depth |-> depth])
  BY <1>8, <1>9 DEF Fits
<1>11. swapped = Inserted(rows, j - 1, Shifted(list, i, b, up, depth))
  BY <1>1, <1>2, <1>6, SwapIsMove
<1>12. QED
  BY <1>2, <1>4, <1>7, <1>10, <1>11, MovedNested

(* The parents of what is in a block are in it. *)
LEMMA InsideBlock ==
  ASSUME NEW list, WellNested(list), NEW i \in DOMAIN list, NEW b, EndsBlock(list, i, b),
         NEW k \in i + 1..b
  PROVE  k \in DOMAIN list /\ \E p \in i..k - 1 : ParentOf(list, p, k)
<1>1. /\ list \in Seq(FlatCategory) /\ DOMAIN list = 1..Len(list) /\ Len(list) \in Nat
      /\ i \in 1..Len(list) /\ b \in i..Len(list)
  BY DEF WellNested, EndsBlock
<1>2. k \in DOMAIN list /\ k \in Nat /\ i \in Nat /\ k > i
  BY <1>1
<1>3. \A m \in DOMAIN list : list[m].depth \in Nat
  BY <1>1, RowFields
<1>4. list[k].depth > list[i].depth /\ list[i].depth \in Nat /\ list[k].depth \in Nat
  BY <1>2, <1>3 DEF EndsBlock
<1>5. list[k].up # Top
  BY <1>2, <1>4, NamedIsParent
<1>6. PICK p \in 1..k - 1 : ParentOf(list, p, k)
  BY <1>2, <1>5, NamedIsParent
<1>7. ASSUME p < i
      PROVE  FALSE
  <2>1. i \in p + 1..k - 1 /\ p \in DOMAIN list
    BY <1>1, <1>2, <1>6, <1>7
  <2>2. list[i].depth > list[p].depth /\ list[k].depth = list[p].depth + 1 /\ list[p].depth \in Nat
    BY <2>1, <1>3, <1>6 DEF ParentOf
  <2>3. QED
    BY <2>2, <1>4
<1>8. p \in i..k - 1
  BY <1>2, <1>6, <1>7
<1>9. QED
  BY <1>2, <1>6, <1>8

(* Of the blocks of two neighbours only the neighbours are of one family. *)
LEMMA OtherFamilies ==
  ASSUME NEW list, WellNested(list), NEW i \in DOMAIN list, NEW b, EndsBlock(list, i, b),
         NEW j, Neighbours(list, j, i), NEW x \in i..b, NEW y \in j..i - 1,
         list[x].up = list[y].up
  PROVE  list[x].up = list[i].up
<1>1. /\ list \in Seq(FlatCategory) /\ DOMAIN list = 1..Len(list) /\ Len(list) \in Nat
      /\ i \in 1..Len(list) /\ b \in i..Len(list) /\ j \in 1..i - 1 /\ j \in DOMAIN list
  BY DEF WellNested, EndsBlock, Neighbours
<1>2. list[j].up = list[i].up /\ EndsBlock(list, j, i - 1)
  BY NeighbourBlock DEF Neighbours
<1>3. CASE x = i \/ y = j
  BY <1>2, <1>3
<1>4. CASE x # i /\ y # j
  <2>1. x \in i + 1..b /\ y \in j + 1..i - 1
    BY <1>1, <1>4
  <2>2. PICK p \in i..x - 1 : ParentOf(list, p, x)
    BY <2>1, InsideBlock
  <2>3. PICK q \in j..y - 1 : ParentOf(list, q, y)
    BY <2>1, <1>1, <1>2, InsideBlock
  <2>4. p \in DOMAIN list /\ q \in DOMAIN list /\ p # q
    BY <1>1, <2>1, <2>2, <2>3
  <2>5. list[p].id = list[q].id
    BY <2>2, <2>3 DEF ParentOf
  <2>6. QED
    BY <2>4, <2>5 DEF WellNested
<1>5. QED
  BY <1>3, <1>4

(* Where a row of the swapped list comes from. *)
ComesFrom(j, i, b, len, k, m) ==
  \/ k \in 1..j - 1 /\ m = k
  \/ k \in j..b /\ m \in i..b /\ k = m - i + j
  \/ k \in j..b /\ m \in j..i - 1 /\ k = m + b - i + 1
  \/ k \in b + 1..len /\ m = k

LEMMA SwappedFrom ==
  ASSUME NEW list \in Seq(FlatCategory), NEW i \in 1..Len(list), NEW b \in i..Len(list),
         NEW j \in 1..i - 1, NEW k \in 1..Len(list)
  PROVE  \E m \in 1..Len(list) :
           ComesFrom(j, i, b, Len(list), k, m) /\ Swapped(list, j, i, b)[k] = list[m]
<1>a. PICK swapped : swapped = Swapped(list, j, i, b)
  OBVIOUS
<1>b. PICK len \in Nat : len = Len(list)
  OBVIOUS
<1>1. swapped = Swapped(list, j, i, b) /\ len = Len(list)
  BY <1>a, <1>b
<1>2. i \in Nat /\ b \in Nat /\ j \in Nat /\ i <= b /\ b <= len /\ j >= 1 /\ j < i
  BY <1>1
<1>3. PICK n \in Nat : n = b - i + 1
  BY <1>2
<1>4. /\ \A x \in 1..j - 1 : swapped[x] = list[x]
      /\ \A x \in i..b : swapped[x - i + j] = list[x]
      /\ \A x \in j..i - 1 : swapped[x + b - i + 1] = list[x]
      /\ \A x \in b + 1..len : swapped[x] = list[x]
  BY <1>1, SwappedAt
<1>5. CASE k \in 1..j - 1 \/ k \in b + 1..len
  BY <1>1, <1>4, <1>5 DEF ComesFrom
<1>6. CASE k \in j..j + n - 1
  <2>1. PICK m \in Nat : m = k - j + i
    BY <1>2, <1>6
  <2>2. m \in i..b /\ k = m - i + j /\ m \in 1..len /\ k \in j..b
    BY <2>1, <1>2, <1>3, <1>6
  <2>3. QED
    BY <2>2, <1>1, <1>4 DEF ComesFrom
<1>7. CASE k \in j + n..b
  <2>1. PICK m \in Nat : m = k - n
    BY <1>2, <1>7
  <2>2. m \in j..i - 1 /\ k = m + b - i + 1 /\ m \in 1..len /\ k \in j..b
    BY <2>1, <1>2, <1>3, <1>7
  <2>3. QED
    BY <2>2, <1>1, <1>4 DEF ComesFrom
<1>8. QED
  BY <1>1, <1>2, <1>3, <1>5, <1>6, <1>7

(* The other families stay in order. *)
LEMMA SwappedOrder ==
  ASSUME NEW list, WellNested(list), NEW i \in DOMAIN list, NEW b, EndsBlock(list, i, b),
         NEW j, Neighbours(list, j, i), NEW swapped, swapped = Swapped(list, j, i, b),
         NEW x \in DOMAIN swapped, NEW y \in DOMAIN swapped, x < y,
         swapped[x].up = swapped[y].up, swapped[x].up # list[i].up
  PROVE  \E k, m \in DOMAIN list : k < m /\ list[k] = swapped[x] /\ list[m] = swapped[y]
<1>1. /\ list \in Seq(FlatCategory) /\ DOMAIN list = 1..Len(list) /\ Len(list) \in Nat
      /\ i \in 1..Len(list) /\ b \in i..Len(list) /\ j \in 1..i - 1
  BY DEF WellNested, EndsBlock, Neighbours
<1>2. PICK len \in Nat : len = Len(list)
  BY <1>1
<1>3. /\ i \in Nat /\ b \in Nat /\ j \in Nat /\ i <= b /\ b <= len /\ j >= 1 /\ j < i
  BY <1>1, <1>2
<1>4. DOMAIN swapped = 1..len
  BY <1>1, <1>2, SwappedAt
<1>a. ASSUME NEW z \in DOMAIN swapped
      PROVE  \E k \in 1..len : ComesFrom(j, i, b, len, z, k) /\ swapped[z] = list[k]
  <2>1. z \in 1..Len(list)
    BY <1>2, <1>4
  <2>2. \E k \in 1..Len(list) :
          ComesFrom(j, i, b, Len(list), z, k) /\ Swapped(list, j, i, b)[z] = list[k]
    BY <1>1, <2>1, SwappedFrom
  <2>3. QED
    BY <2>2, <1>2
<1>5. PICK k \in 1..len : ComesFrom(j, i, b, len, x, k) /\ swapped[x] = list[k]
  BY <1>a
<1>6. PICK m \in 1..len : ComesFrom(j, i, b, len, y, m) /\ swapped[y] = list[m]
  BY <1>a
<1>7. ~(k \in i..b /\ m \in j..i - 1)
  BY <1>5, <1>6, OtherFamilies
<1>8. x \in Nat /\ y \in Nat
  BY <1>4
<1>9. k < m
  BY <1>3, <1>5, <1>6, <1>7, <1>8 DEF ComesFrom
<1>10. QED
  BY <1>1, <1>2, <1>5, <1>6, <1>9

(* Those of a row's family that are above it. *)
Elder(list, k) == {m \in 1..k - 1 : list[m].up = list[k].up}

LEMMA ElderCounted ==
  ASSUME NEW list \in Seq(FlatCategory), NEW k \in DOMAIN list
  PROVE  /\ IsFiniteSet(Elder(list, k)) /\ Cardinality(Elder(list, k)) \in 0..Len(list)
         /\ \A j \in Elder(list, k) : Cardinality(Elder(list, j)) < Cardinality(Elder(list, k))
<1>1. k \in 1..Len(list) /\ Len(list) \in Nat /\ k \in Nat /\ k - 1 \in Nat
  OBVIOUS
<1>2. ASSUME NEW m \in Nat
      PROVE  IsFiniteSet(1..m) /\ Cardinality(1..m) = m
  <2>1. IsFiniteSet(1..m) /\ Cardinality(1..m) = IF 1 > m THEN 0 ELSE m - 1 + 1
    BY FS_Interval
  <2>2. QED
    BY <2>1
<1>3. Elder(list, k) \subseteq 1..k - 1
  BY DEF Elder
<1>4. /\ IsFiniteSet(Elder(list, k)) /\ Cardinality(Elder(list, k)) \in Nat
      /\ Cardinality(Elder(list, k)) <= k - 1
  <2>1. PICK D : D = 1..k - 1
    OBVIOUS
  <2>2. IsFiniteSet(D) /\ Cardinality(D) = k - 1
    BY <2>1, <1>1, <1>2
  <2>3. PICK E : E = Elder(list, k)
    OBVIOUS
  <2>4. IsFiniteSet(E) /\ Cardinality(E) <= Cardinality(D)
    BY <2>1, <2>2, <2>3, <1>3, FS_Subset
  <2>5. Cardinality(E) \in Nat
    BY <2>4, FS_CardinalityType
  <2>6. QED
    BY <2>2, <2>3, <2>4, <2>5
<1>5. ASSUME NEW j \in Elder(list, k)
      PROVE  Cardinality(Elder(list, j)) < Cardinality(Elder(list, k))
  <2>1. PICK D, E : D = Elder(list, j) /\ E = Elder(list, k)
    OBVIOUS
  <2>2. j \in 1..k - 1 /\ list[j].up = list[k].up
    BY DEF Elder
  <2>3. D \subseteq E /\ j \in E /\ j \notin D
    BY <2>1, <2>2, <1>1 DEF Elder
  <2>4. IsFiniteSet(E) /\ IsFiniteSet(D) /\ Cardinality(D) <= Cardinality(E)
    BY <2>1, <2>3, <1>4, FS_Subset
  <2>5. Cardinality(D) # Cardinality(E)
    BY <2>3, <2>4, FS_Subset
  <2>6. Cardinality(D) \in Nat /\ Cardinality(E) \in Nat
    BY <2>4, FS_CardinalityType
  <2>7. QED
    BY <2>1, <2>4, <2>5, <2>6
<1>6. QED
  BY <1>1, <1>4, <1>5

(* What is sent of a list. *)
LEMMA SortEntriesAt ==
  ASSUME NEW list, WellNested(list)
  PROVE  /\ SortEntries(list) \in Places /\ DOMAIN SortEntries(list) = Ids(list)
         /\ \A k \in DOMAIN list : /\ SortEntries(list)[list[k].id] \in Place
                                   /\ SortEntries(list)[list[k].id].up = list[k].up
         /\ \A j, k \in DOMAIN list :
              j < k /\ list[j].up = list[k].up =>
                SortEntries(list)[list[j].id].rank < SortEntries(list)[list[k].id].rank
<1>1. /\ list \in Seq(FlatCategory) /\ DOMAIN list = 1..Len(list) /\ Len(list) \in Nat
      /\ \A j, k \in DOMAIN list : list[j].id = list[k].id => j = k
  BY DEF WellNested
<1>2. PICK sent : sent = SortEntries(list)
  OBVIOUS
<1>3. DOMAIN sent = Ids(list)
  BY <1>2 DEF SortEntries, Ids
<1>4. \A k \in DOMAIN list :
        sent[list[k].id] = [up |-> list[k].up, rank |-> Cardinality(Elder(list, k))]
  <2> TAKE k \in DOMAIN list
  <2>1. PICK n : n = list[k].id
    OBVIOUS
  <2>2. n \in {list[j].id : j \in DOMAIN list}
    BY <2>1
  <2>3. (CHOOSE j \in DOMAIN list : list[j].id = n) = k
    BY <2>1, <1>1
  <2>4. sent[n] = LET j == CHOOSE j \in DOMAIN list : list[j].id = n
                  IN [up |-> list[j].up, rank |-> Cardinality({m \in 1..j - 1 : list[m].up = list[j].up})]
    BY <2>2, <1>2 DEF SortEntries
  <2>5. QED
    BY <2>1, <2>3, <2>4 DEF Elder
<1>5. MaxNodes \in Nat /\ Len(list) <= MaxNodes
  BY <1>1, ListsAreShort, CategoryPanelAssumption
<1>6. \A k \in DOMAIN list : sent[list[k].id] \in Place
  <2> TAKE k \in DOMAIN list
  <2>1. list[k].up \in Node \cup {Top}
    BY <1>1, RowFields DEF FlatCategory
  <2>2. Cardinality(Elder(list, k)) \in 0..Len(list)
    BY <1>1, ElderCounted
  <2>3. Cardinality(Elder(list, k)) \in 0..MaxNodes
    BY <2>2, <1>1, <1>5
  <2>4. sent[list[k].id] = [up |-> list[k].up, rank |-> Cardinality(Elder(list, k))]
    BY <1>4
  <2>5. PICK up, rank : up = list[k].up /\ rank = Cardinality(Elder(list, k))
    OBVIOUS
  <2>6. [up |-> up, rank |-> rank] \in Place
    BY <2>1, <2>3, <2>5 DEF Place
  <2>7. QED
    BY <2>4, <2>5, <2>6
<1>a. \A k \in DOMAIN list : /\ sent[list[k].id].up = list[k].up
                             /\ sent[list[k].id].rank = Cardinality(Elder(list, k))
  <2> TAKE k \in DOMAIN list
  <2>1. PICK r : r = sent[list[k].id]
    OBVIOUS
  <2>2. r = [up |-> list[k].up, rank |-> Cardinality(Elder(list, k))]
    BY <2>1, <1>4
  <2>3. QED
    BY <2>1, <2>2
<1>7. sent \in Places
  <2>1. Ids(list) \in SUBSET Node
    BY <1>1, RowFields DEF Ids
  <2>2. sent \in [Ids(list) -> Place]
    <3>1. \A n \in Ids(list) : sent[n] \in Place
      BY <1>6 DEF Ids
    <3>2. sent = [n \in Ids(list) |-> sent[n]]
      BY <1>2, <1>3 DEF SortEntries
    <3>3. QED
      BY <3>1, <3>2
  <2>3. QED
    BY <2>1, <2>2 DEF Places
<1>8. ASSUME NEW j \in DOMAIN list, NEW k \in DOMAIN list, j < k, list[j].up = list[k].up
      PROVE  sent[list[j].id].rank < sent[list[k].id].rank
  <2>1. j \in Elder(list, k)
    BY <1>1, <1>8 DEF Elder
  <2>2. Cardinality(Elder(list, j)) < Cardinality(Elder(list, k))
    BY <2>1, <1>1, ElderCounted
  <2>3. QED
    BY <2>2, <1>a
<1>9. QED
  BY <1>2, <1>3, <1>a, <1>6, <1>7, <1>8

(* A list is the list of what is sent of it. *)
LEMMA SortListsAll ==
  ASSUME NEW list, WellNested(list)
  PROVE  ListsAll(list, SortEntries(list))
<1>1. \A j, k \in DOMAIN list :
        j < k /\ list[j].up = list[k].up => Before(SortEntries(list), list[j].id, list[k].id)
  BY SortEntriesAt DEF Before
<1>2. QED
  BY <1>1, SortEntriesAt DEF ListsAll

(* What the tree is once the positions of one family are written. *)
Sorted(places, list, i, swapped) ==
  [n \in DOMAIN places |->
     IF n \in {list[k].id : k \in {k \in DOMAIN list : list[k].up = list[i].up}}
     THEN SortEntries(swapped)[n] ELSE places[n]]

(* An arrow sends one family; the others keep what they have. *)
LEMMA FamilySorted ==
  ASSUME NEW places \in Places, NEW list, ListsAll(list, places),
         NEW i \in DOMAIN list, NEW b, EndsBlock(list, i, b), NEW j, Neighbours(list, j, i),
         NEW swapped, swapped = Swapped(list, j, i, b)
  PROVE  /\ Sorted(places, list, i, swapped) \in Places
         /\ ListsAll(swapped, Sorted(places, list, i, swapped))
<1>1. /\ list \in Seq(FlatCategory) /\ DOMAIN list = 1..Len(list) /\ Len(list) \in Nat
      /\ i \in 1..Len(list) /\ b \in i..Len(list) /\ j \in 1..i - 1
      /\ WellNested(list) /\ Ids(list) = DOMAIN places
  BY DEF ListsAll, WellNested, EndsBlock, Neighbours
<1>2. /\ \A k \in DOMAIN list : list[k].up = places[list[k].id].up
      /\ \A k, m \in DOMAIN list :
           k < m /\ list[k].up = list[m].up => Before(places, list[k].id, list[m].id)
      /\ \A k, m \in DOMAIN list : list[k].id = list[m].id => k = m
  BY DEF ListsAll, WellNested
<1>3. PICK moved : moved = Sorted(places, list, i, swapped)
  OBVIOUS
<1>4. DOMAIN moved = DOMAIN places
  BY <1>3 DEF Sorted
<1>5. \A k \in DOMAIN list :
        moved[list[k].id] = IF list[k].up = list[i].up THEN SortEntries(swapped)[list[k].id]
                            ELSE places[list[k].id]
  <2> TAKE k \in DOMAIN list
  <2>1. list[k].id \in DOMAIN places
    BY <1>1 DEF Ids
  <2>2. list[k].id \in {list[m].id : m \in {m \in DOMAIN list : list[m].up = list[i].up}}
          <=> list[k].up = list[i].up
    BY <1>2
  <2>3. QED
    BY <2>1, <2>2, <1>3 DEF Sorted
<1>6. WellNested(swapped) /\ Ids(swapped) = Ids(list)
  <2>1. WellNested(list)
    BY <1>1
  <2>2. QED
    BY <2>1, SwappedNested
<1>7. DOMAIN swapped = 1..Len(list)
  BY <1>1, SwappedAt
<1>8. \A x \in DOMAIN swapped : \E k \in DOMAIN list : swapped[x] = list[k]
  <2> TAKE x \in DOMAIN swapped
  <2>1. x \in 1..Len(list)
    BY <1>7
  <2>2. \E k \in 1..Len(list) :
          ComesFrom(j, i, b, Len(list), x, k) /\ Swapped(list, j, i, b)[x] = list[k]
    BY <1>1, <2>1, SwappedFrom
  <2>3. QED
    BY <2>2, <1>1
<1>9. PICK sent : sent = SortEntries(swapped)
  OBVIOUS
<1>10. /\ \A x \in DOMAIN swapped : /\ sent[swapped[x].id] \in Place
                                    /\ sent[swapped[x].id].up = swapped[x].up
       /\ \A x, y \in DOMAIN swapped :
            x < y /\ swapped[x].up = swapped[y].up => sent[swapped[x].id].rank < sent[swapped[y].id].rank
  BY <1>6, <1>9, SortEntriesAt
<1>11. \A x \in DOMAIN swapped :
         /\ swapped[x].up = list[i].up => moved[swapped[x].id] = sent[swapped[x].id]
         /\ swapped[x].up # list[i].up => moved[swapped[x].id] = places[swapped[x].id]
  BY <1>5, <1>8, <1>9
<1>12. \A n \in DOMAIN places : places[n] \in Place /\ n \in Node
  BY DEF Places
<1>13. moved \in Places
  <2>1. \A n \in DOMAIN places : moved[n] \in Place
    <3> TAKE n \in DOMAIN places
    <3>1. PICK x \in DOMAIN swapped : swapped[x].id = n
      BY <1>1, <1>6 DEF Ids
    <3>2. QED
      BY <3>1, <1>10, <1>11, <1>12
  <2>2. moved = [n \in DOMAIN places |-> moved[n]]
    BY <1>3 DEF Sorted
  <2>3. moved \in [DOMAIN places -> Place] /\ DOMAIN places \in SUBSET Node
    BY <2>1, <2>2, <1>12
  <2>4. QED
    BY <2>3 DEF Places
<1>14. \A x \in DOMAIN swapped : swapped[x].up = moved[swapped[x].id].up
  <2> TAKE x \in DOMAIN swapped
  <2>1. PICK k \in DOMAIN list : swapped[x] = list[k]
    BY <1>8
  <2>2. QED
    BY <2>1, <1>2, <1>10, <1>11
<1>15. ASSUME NEW x \in DOMAIN swapped, NEW y \in DOMAIN swapped, x < y, swapped[x].up = swapped[y].up
       PROVE  Before(moved, swapped[x].id, swapped[y].id)
  <2>1. CASE swapped[x].up = list[i].up
    BY <2>1, <1>10, <1>11, <1>15 DEF Before
  <2>2. CASE swapped[x].up # list[i].up
    <3>1. PICK k, m \in DOMAIN list : k < m /\ list[k] = swapped[x] /\ list[m] = swapped[y]
      <4>1. WellNested(list)
        BY <1>1
      <4>2. QED
        BY <4>1, <2>2, <1>15, SwappedOrder
    <3>2. Before(places, swapped[x].id, swapped[y].id)
      BY <3>1, <1>2, <1>15
    <3>3. QED
      BY <3>2, <2>2, <1>11, <1>15 DEF Before
  <2>3. QED
    BY <2>1, <2>2
<1>16. QED
  BY <1>1, <1>3, <1>4, <1>6, <1>13, <1>14, <1>15 DEF ListsAll

-------------------------------------------------------------------------------
(* Every tree has its list. *)

(* How deep a category comes out below the row at p, or at the top for p = 0. *)
HangsAt(list, p, up, depth) ==
  \/ p = 0 /\ up = Top /\ depth = 0
  \/ p \in DOMAIN list /\ list[p].id = up /\ depth = list[p].depth + 1

LEMMA HangsSomewhere ==
  ASSUME NEW list, WellNested(list), NEW up \in Ids(list) \cup {Top}
  PROVE  \E p \in 0..Len(list), depth \in Nat : HangsAt(list, p, up, depth)
<1>1. list \in Seq(FlatCategory) /\ DOMAIN list = 1..Len(list) /\ Len(list) \in Nat
  BY DEF WellNested
<1>2. CASE up = Top
  <2>1. HangsAt(list, 0, up, 0) /\ 0 \in 0..Len(list)
    BY <1>1, <1>2 DEF HangsAt
  <2>2. QED
    BY <2>1
<1>3. CASE up \in Ids(list)
  <2>1. PICK p \in DOMAIN list : list[p].id = up
    BY <1>3 DEF Ids
  <2>2. PICK depth \in Nat : depth = list[p].depth + 1
    BY <1>1, RowFields
  <2>3. HangsAt(list, p, up, depth) /\ p \in 0..Len(list)
    BY <1>1, <2>1, <2>2 DEF HangsAt
  <2>4. QED
    BY <2>3
<1>4. QED
  BY <1>2, <1>3

(* The rows of its family are below that row and as deep. *)
LEMMA FamilyHangs ==
  ASSUME NEW list, WellNested(list), NEW p \in 0..Len(list), NEW up, NEW depth \in Nat,
         HangsAt(list, p, up, depth), NEW r \in DOMAIN list
  PROVE  /\ list[r].up = up => /\ r > p /\ list[r].depth = depth
                               /\ \A q \in p + 1..r - 1 : list[q].depth >= depth
         /\ (/\ r > p /\ list[r].depth = depth
             /\ \A q \in p + 1..r - 1 : list[q].depth >= depth) => list[r].up = up
<1>1. list \in Seq(FlatCategory) /\ DOMAIN list = 1..Len(list) /\ Len(list) \in Nat /\ p \in Nat
  BY DEF WellNested
<1>2. \A m \in DOMAIN list : list[m].depth \in Nat
  BY <1>1, RowFields
<1>3. CASE p = 0 /\ up = Top /\ depth = 0
  <2>1. r > p /\ \A q \in p + 1..r - 1 : q \in DOMAIN list
    BY <1>1, <1>3
  <2>2. list[r].up = Top <=> list[r].depth = 0
    BY NamedIsParent
  <2>3. \A q \in p + 1..r - 1 : list[q].depth >= depth
    BY <2>1, <1>2, <1>3
  <2>4. QED
    BY <2>1, <2>2, <2>3, <1>3
<1>4. CASE p \in DOMAIN list /\ list[p].id = up /\ depth = list[p].depth + 1
  <2>1. PICK e : EndsBlock(list, p, e)
    BY <1>1, <1>4, BlockEnds
  <2>2. list[r].up = list[p].id <=> r \in p + 1..e /\ list[r].depth = list[p].depth + 1
    BY <1>4, <2>1, ChildrenInBlock
  <2>3. e \in p..Len(list) /\ \A m \in p + 1..e : list[m].depth > list[p].depth
    BY <2>1 DEF EndsBlock
  <2>4. list[p].depth \in Nat /\ \A m \in p + 1..e : list[m].depth >= depth
    <3>1. \A m \in p + 1..e : m \in DOMAIN list
      BY <1>1, <2>3
    <3>2. QED
      BY <3>1, <2>3, <1>2, <1>4
  <2>5. ASSUME list[r].up = up
        PROVE  /\ r > p /\ list[r].depth = depth
               /\ \A q \in p + 1..r - 1 : list[q].depth >= depth
    <3>1. r \in p + 1..e /\ list[r].depth = depth
      BY <2>2, <2>5, <1>4
    <3>2. r > p /\ \A q \in p + 1..r - 1 : q \in p + 1..e
      BY <3>1, <2>3, <1>1
    <3>3. QED
      BY <3>1, <3>2, <2>4
  <2>6. ASSUME r > p, list[r].depth = depth, \A q \in p + 1..r - 1 : list[q].depth >= depth
        PROVE  list[r].up = up
    <3>1. CASE r \in p + 1..e
      BY <3>1, <2>2, <2>6, <1>4
    <3>2. CASE r \notin p + 1..e
      <4>1. e + 1 \in p + 1..r /\ e # Len(list) /\ (e + 1 = r \/ e + 1 \in p + 1..r - 1)
        <5>1. e \in p..Len(list) /\ Len(list) \in Nat /\ r \in 1..Len(list) /\ r > p
          BY <2>3, <2>6, <1>1
        <5>2. PICK len \in Nat : len = Len(list)
          BY <5>1
        <5>3. p \in Nat /\ e \in Nat /\ r \in Nat /\ p <= e /\ e <= len /\ r <= len /\ r > p
          BY <5>1, <5>2, <1>1
        <5>4. r > e
          BY <5>3, <3>2
        <5>5. QED
          BY <5>2, <5>3, <5>4
      <4>2. list[e + 1].depth <= list[p].depth
        BY <4>1, <2>1 DEF EndsBlock
      <4>3. list[e + 1].depth >= depth
        BY <4>1, <2>6, <1>2
      <4>4. e + 1 \in DOMAIN list
        BY <4>1, <1>1
      <4>5. list[e + 1].depth \in Nat
        BY <4>4, <1>2
      <4>6. QED
        BY <4>2, <4>3, <4>5, <2>4, <1>4
    <3>3. QED
      BY <3>1, <3>2
  <2>7. QED
    BY <2>5, <2>6
<1>5. QED
  BY <1>3, <1>4 DEF HangsAt

ListsSome(list, places, T) ==
  /\ WellNested(list) /\ Ids(list) = T /\ T \subseteq DOMAIN places
  /\ \A k \in DOMAIN list : list[k].up = places[list[k].id].up
  /\ \A j, k \in DOMAIN list :
       j < k /\ list[j].up = list[k].up => Before(places, list[j].id, list[k].id)

(* A row may be added to the list of a tree. *)
LEMMA OneMore ==
  ASSUME NEW places \in Places, NEW T, NEW list, ListsSome(list, places, T),
         NEW n \in DOMAIN places, n \notin T, places[n].up \in T \cup {Top}
  PROVE  \E longer : ListsSome(longer, places, T \cup {n})
<1>1. /\ list \in Seq(FlatCategory) /\ DOMAIN list = 1..Len(list) /\ Len(list) \in Nat
      /\ WellNested(list) /\ Ids(list) = T /\ T \subseteq DOMAIN places
  BY DEF ListsSome, WellNested
<1>2. /\ \A k \in DOMAIN list : list[k].up = places[list[k].id].up
      /\ \A k \in DOMAIN list : list[k].depth \in Nat /\ list[k].id \in T
      /\ \A j, k \in DOMAIN list :
           j < k /\ list[j].up = list[k].up => Before(places, list[j].id, list[k].id)
  BY <1>1, RowFields DEF ListsSome, Ids
<1>3. n \in Node /\ places[n].up \in Node \cup {Top}
  BY DEF Places, Place
<1>4. PICK up : up = places[n].up
  OBVIOUS
<1>5. PICK p \in 0..Len(list), depth \in Nat : HangsAt(list, p, up, depth)
  BY <1>1, <1>4, HangsSomewhere
<1>6. PICK len \in Nat : len = Len(list)
  BY <1>1
<1> DEFINE Later(q) == list[q].depth < depth \/ (list[q].depth = depth /\ Before(places, n, list[q].id))
           Q == {q \in p + 1..len : Later(q)} \cup {len + 1}
<1>7. PICK q \in Q : \A m \in Q : q <= m
  <2>1. Q \subseteq Nat /\ Q # {}
    BY <1>5, <1>6
  <2>2. QED
    BY <2>1, LeastNatural
<1>8. PICK at \in 0..len : q = at + 1 /\ p <= at
  <2>1. q \in p + 1..len + 1 /\ p \in Nat
    BY <1>5, <1>6
  <2>2. q - 1 \in 0..len /\ q = (q - 1) + 1 /\ p <= q - 1
    BY <2>1
  <2>3. QED
    BY <2>2
<1>9. \A m \in p + 1..at : m \in DOMAIN list /\ ~Later(m) /\ list[m].depth >= depth
  <2> TAKE m \in p + 1..at
  <2>1. m \in p + 1..len /\ ~(q <= m)
    BY <1>5, <1>6, <1>8
  <2>2. m \notin Q
    BY <2>1, <1>7
  <2>3. m \in DOMAIN list
    BY <2>1, <1>1, <1>5, <1>6
  <2>4. ~Later(m)
    <3> DEFINE later == Later(m)
    <3>1. later => m \in Q
      BY <2>1
    <3> HIDE DEF later, Q
    <3>2. ~later
      BY <3>1, <2>2
    <3>3. QED
      BY <3>2 DEF later
  <2>5. list[m].depth \in Nat
    BY <2>3, <1>2
  <2>6. ~(list[m].depth < depth)
    BY <2>4
  <2>8. list[m].depth >= depth
    BY <2>5, <2>6
  <2>7. QED
    BY <2>3, <2>4, <2>8
<1>10. at = len \/ (at + 1 \in DOMAIN list /\ Later(at + 1))
  <2>1. q = len + 1 \/ (q \in p + 1..len /\ Later(q))
    <3> DEFINE E == {m \in p + 1..len : Later(m)}
    <3>1. q \in E \/ q = len + 1
      BY <1>7
    <3>2. \A m \in E : m \in p + 1..len /\ Later(m)
      OBVIOUS
    <3> HIDE DEF E
    <3>3. QED
      BY <3>1, <3>2
  <2>2. CASE q = len + 1
    <3>1. q = at + 1 /\ at \in Int /\ len \in Int
      BY <1>8
    <3>2. QED
      BY <2>2, <3>1
  <2>3. CASE q \in p + 1..len /\ Later(q)
    <3>1. q \in DOMAIN list
      BY <2>3, <1>1, <1>5, <1>6
    <3>2. QED
      BY <3>1, <2>3, <1>8
  <2>4. QED
    BY <2>1, <2>2, <2>3
<1> HIDE DEF Q
<1>11. PICK row : row = [id |-> n, up |-> up, depth |-> depth]
  OBVIOUS
<1>12. row \in FlatCategory /\ row.id = n /\ row.up = up /\ row.depth = depth
  BY <1>3, <1>4, <1>11 DEF FlatCategory
<1>13. PICK block : block = <<row>>
  OBVIOUS
<1>14. block \in Seq(FlatCategory) /\ Len(block) = 1 /\ block[1] = row
  BY <1>12, <1>13
<1>15. Nested(block) /\ Ids(block) = {n}
  <2>1. DOMAIN block = {1} /\ 2..Len(block) = {}
    BY <1>14
  <2>2. QED
    BY <2>1, <1>12, <1>14 DEF Nested, Ids
<1>16. Fits(list, at, row)
  <2>1. at = Len(list) \/ list[at + 1].depth <= row.depth
    BY <1>2, <1>6, <1>10, <1>12
  <2>2. CASE p = 0 /\ up = Top /\ depth = 0
    BY <2>1, <2>2, <1>12 DEF Fits
  <2>3. CASE p \in DOMAIN list /\ list[p].id = up /\ depth = list[p].depth + 1
    <3>1. p \in 1..at /\ list[p].depth \in Nat
      BY <2>3, <1>1, <1>2, <1>8
    <3>2. \A m \in p + 1..at : list[m].depth > list[p].depth
      BY <3>1, <2>3, <1>2, <1>9
    <3>3. QED
      BY <3>1, <3>2, <2>1, <2>3, <1>12 DEF Fits
  <2>4. QED
    BY <2>2, <2>3, <1>5 DEF HangsAt
<1>17. PICK longer : longer = Inserted(list, at, block)
  OBVIOUS
<1>18. WellNested(longer) /\ Ids(longer) = T \cup {n}
  <2>1. WellNested(list) /\ at \in 0..Len(list) /\ Ids(list) \cap Ids(block) = {}
    BY <1>1, <1>6, <1>15
  <2>2. Fits(list, at, block[1])
    BY <1>14, <1>16
  <2>3. WellNested(longer) /\ Ids(longer) = Ids(list) \cup Ids(block)
    BY <2>1, <2>2, <1>15, <1>17, InsertedNested
  <2>4. QED
    BY <2>3, <1>1, <1>15
<1>19. /\ longer \in Seq(FlatCategory) /\ Len(longer) = len + 1
       /\ \A k \in 1..at : longer[k] = list[k]
       /\ longer[at + 1] = row
       /\ \A k \in at + 1..len : longer[k + 1] = list[k]
  <2>1. at \in 0..Len(list)
    BY <1>6
  <2>2. /\ longer \in Seq(FlatCategory) /\ Len(longer) = Len(list) + Len(block)
        /\ \A k \in 1..at : longer[k] = list[k]
        /\ \A k \in 1..Len(block) : longer[at + k] = block[k]
        /\ \A k \in at + 1..Len(list) : longer[k + Len(block)] = list[k]
    <3>1. list \in Seq(FlatCategory) /\ block \in Seq(FlatCategory)
      BY <1>1, <1>14
    <3>2. QED
      BY <3>1, <2>1, <1>17, InsertedAt
  <2>3. 1 \in 1..Len(block)
    BY <1>14
  <2>4. QED
    BY <2>2, <2>3, <1>6, <1>14
<1>20. \A x \in DOMAIN longer :
         \/ x = at + 1 /\ longer[x] = row
         \/ x \in 1..at /\ x \in DOMAIN list /\ longer[x] = list[x]
         \/ x - 1 \in at + 1..len /\ x - 1 \in DOMAIN list /\ longer[x] = list[x - 1]
  <2> TAKE x \in DOMAIN longer
  <2>1. x \in 1..len + 1
    BY <1>19
  <2>2. CASE x \in 1..at
    BY <2>2, <1>1, <1>6, <1>19
  <2>3. CASE x = at + 1
    BY <2>3, <1>19
  <2>4. CASE x > at + 1
    <3>1. x - 1 \in at + 1..len /\ (x - 1) + 1 = x
      BY <2>1, <2>4, <1>8
    <3>2. x - 1 \in DOMAIN list
      BY <3>1, <1>1, <1>6, <1>8
    <3>3. longer[(x - 1) + 1] = list[x - 1]
      BY <3>1, <1>19
    <3>4. QED
      BY <3>1, <3>2, <3>3
  <2>5. QED
    BY <2>1, <2>2, <2>3, <2>4, <1>8
<1>21. \A x \in DOMAIN longer : longer[x].up = places[longer[x].id].up
  BY <1>2, <1>4, <1>12, <1>20
<1>22. ASSUME NEW r \in DOMAIN list, list[r].up = up, r \in 1..at
       PROVE  Before(places, list[r].id, n)
  <2>1. r > p /\ list[r].depth = depth
    BY <1>1, <1>5, <1>22, FamilyHangs
  <2>2. r \in p + 1..at
    BY <2>1, <1>22, <1>5
  <2>3. ~Before(places, n, list[r].id)
    BY <2>1, <2>2, <1>9
  <2>4. list[r].id \in DOMAIN places /\ list[r].id # n
    BY <1>1, <1>2
  <2>5. QED
    BY <2>3, <2>4, BeforeOrders
<1>23. ASSUME NEW r \in DOMAIN list, list[r].up = up, r \in at + 1..len
       PROVE  Before(places, n, list[r].id)
  <2>1. r > p /\ list[r].depth = depth /\ \A m \in p + 1..r - 1 : list[m].depth >= depth
    BY <1>1, <1>5, <1>23, FamilyHangs
  <2>2. at + 1 \in DOMAIN list /\ Later(at + 1)
    <3>1. at # len
      BY <1>23, <1>8
    <3>2. QED
      BY <3>1, <1>10
  <2>3. CASE r = at + 1
    <3>1. list[r].depth = depth /\ Later(r)
      BY <2>1, <2>2, <2>3
    <3>2. list[r].depth \in Nat
      BY <1>2
    <3>3. QED
      BY <3>1, <3>2
  <2>4. CASE r # at + 1
    <3>1. at + 1 \in p + 1..r - 1 /\ at + 1 > p /\ at + 1 < r
      BY <2>4, <1>5, <1>8, <1>23
    <3>2. list[at + 1].depth >= depth /\ list[at + 1].depth \in Nat
      BY <3>1, <2>1, <2>2, <1>2
    <3>3. list[at + 1].depth = depth /\ Before(places, n, list[at + 1].id)
      BY <3>2, <2>2
    <3>4. \A m \in p + 1..at + 1 - 1 : list[m].depth >= depth
      <4>1. at + 1 - 1 = at
        BY <1>8
      <4>2. QED
        BY <4>1, <1>9
    <3>5. list[at + 1].up = up
      BY <3>1, <3>3, <3>4, <2>2, <1>1, <1>5, FamilyHangs
    <3>6. Before(places, list[at + 1].id, list[r].id)
      BY <3>1, <3>5, <2>2, <1>2, <1>23
    <3>7. list[r].id \in DOMAIN places /\ list[at + 1].id \in DOMAIN places
      BY <2>2, <1>1, <1>2
    <3>8. QED
      BY <3>3, <3>6, <3>7, BeforeOrders
  <2>5. QED
    BY <2>3, <2>4
<1>24. ASSUME NEW x \in DOMAIN longer, NEW y \in DOMAIN longer, x < y, longer[x].up = longer[y].up
       PROVE  Before(places, longer[x].id, longer[y].id)
  <2>0. x \in Nat /\ y \in Nat /\ at \in Nat /\ len \in Nat
    BY <1>19
  <2>1. CASE x = at + 1
    <3>1. y - 1 \in at + 1..len /\ y - 1 \in DOMAIN list /\ longer[y] = list[y - 1]
      BY <2>0, <2>1, <1>20, <1>24
    <3>2. longer[x] = row
      BY <2>1, <1>19
    <3>3. QED
      BY <3>1, <3>2, <1>12, <1>23, <1>24
  <2>2. CASE y = at + 1
    <3>1. x \in 1..at /\ x \in DOMAIN list /\ longer[x] = list[x]
      BY <2>0, <2>2, <1>20, <1>24
    <3>2. longer[y] = row
      BY <2>2, <1>19
    <3>3. QED
      BY <3>1, <3>2, <1>12, <1>22, <1>24
  <2>3. CASE x # at + 1 /\ y # at + 1
    <3>1. \/ x \in 1..at /\ x \in DOMAIN list /\ longer[x] = list[x]
          \/ x - 1 \in at + 1..len /\ x - 1 \in DOMAIN list /\ longer[x] = list[x - 1]
      BY <2>3, <1>20
    <3>2. \/ y \in 1..at /\ y \in DOMAIN list /\ longer[y] = list[y]
          \/ y - 1 \in at + 1..len /\ y - 1 \in DOMAIN list /\ longer[y] = list[y - 1]
      BY <2>3, <1>20
    <3>3. PICK k \in DOMAIN list, m \in DOMAIN list : k < m /\ longer[x] = list[k] /\ longer[y] = list[m]
      BY <3>1, <3>2, <2>0, <1>24
    <3>4. QED
      BY <3>3, <1>2, <1>24
  <2>4. QED
    BY <2>1, <2>2, <2>3
<1>25. ListsSome(longer, places, T \cup {n})
  BY <1>1, <1>18, <1>21, <1>24 DEF ListsSome
<1>26. QED
  BY <1>25

Tree(places) ==
  /\ places \in Places /\ AcyclicTree(places)
  /\ \A n \in DOMAIN places : places[n].up \in DOMAIN places \cup {Top}

LEMMA TreeHasList ==
  ASSUME NEW places, Tree(places)
  PROVE  \E list : ListsAll(list, places)
<1>1. PICK D : D = DOMAIN places
  OBVIOUS
<1>2. IsFiniteSet(D) /\ D \subseteq Node /\ places \in Places
  <2>1. D \subseteq 1..MaxNodes /\ MaxNodes \in Nat /\ places \in Places
    BY <1>1, CategoryPanelAssumption DEF Tree, Places, Node
  <2>2. IsFiniteSet(1..MaxNodes)
    BY <2>1, FS_Interval
  <2>3. PICK N : N = 1..MaxNodes
    OBVIOUS
  <2>4. IsFiniteSet(D)
    BY <2>1, <2>2, <2>3, FS_Subset
  <2>5. QED
    BY <2>1, <2>4 DEF Node
<1> DEFINE Listed(T) == \E list : ListsSome(list, places, T)
           Missing == {Cardinality(D \ T) : T \in {T \in SUBSET D : Listed(T)}}
<1>3. \A T \in SUBSET D : IsFiniteSet(D \ T) /\ Cardinality(D \ T) \in Nat
  BY <1>2, FS_Difference, FS_CardinalityType
<1>4. Listed({})
  <2>1. PICK list : list = <<>>
    OBVIOUS
  <2>2. list \in Seq(FlatCategory) /\ DOMAIN list = {}
    BY <2>1
  <2>3. ListsSome(list, places, {})
    BY <2>2 DEF ListsSome, WellNested, Ids
  <2>4. QED
    BY <2>3
<1>5. PICK T \in SUBSET D : Listed(T) /\ \A U \in SUBSET D : Listed(U) => Cardinality(D \ T) <= Cardinality(D \ U)
  <2> HIDE DEF Listed
  <2>1. Missing \subseteq Nat
    BY <1>3
  <2>2. {} \in SUBSET D /\ Cardinality(D \ {}) \in Missing
    BY <1>4
  <2>3. PICK x \in Missing : \A y \in Missing : x <= y
    <3> HIDE DEF Missing
    <3>1. QED  BY <2>1, <2>2, LeastNatural
  <2>4. QED
    BY <2>3
<1>6. ASSUME T # D
      PROVE  FALSE
  <2>1. PICK n \in D \ T : places[n].up \notin D \ T
    <3>1. D \ T \in SUBSET DOMAIN places /\ D \ T # {}
      BY <1>1, <1>6
    <3>2. QED
      BY <3>1 DEF Tree, AcyclicTree
  <2>2. places[n].up \in T \cup {Top}
    BY <2>1, <1>1 DEF Tree
  <2>3. Listed(T \cup {n})
    BY <2>1, <2>2, <1>1, <1>2, <1>5, OneMore
  <2> HIDE DEF Listed
  <2>4. Cardinality(D \ T) <= Cardinality(D \ (T \cup {n}))
    BY <2>1, <2>3, <1>5
  <2>5. PICK E, F : E = D \ T /\ F = D \ (T \cup {n})
    OBVIOUS
  <2>6. IsFiniteSet(E) /\ Cardinality(E) \in Nat /\ F = E \ {n} /\ n \in E
    BY <2>1, <2>5, <1>3
  <2>7. Cardinality(E \ {n}) = IF n \in E THEN Cardinality(E) - 1 ELSE Cardinality(E)
    BY <2>6, FS_RemoveElement
  <2>8. QED
    BY <2>4, <2>5, <2>6, <2>7
<1>7. PICK list : ListsSome(list, places, D)
  BY <1>5, <1>6
<1>8. ListsAll(list, places)
  BY <1>1, <1>7 DEF ListsSome, ListsAll
<1>9. QED
  BY <1>8

(* What filterGrouped returns of a tree lists it. *)
LEMMA RowsList ==
  ASSUME NEW places, Tree(places)
  PROVE  ListsAll(Rows(places), places)
BY TreeHasList, ListedIsRows DEF Tree

(* The parents in a list make a tree. *)
LEMMA ListIsTree ==
  ASSUME NEW places \in Places, NEW list, ListsAll(list, places)
  PROVE  Tree(places)
<1>1. /\ list \in Seq(FlatCategory) /\ DOMAIN list = 1..Len(list) /\ Len(list) \in Nat
      /\ WellNested(list) /\ Ids(list) = DOMAIN places
      /\ \A k \in DOMAIN list : list[k].up = places[list[k].id].up
      /\ \A j, k \in DOMAIN list : list[j].id = list[k].id => j = k
  BY DEF ListsAll, WellNested
<1>2. \A k \in DOMAIN list :
        list[k].up = Top \/ \E j \in 1..k - 1 : j \in DOMAIN list /\ list[j].id = list[k].up
  <2> TAKE k \in DOMAIN list
  <2>1. list[k].up # Top => \E j \in 1..k - 1 : ParentOf(list, j, k)
    BY <1>1, NamedIsParent
  <2>2. \A j \in 1..k - 1 : j \in DOMAIN list
    BY <1>1
  <2>3. QED
    BY <2>1, <2>2 DEF ParentOf
<1>3. \A n \in DOMAIN places : places[n].up \in DOMAIN places \cup {Top}
  <2> TAKE n \in DOMAIN places
  <2>1. PICK k \in DOMAIN list : list[k].id = n
    BY <1>1 DEF Ids
  <2>2. QED
    BY <2>1, <1>1, <1>2 DEF Ids
<1>4. ASSUME NEW S \in SUBSET DOMAIN places, S # {}, \A n \in S : places[n].up \in S
      PROVE  FALSE
  <2> DEFINE K == {k \in DOMAIN list : list[k].id \in S}
  <2>1. K \subseteq Nat /\ K # {}
    BY <1>1, <1>4 DEF Ids
  <2>2. PICK k \in K : \A m \in K : k <= m
    <3> HIDE DEF K
    <3>1. QED  BY <2>1, LeastNatural
  <2>3. list[k].up \in S /\ S \subseteq Node
    BY <1>1, <1>4 DEF Places
  <2>4. list[k].up # Top
    BY <2>3, CategoryPanelAssumption DEF Node, Top
  <2>5. PICK j \in 1..k - 1 : j \in DOMAIN list /\ list[j].id = list[k].up
    BY <2>4, <1>2
  <2>6. j \in K /\ j < k
    BY <2>3, <2>5, <1>1
  <2>7. QED
    BY <2>2, <2>6, <1>1
<1>5. QED
  BY <1>3, <1>4 DEF Tree, AcyclicTree

(* The rows of part of a tree, if the part holds their parents. *)
LEMMA PartListed ==
  ASSUME NEW places \in Places, NEW list, ListsAll(list, places), NEW T,
         \A n \in DOMAIN places \cap T : places[n].up \in T \cup {Top}
  PROVE  ListsAll(Of(list, T), Restrict(places, DOMAIN places \cap T))
<1>1. /\ list \in Seq(FlatCategory) /\ DOMAIN list = 1..Len(list) /\ Len(list) \in Nat
      /\ WellNested(list) /\ Ids(list) = DOMAIN places
      /\ \A k \in DOMAIN list : list[k].up = places[list[k].id].up
      /\ \A j, k \in DOMAIN list : list[j].id = list[k].id => j = k
  BY DEF ListsAll, WellNested
<1>2. PICK P : P = {k \in DOMAIN list : list[k].id \in T}
  OBVIOUS
<1>3. P \subseteq DOMAIN list /\ P \subseteq 1..Len(list)
  BY <1>1, <1>2
<1>4. PICK sub : sub = Picked(list, P)
  OBVIOUS
<1>5. PICK at : at = [n \in DOMAIN sub |-> Nth(P, n)]
  OBVIOUS
<1>6. /\ sub \in Seq(FlatCategory) /\ DOMAIN sub = 1..Cardinality(P)
      /\ Len(sub) \in Nat /\ DOMAIN sub = 1..Len(sub)
      /\ \A n \in DOMAIN sub : Nth(P, n) \in P /\ sub[n] = list[Nth(P, n)]
  <2>1. /\ Picked(list, P) \in Seq(FlatCategory)
        /\ Len(Picked(list, P)) = Cardinality(P)
        /\ \A n \in DOMAIN Picked(list, P) :
             Nth(P, n) \in P /\ Picked(list, P)[n] = list[Nth(P, n)]
    BY <1>1, <1>3, PickedIsSubsequence
  <2>2. /\ sub \in Seq(FlatCategory) /\ Len(sub) = Cardinality(P)
        /\ \A n \in DOMAIN sub : Nth(P, n) \in P /\ sub[n] = list[Nth(P, n)]
    BY <2>1, <1>4
  <2>3. Len(sub) \in Nat /\ DOMAIN sub = 1..Len(sub)
    BY <2>2
  <2>4. QED
    BY <2>2, <2>3
<1>7. \A n \in DOMAIN sub : at[n] \in P /\ at[n] \in 1..Len(list) /\ sub[n] = list[at[n]]
  BY <1>3, <1>5, <1>6
<1>8. \A m, n \in 1..Cardinality(P) : m < n => Nth(P, m) < Nth(P, n)
  BY <1>1, <1>3, PickedInOrder
<1>9. \A i \in P : \E n \in 1..Cardinality(P) : Nth(P, n) = i
  BY <1>1, <1>3, PickedInOrder
<1>10. /\ \A m, n \in DOMAIN sub : m < n => at[m] < at[n]
       /\ \A i \in P : \E n \in DOMAIN sub : at[n] = i
  BY <1>5, <1>6, <1>8, <1>9
<1>11. \A m, n \in DOMAIN sub : at[m] < at[n] => m < n
  <2> TAKE m, n \in DOMAIN sub
  <2>1. n < m => at[n] < at[m]
    BY <1>10
  <2>2. m \in Nat /\ n \in Nat /\ at[m] \in Nat /\ at[n] \in Nat
    BY <1>6, <1>7
  <2>3. QED
    BY <2>1, <2>2
<1>12. \A j, k \in DOMAIN sub : sub[j].id = sub[k].id => j = k
  <2> TAKE j, k \in DOMAIN sub
  <2> HAVE sub[j].id = sub[k].id
  <2>1. at[j] = at[k]
    BY <1>1, <1>7
  <2>2. j \in Nat /\ k \in Nat /\ at[j] \in Nat
    BY <1>6, <1>7
  <2>3. ~(j < k) /\ ~(k < j)
    BY <2>1, <2>2, <1>10
  <2>4. QED
    BY <2>2, <2>3
<1>13. ASSUME NEW k \in DOMAIN sub
       PROVE  \/ sub[k].depth = 0 /\ sub[k].up = Top
              \/ \E j \in 1..k - 1 : ParentOf(sub, j, k)
  <2>1. PICK h \in P : h = at[k] /\ sub[k] = list[h] /\ h \in DOMAIN list
    BY <1>1, <1>7
  <2>2. CASE list[h].depth = 0 /\ list[h].up = Top
    BY <2>1, <2>2
  <2>3. CASE \E i \in 1..h - 1 : ParentOf(list, i, h)
    <3>1. PICK i \in 1..h - 1 : ParentOf(list, i, h)
      BY <2>3
    <3>2. i \in DOMAIN list /\ i < h
      BY <2>1, <1>1, <3>1
    <3>3. list[i].id = list[h].up /\ list[i].id # Top
      <4>1. list[i].id \in Node
        <5>1. list[i] \in FlatCategory
          BY <3>2, <1>1
        <5>2. QED
          BY <5>1 DEF FlatCategory
      <4>2. QED
        BY <4>1, <3>1, CategoryPanelAssumption DEF ParentOf, Node, Top
    <3>4. list[h].up \in T \cup {Top}
      <4>1. list[h].id \in DOMAIN places \cap T
        BY <2>1, <1>1, <1>2 DEF Ids
      <4>2. QED
        BY <4>1, <2>1, <1>1
    <3>5. i \in P
      BY <3>2, <3>3, <3>4, <1>2
    <3>6. PICK j \in DOMAIN sub : at[j] = i
      BY <3>5, <1>10
    <3>7. j < k
      BY <3>2, <3>6, <2>1, <1>11
    <3>8. j \in 1..k - 1
      BY <3>7, <1>6
    <3>9. sub[j] = list[i]
      BY <3>6, <1>7
    <3>10. \A m \in j + 1..k - 1 : sub[m].depth > sub[j].depth
      <4> TAKE m \in j + 1..k - 1
      <4>1. m \in DOMAIN sub /\ j < m /\ m < k
        <5>1. j \in 1..Len(sub) /\ k \in 1..Len(sub) /\ Len(sub) \in Nat
          BY <1>6
        <5>2. m \in 1..Len(sub) /\ j < m /\ m < k
          BY <5>1, <3>7
        <5>3. QED
          BY <5>2, <1>6
      <4>2. at[j] < at[m] /\ at[m] < at[k] /\ at[m] \in 1..Len(list)
        BY <4>1, <1>7, <1>10
      <4>3. at[m] \in i + 1..h - 1
        BY <4>2, <3>2, <3>6, <2>1, <1>1
      <4>4. list[at[m]].depth > list[i].depth
        BY <4>3, <3>1 DEF ParentOf
      <4>5. QED
        BY <4>1, <4>4, <3>9, <1>7
    <3>11. ParentOf(sub, j, k)
      BY <3>1, <3>9, <3>10, <2>1 DEF ParentOf
    <3>12. QED
      BY <3>8, <3>11
  <2>4. QED
    BY <2>1, <2>2, <2>3, <1>1 DEF WellNested
<1>14. WellNested(sub)
  BY <1>6, <1>12, <1>13 DEF WellNested
<1>15. PICK S : S = DOMAIN places \cap T
  OBVIOUS
<1>16. PICK part : part = Restrict(places, S)
  OBVIOUS
<1>17. DOMAIN part = S /\ \A n \in S : part[n] = places[n]
  BY <1>16 DEF Restrict
<1>18. Ids(sub) = S
  <2>1. \A k \in DOMAIN sub : sub[k].id \in S
    BY <1>1, <1>2, <1>7, <1>15 DEF Ids
  <2>2. ASSUME NEW n \in S
        PROVE  \E k \in DOMAIN sub : sub[k].id = n
    <3>1. PICK i \in DOMAIN list : list[i].id = n
      BY <1>1, <1>15 DEF Ids
    <3>2. i \in P
      BY <3>1, <1>2, <1>15
    <3>3. QED
      BY <3>1, <3>2, <1>7, <1>10
  <2>3. QED
    BY <2>1, <2>2 DEF Ids
<1>19. \A k \in DOMAIN sub : sub[k].id \in S /\ sub[k].up = part[sub[k].id].up
  BY <1>1, <1>7, <1>17, <1>18 DEF Ids
<1>20. ASSUME NEW j \in DOMAIN sub, NEW k \in DOMAIN sub, j < k, sub[j].up = sub[k].up
       PROVE  Before(part, sub[j].id, sub[k].id)
  <2>1. /\ at[j] < at[k] /\ at[j] \in DOMAIN list /\ at[k] \in DOMAIN list
        /\ sub[j] = list[at[j]] /\ sub[k] = list[at[k]]
    BY <1>1, <1>7, <1>10, <1>20
  <2>2. Before(places, sub[j].id, sub[k].id)
    BY <2>1, <1>20 DEF ListsAll
  <2>3. QED
    BY <2>2, <1>17, <1>19 DEF Before
<1>21. ListsAll(sub, part)
  BY <1>14, <1>17, <1>18, <1>19, <1>20 DEF ListsAll
<1>22. QED
  BY <1>2, <1>4, <1>15, <1>16, <1>21 DEF Of

-------------------------------------------------------------------------------
(* The panel. *)

Lands(call) ==
  /\ Allows(call)
  /\ call.kind = "sort" => ListsAll(call.list, Restrict(After(call), Ids(call.list)))

NewNames ==
  \A u \in Mutation : mutation[u].kind = "create" =>
    /\ DOMAIN mutation[u].places \cap there = {}
    /\ \A v \in Mutation \ {u} :
         mutation[v].kind = "create" =>
           DOMAIN mutation[u].places \cap DOMAIN mutation[v].places = {}

PanelsList ==
  \A p \in Panel :
    /\ ListsAll(panel[p].items, panel[p].known)
    /\ panel[p].fresh => /\ DOMAIN panel[p].known \subseteq there
                         /\ panel[p].known = Restrict(place, DOMAIN panel[p].known)

CallsLand ==
  \A u \in Mutation :
    mutation[u].fresh /\ mutation[u].kind # "archive" => Lands(mutation[u])

CategoryPanelInv ==
  /\ CategoryPanelTypeOK /\ Tree(Restrict(place, there))
  /\ NewNames /\ PanelsList /\ CallsLand

LEMMA RestrictAt ==
  ASSUME NEW f, NEW S
  PROVE  DOMAIN Restrict(f, S) = S /\ \A x \in S : Restrict(f, S)[x] = f[x]
BY DEF Restrict

(* A closed part of a tree is one. *)
LEMMA PartOfTree ==
  ASSUME NEW f \in [Node -> Place], NEW S \in SUBSET Node, Tree(Restrict(f, S)),
         NEW T \in SUBSET S, \A n \in T : f[n].up \in T \cup {Top}
  PROVE  Tree(Restrict(f, T))
<1>1. PICK s, t : s = Restrict(f, S) /\ t = Restrict(f, T)
  OBVIOUS
<1>2. /\ DOMAIN s = S /\ DOMAIN t = T
      /\ \A n \in T : n \in S /\ s[n] = f[n] /\ t[n] = f[n]
  BY <1>1, RestrictAt
<1>3. t \in Places
  <2>1. t \in [T -> Place]
    BY <1>1 DEF Restrict
  <2>2. QED
    BY <2>1 DEF Places
<1>4. ASSUME NEW U \in SUBSET T, U # {}, \A n \in U : t[n].up \in U
      PROVE  FALSE
  <2>1. U \in SUBSET S /\ \A n \in U : s[n].up \in U
    BY <1>2, <1>4
  <2>2. QED
    BY <2>1, <1>1, <1>2, <1>4 DEF Tree, AcyclicTree
<1>5. \A n \in T : t[n].up \in T \cup {Top}
  BY <1>2
<1>6. QED
  BY <1>1, <1>2, <1>3, <1>4, <1>5 DEF Tree, AcyclicTree

(* What a search finds is closed. *)
LEMMA IncludedClosed ==
  ASSUME NEW f, NEW found, Tree(Restrict(f, there))
  PROVE  /\ Included(f, found) \subseteq there /\ found \cap there \subseteq Included(f, found)
         /\ \A n \in Included(f, found) : f[n].up \in Included(f, found) \cup {Top}
<1>1. \A n \in there : f[n].up \in there \cup {Top}
  <2>1. PICK s : s = Restrict(f, there)
    OBVIOUS
  <2>2. DOMAIN s = there /\ \A n \in there : s[n] = f[n]
    BY <2>1, RestrictAt
  <2>3. QED
    BY <2>1, <2>2 DEF Tree
<1>2. Included(f, found) \subseteq there /\ found \cap there \subseteq Included(f, found)
  BY DEF Included
<1>3. ASSUME NEW n \in Included(f, found), f[n].up # Top
      PROVE  f[n].up \in Included(f, found)
  <2>1. f[n].up \in there
    BY <1>1, <1>2, <1>3
  <2>2. ASSUME NEW S \in SUBSET there, found \cap there \subseteq S,
               \A m \in S : f[m].up \in S \cup {Top}
        PROVE  f[n].up \in S
    <3>1. n \in S
      BY <2>2 DEF Included
    <3>2. QED
      BY <3>1, <2>2, <1>3
  <2>3. QED
    BY <2>1, <2>2 DEF Included
<1>4. QED
  BY <1>2, <1>3

(* What leaves a closed part of the documents a tree leaves them a tree. *)
LEMMA LocalChange ==
  ASSUME place \in [Node -> Place], there \subseteq Node, Tree(Restrict(place, there)),
         NEW call, NEW K \in SUBSET there, DOMAIN call.places \subseteq K,
         call.kind \notin {"archive", "create"},
         Tree(Restrict(After(call), K))
  PROVE  Allows(call)
<1>1. PICK new : new = After(call)
  OBVIOUS
<1>2. /\ \A n \in DOMAIN call.places : new[n] = call.places[n]
      /\ \A n \in Node \ DOMAIN call.places : new[n] = place[n]
      /\ DOMAIN new = Node
  BY <1>1 DEF After
<1>3. PICK k : k = Restrict(new, K)
  OBVIOUS
<1>4. DOMAIN k = K /\ \A n \in K : k[n] = new[n]
  BY <1>3, RestrictAt
<1>5. Tree(k)
  BY <1>1, <1>3
<1>6. \A n \in K : new[n].up \in K \cup {Top}
  BY <1>4, <1>5 DEF Tree
<1>7. PICK old : old = Restrict(place, there)
  OBVIOUS
<1>8. DOMAIN old = there /\ \A n \in there : old[n] = place[n]
  BY <1>7, RestrictAt
<1>9. PICK all : all = Restrict(new, there)
  OBVIOUS
<1>10. DOMAIN all = there /\ \A n \in there : all[n] = new[n]
  BY <1>9, RestrictAt
<1>11. ASSUME NEW S \in SUBSET there, S # {}, \A n \in S : all[n].up \in S
       PROVE  FALSE
  <2>1. S \subseteq Node /\ Top \notin S
    BY CategoryPanelAssumption DEF Node, Top
  <2>2. CASE S \cap K = {}
    <3>1. \A n \in S : old[n].up \in S
      BY <2>1, <2>2, <1>2, <1>8, <1>10, <1>11
    <3>2. QED
      BY <3>1, <1>7, <1>8, <1>11 DEF Tree, AcyclicTree
  <2>3. CASE S \cap K # {}
    <3>1. \A n \in S \cap K : k[n].up \in S \cap K
      BY <2>1, <1>4, <1>6, <1>10, <1>11
    <3>2. QED
      BY <3>1, <2>3, <1>4, <1>5 DEF Tree, AcyclicTree
  <2>4. QED
    BY <2>2, <2>3
<1>12. AcyclicTree(Restrict(After(call), there))
  BY <1>1, <1>9, <1>10, <1>11 DEF AcyclicTree
<1>13. \A n \in DOMAIN call.places : call.places[n].up \in there \cup {Top}
  BY <1>2, <1>6
<1>14. QED
  BY <1>12, <1>13 DEF Allows

(* What a panel that nothing was written since knows. *)
LEMMA FreshPanel ==
  ASSUME CategoryPanelInv, NEW p \in Panel
  PROVE  /\ panel[p].known \in Places /\ panel[p].items \in Seq(FlatCategory)
         /\ ListsAll(panel[p].items, panel[p].known) /\ Tree(panel[p].known)
         /\ panel[p].fresh =>
              /\ DOMAIN panel[p].known \in SUBSET there
              /\ panel[p].known = Restrict(place, DOMAIN panel[p].known)
         /\ place \in [Node -> Place] /\ there \subseteq Node /\ Tree(Restrict(place, there))
<1>1. /\ panel \in [Panel -> [known : Places, items : Seq(FlatCategory), fresh : BOOLEAN]]
      /\ place \in [Node -> Place] /\ there \subseteq Node /\ Tree(Restrict(place, there))
  BY DEF CategoryPanelInv, CategoryPanelTypeOK
<1>2. panel[p].known \in Places /\ panel[p].items \in Seq(FlatCategory)
  BY <1>1
<1>3. /\ ListsAll(panel[p].items, panel[p].known)
      /\ panel[p].fresh =>
           /\ DOMAIN panel[p].known \in SUBSET there
           /\ panel[p].known = Restrict(place, DOMAIN panel[p].known)
  BY DEF CategoryPanelInv, PanelsList
<1>4. Tree(panel[p].known)
  BY <1>2, <1>3, ListIsTree
<1>5. QED
  BY <1>1, <1>2, <1>3, <1>4

(* A list whose rows are all sent lands as it is. *)
LEMMA SentLands ==
  ASSUME CategoryPanelInv, NEW K \in SUBSET there, NEW call, call.kind = "sort",
         DOMAIN call.places \subseteq K, NEW places, places \in Places,
         ListsAll(call.list, places), Ids(call.list) = K, places = Restrict(After(call), K)
  PROVE  Lands(call)
<1>1. /\ place \in [Node -> Place] /\ there \subseteq Node /\ Tree(Restrict(place, there))
  BY DEF CategoryPanelInv, CategoryPanelTypeOK
<1>2. Tree(Restrict(After(call), K))
  BY ListIsTree
<1>3. Allows(call)
  BY <1>1, <1>2, LocalChange
<1>4. QED
  BY <1>3 DEF Lands

LEMMA DropLands ==
  ASSUME CategoryPanelInv, NEW p \in Panel, NEW list, list = panel[p].items,
         NEW i \in DOMAIN list, NEW o \in DOMAIN list,
         o \notin i..i + Len(ActiveBlock(list, i)) - 1, NEW dropped \in Drops(list, i, o)
  PROVE  /\ SortEntries(dropped) \in Places /\ dropped \in Seq(FlatCategory)
         /\ \A call : panel[p].fresh /\ call.kind = "sort"
                        /\ call.places = SortEntries(dropped) /\ call.list = dropped
                      => Lands(call)
<1>1. ListsAll(list, panel[p].known)
  BY FreshPanel
<1>2. WellNested(list) /\ Ids(list) = DOMAIN panel[p].known
  BY <1>1 DEF ListsAll
<1>3. WellNested(dropped) /\ Ids(dropped) = Ids(list)
  BY <1>2, DropIsMove
<1>4. dropped \in Seq(FlatCategory)
  BY <1>3 DEF WellNested
<1>5. PICK sent : sent = SortEntries(dropped)
  OBVIOUS
<1>6. sent \in Places /\ DOMAIN sent = Ids(dropped) /\ ListsAll(dropped, sent)
  BY <1>3, <1>5, SortEntriesAt, SortListsAll
<1>7. ASSUME NEW call, panel[p].fresh, call.kind = "sort", call.places = sent, call.list = dropped
      PROVE  Lands(call)
  <2>1. PICK K \in SUBSET there : K = Ids(dropped)
    BY <1>2, <1>3, <1>7, FreshPanel
  <2>2. there \subseteq Node
    BY FreshPanel
  <2>3. PICK new : new = After(call)
    OBVIOUS
  <2>4. \A n \in K : new[n] = sent[n]
    BY <2>1, <2>2, <2>3, <1>6, <1>7 DEF After
  <2>5. sent = [n \in K |-> sent[n]]
    BY <2>1, <1>6 DEF Places
  <2>6. sent = Restrict(new, K)
    BY <2>4, <2>5 DEF Restrict
  <2>7. QED
    BY <2>1, <2>3, <2>6, <1>6, <1>7, SentLands
<1>8. QED
  BY <1>4, <1>5, <1>6, <1>7

(* The upper neighbour of a row that is not the first of its family. *)
LEMMA UpperNeighbour ==
  ASSUME NEW list \in Seq(FlatCategory), NEW i \in DOMAIN list,
         NEW family, family = {k \in DOMAIN list : list[k].up = list[i].up},
         i # Min(family)
  PROVE  Neighbours(list, Max({k \in family : k < i}), i)
<1>1. DOMAIN list = 1..Len(list) /\ Len(list) \in Nat /\ i \in 1..Len(list) /\ i \in family
  OBVIOUS
<1>2. PICK T : T = {k \in family : k < i}
  OBVIOUS
<1>3. T \subseteq 0..Len(list) /\ T \subseteq 1..i - 1
  BY <1>1, <1>2
<1>4. ASSUME T = {}
      PROVE  FALSE
  <2>1. \A k \in family : i <= k
    BY <1>1, <1>2, <1>4
  <2>2. \A m \in family : (\A k \in family : m <= k) => m = i
    BY <2>1, <1>1
  <2>3. Min(family) = i
    BY <2>1, <2>2, <1>1 DEF Min
  <2>4. QED
    BY <2>3
<1>5. Max(T) \in T /\ \A k \in T : k <= Max(T)
  BY <1>1, <1>3, <1>4, GreatestNumber
<1>6. PICK j : j = Max(T)
  OBVIOUS
<1>7. j \in 1..i - 1 /\ list[j].up = list[i].up
  BY <1>2, <1>3, <1>5, <1>6
<1>8. \A m \in j + 1..i - 1 : list[m].up # list[i].up
  <2> TAKE m \in j + 1..i - 1
  <2>1. m \in 1..Len(list) /\ m < i /\ ~(m <= j)
    BY <1>1, <1>7
  <2>2. m \notin T
    BY <2>1, <1>5, <1>6
  <2>3. QED
    BY <2>1, <2>2, <1>1, <1>2
<1>9. QED
  BY <1>2, <1>6, <1>7, <1>8 DEF Neighbours

(* The list that an arrow makes. *)
Nudged(list, i, j) ==
  SubSeq(list, 1, j - 1) \o ActiveBlock(list, i) \o ActiveBlock(list, j)
    \o SubSeq(list, i + Len(ActiveBlock(list, i)), Len(list))

LEMMA NudgedIsSwapped ==
  ASSUME NEW list, WellNested(list), NEW i \in DOMAIN list, NEW j, Neighbours(list, j, i)
  PROVE  \E b : EndsBlock(list, i, b) /\ Nudged(list, i, j) = Swapped(list, j, i, b)
<1>1. list \in Seq(FlatCategory) /\ DOMAIN list = 1..Len(list) /\ Len(list) \in Nat
  BY DEF WellNested
<1>2. j \in 1..i - 1 /\ j \in DOMAIN list /\ i \in 1..Len(list)
  BY <1>1 DEF Neighbours
<1>3. PICK b \in i..Len(list) : ActiveBlock(list, i) = SubSeq(list, i, b) /\ EndsBlock(list, i, b)
  BY <1>1, BlockEnds
<1>4. PICK c \in j..Len(list) : ActiveBlock(list, j) = SubSeq(list, j, c) /\ EndsBlock(list, j, c)
  BY <1>1, <1>2, BlockEnds
<1>5. EndsBlock(list, j, i - 1)
  BY NeighbourBlock
<1>6. c = i - 1
  BY <1>1, <1>2, <1>4, <1>5, OneEnd
<1>7. i + Len(ActiveBlock(list, i)) = b + 1
  <2>1. Len(SubSeq(list, i, b)) = b - i + 1
    BY <1>1, <1>2
  <2>2. QED
    BY <2>1, <1>2, <1>3
<1>8. Nudged(list, i, j) = Swapped(list, j, i, b)
  BY <1>3, <1>4, <1>6, <1>7 DEF Nudged, Swapped
<1>9. QED
  BY <1>3, <1>8

FamilyIds(list, i) == {list[k].id : k \in {k \in DOMAIN list : list[k].up = list[i].up}}

LEMMA SwapLands ==
  ASSUME CategoryPanelInv, NEW p \in Panel, NEW list, list = panel[p].items,
         NEW i \in DOMAIN list, NEW b, EndsBlock(list, i, b), NEW j, Neighbours(list, j, i),
         NEW swapped, swapped = Swapped(list, j, i, b),
         NEW sent, sent = Restrict(SortEntries(swapped), FamilyIds(list, i))
  PROVE  /\ sent \in Places /\ swapped \in Seq(FlatCategory)
         /\ \A call : panel[p].fresh /\ call.kind = "sort"
                        /\ call.places = sent /\ call.list = swapped
                      => Lands(call)
<1>1. PICK known : known = panel[p].known
  OBVIOUS
<1>2. ListsAll(list, known) /\ known \in Places
  BY <1>1, FreshPanel
<1>3. /\ list \in Seq(FlatCategory) /\ DOMAIN list = 1..Len(list) /\ Len(list) \in Nat
      /\ WellNested(list) /\ Ids(list) = DOMAIN known
  BY <1>2 DEF ListsAll, WellNested
<1>12. WellNested(swapped) /\ Ids(swapped) = Ids(list)
  <2>1. WellNested(list)
    BY <1>3
  <2>2. QED
    BY <2>1, SwappedNested
<1>13. swapped \in Seq(FlatCategory)
  BY <1>12 DEF WellNested
<1>14. PICK all : all = SortEntries(swapped)
  OBVIOUS
<1>15. all \in Places /\ DOMAIN all = DOMAIN known
  BY <1>3, <1>12, <1>14, SortEntriesAt
<1>16. PICK ids : ids = FamilyIds(list, i)
  OBVIOUS
<1>17. ids \subseteq DOMAIN known
  BY <1>3, <1>16 DEF Ids, FamilyIds
<1>18. DOMAIN sent = ids /\ \A n \in ids : sent[n] = all[n]
  BY <1>14, <1>16, RestrictAt
<1>19. sent \in Places
  <2>1. ids \in SUBSET Node /\ \A n \in ids : all[n] \in Place
    BY <1>15, <1>17 DEF Places
  <2>2. sent = [n \in ids |-> all[n]]
    BY <1>14, <1>16 DEF Restrict
  <2>3. sent \in [ids -> Place]
    BY <2>1, <2>2
  <2>4. QED
    BY <2>1, <2>3 DEF Places
<1>20. PICK moved : moved = Sorted(known, list, i, swapped)
  OBVIOUS
<1>21. moved \in Places /\ ListsAll(swapped, moved)
  BY <1>2, <1>20, FamilySorted
<1>22. moved = [n \in DOMAIN known |-> IF n \in ids THEN all[n] ELSE known[n]]
  BY <1>14, <1>16, <1>20 DEF Sorted, FamilyIds
<1>23. ASSUME NEW call, panel[p].fresh, call.kind = "sort", call.places = sent, call.list = swapped
       PROVE  Lands(call)
  <2>1. PICK K \in SUBSET there : K = DOMAIN known
    BY <1>1, <1>23, FreshPanel
  <2>2. there \subseteq Node /\ known = Restrict(place, K)
    BY <2>1, <1>1, <1>23, FreshPanel
  <2>3. \A n \in K : known[n] = place[n]
    BY <2>2, RestrictAt
  <2>4. PICK new : new = After(call)
    OBVIOUS
  <2>5. \A n \in K : new[n] = moved[n]
    BY <2>1, <2>2, <2>3, <2>4, <1>18, <1>22, <1>23 DEF After
  <2>6. moved = [n \in K |-> moved[n]]
    BY <2>1, <1>22
  <2>7. moved = Restrict(new, K)
    BY <2>5, <2>6 DEF Restrict
  <2>8. Ids(call.list) = K /\ DOMAIN call.places \subseteq K
    BY <2>1, <1>3, <1>12, <1>17, <1>18, <1>23
  <2>9. QED
    BY <2>1, <2>4, <2>7, <2>8, <1>21, <1>23, SentLands
<1>24. QED
  BY <1>13, <1>19, <1>23

(* A parent that is not below a category leaves the tree one. *)
Edited(places, id, to) ==
  [n \in DOMAIN places |-> IF n = id THEN [places[n] EXCEPT !.up = to] ELSE places[n]]

(* What hangs from a block is in it. *)
LEMMA BlockClosed ==
  ASSUME NEW list, WellNested(list), NEW i \in DOMAIN list, NEW b, EndsBlock(list, i, b),
         NEW j \in i..b, NEW k \in DOMAIN list, list[k].up = list[j].id
  PROVE  k \in i..b
<1>1. /\ list \in Seq(FlatCategory) /\ DOMAIN list = 1..Len(list) /\ Len(list) \in Nat
      /\ i \in 1..Len(list) /\ b \in i..Len(list) /\ j \in DOMAIN list
  BY DEF WellNested, EndsBlock
<1>2. j \in 1..k - 1 /\ ParentOf(list, j, k)
  BY <1>1, NamedIsParent
<1>3. \A m \in DOMAIN list : list[m].depth \in Nat
  BY <1>1, RowFields
<1>4. list[j].depth >= list[i].depth
  <2>1. j = i \/ j \in i + 1..b
    BY <1>1
  <2>2. list[i].depth \in Nat /\ list[j].depth \in Nat
    BY <1>1, <1>3
  <2>3. j \in i + 1..b => list[j].depth > list[i].depth
    BY DEF EndsBlock
  <2>4. QED
    BY <2>1, <2>2, <2>3
<1>5. ASSUME k > b
      PROVE  FALSE
  <2>1. b + 1 \in DOMAIN list /\ b # Len(list) /\ (b + 1 = k \/ b + 1 \in j + 1..k - 1)
    <3>1. k \in Nat /\ b \in Nat /\ j \in Nat /\ j <= b /\ k <= Len(list) /\ Len(list) \in Nat
      BY <1>1
    <3>2. PICK len \in Nat : len = Len(list)
      BY <3>1
    <3>3. b + 1 \in 1..len /\ b # len /\ (b + 1 = k \/ b + 1 \in j + 1..k - 1)
      BY <3>1, <3>2, <1>5
    <3>4. QED
      BY <3>2, <3>3, <1>1
  <2>2. list[b + 1].depth <= list[i].depth
    BY <2>1 DEF EndsBlock
  <2>3. list[b + 1].depth > list[j].depth
    <3>1. list[k].depth = list[j].depth + 1 /\ list[j].depth \in Nat
      BY <1>1, <1>2, <1>3 DEF ParentOf
    <3>2. b + 1 \in j + 1..k - 1 => list[b + 1].depth > list[j].depth
      BY <1>2 DEF ParentOf
    <3>3. QED
      BY <2>1, <3>1, <3>2
  <2>4. list[b + 1].depth \in Nat /\ list[i].depth \in Nat /\ list[j].depth \in Nat
    BY <2>1, <1>1, <1>3
  <2>5. QED
    BY <2>2, <2>3, <2>4, <1>4
<1>6. QED
  BY <1>1, <1>2, <1>5

LEMMA EditedTree ==
  ASSUME NEW places \in Places, NEW list, ListsAll(list, places), NEW i \in DOMAIN list,
         NEW to \in DOMAIN places \cup {Top},
         to \notin {row.id : row \in Range(ActiveBlock(list, i))}
  PROVE  /\ list[i].id \in DOMAIN places
         /\ Tree(Edited(places, list[i].id, to))
<1>1. /\ list \in Seq(FlatCategory) /\ DOMAIN list = 1..Len(list) /\ Len(list) \in Nat
      /\ WellNested(list) /\ Ids(list) = DOMAIN places
      /\ \A k \in DOMAIN list : list[k].up = places[list[k].id].up
  BY DEF ListsAll, WellNested
<1>2. PICK b \in i..Len(list) : ActiveBlock(list, i) = SubSeq(list, i, b) /\ EndsBlock(list, i, b)
  BY <1>1, BlockEnds
<1>3. PICK under : under = {list[k].id : k \in i..b}
  OBVIOUS
<1>4. to \notin under
  <2>1. \A k \in i..b : list[k] \in Range(SubSeq(list, i, b))
    <3> TAKE k \in i..b
    <3>1. PICK s : s = SubSeq(list, i, b)
      OBVIOUS
    <3>2. DOMAIN s = 1..b - i + 1 /\ \A m \in 1..b - i + 1 : s[m] = list[i + m - 1]
      BY <3>1, <1>1
    <3>3. k - i + 1 \in 1..b - i + 1 /\ i + (k - i + 1) - 1 = k
      BY <1>1
    <3>4. QED
      BY <3>1, <3>2, <3>3 DEF Range
  <2>2. \A k \in i..b : list[k].id \in {row.id : row \in Range(ActiveBlock(list, i))}
    BY <2>1, <1>2
  <2>3. QED
    BY <2>2, <1>3
<1>5. PICK id : id = list[i].id
  OBVIOUS
<1>6. id \in DOMAIN places /\ id \in under
  BY <1>1, <1>3, <1>5 DEF Ids
<1>7. PICK new : new = Edited(places, id, to)
  OBVIOUS
<1>8. \A n \in DOMAIN places : places[n] \in Place /\ n \in Node /\ n # Top
  <2>1. \A n \in DOMAIN places : places[n] \in Place /\ n \in Node
    BY DEF Places
  <2>2. \A n \in Node : n # Top
    BY CategoryPanelAssumption DEF Node, Top
  <2>3. QED
    BY <2>1, <2>2
<1>9. DOMAIN new = DOMAIN places /\ new \in Places
  <2>1. to \in Node \cup {Top}
    BY <1>8
  <2>2. \A n \in DOMAIN places : [places[n] EXCEPT !.up = to] \in Place
    BY <2>1, <1>8 DEF Place
  <2>3. new \in [DOMAIN places -> Place]
    BY <2>2, <1>7, <1>8 DEF Edited
  <2>4. DOMAIN places \in SUBSET Node
    BY <1>8
  <2>5. QED
    BY <2>3, <2>4 DEF Places
<1>10. /\ \A n \in DOMAIN places \ {id} : new[n] = places[n]
       /\ new[id].up = to
  <2>1. places[id] \in Place
    BY <1>6, <1>8
  <2>2. [places[id] EXCEPT !.up = to].up = to
    BY <2>1 DEF Place
  <2>3. QED
    BY <2>2, <1>6, <1>7 DEF Edited
<1>11. Tree(places)
  BY ListIsTree
<1>12. \A n \in DOMAIN places : places[n].up \in DOMAIN places \cup {Top}
  BY <1>11 DEF Tree
<1>13. \A n \in DOMAIN places : places[n].up \in under => n \in under
  <2> TAKE n \in DOMAIN places
  <2>1. PICK k \in DOMAIN list : list[k].id = n
    BY <1>1 DEF Ids
  <2>2. \A j \in i..b : list[k].up = list[j].id => k \in i..b
    BY <2>1, <1>1, <1>2, BlockClosed
  <2>3. QED
    BY <2>1, <2>2, <1>1, <1>3
<1>14. ASSUME NEW S \in SUBSET DOMAIN places, S # {}, \A n \in S : new[n].up \in S
       PROVE  FALSE
  <2>1. CASE id \notin S
    <3>1. \A n \in S : places[n].up \in S
      BY <2>1, <1>10, <1>14
    <3>2. QED
      BY <3>1, <1>11, <1>14 DEF Tree, AcyclicTree
  <2>2. CASE id \in S
    <3>1. to \in S \ under
      BY <2>2, <1>4, <1>10, <1>14
    <3>2. \A n \in S \ under : places[n].up \in S \ under
      BY <1>6, <1>10, <1>13, <1>14
    <3>3. QED
      BY <3>1, <3>2, <1>11, <1>14 DEF Tree, AcyclicTree
  <2>3. QED
    BY <2>1, <2>2
<1>15. \A n \in DOMAIN places : new[n].up \in DOMAIN places \cup {Top}
  BY <1>10, <1>12
<1>16. Tree(new)
  BY <1>9, <1>14, <1>15 DEF Tree, AcyclicTree
<1>17. QED
  BY <1>5, <1>6, <1>7, <1>16

LEMMA EditLands ==
  ASSUME CategoryPanelInv, NEW p \in Panel, NEW list, list = panel[p].items,
         NEW i \in DOMAIN list,
         NEW to \in DOMAIN panel[p].known \cup {Top},
         to \notin {row.id : row \in Range(ActiveBlock(list, i))},
         NEW sent, sent = [n \in {list[i].id} |-> [panel[p].known[n] EXCEPT !.up = to]]
  PROVE  /\ sent \in Places
         /\ \A call : panel[p].fresh /\ call.kind = "edit" /\ call.places = sent => Lands(call)
<1>1. PICK known : known = panel[p].known
  OBVIOUS
<1>2. ListsAll(list, known) /\ known \in Places
  BY <1>1, FreshPanel
<1>3. PICK id : id = list[i].id
  OBVIOUS
<1>4. id \in DOMAIN known /\ Tree(Edited(known, id, to))
  BY <1>1, <1>2, <1>3, EditedTree
<1>5. sent = [n \in {id} |-> [known[n] EXCEPT !.up = to]]
  BY <1>1, <1>3
<1>6. \A n \in DOMAIN known : known[n] \in Place /\ n \in Node
  BY <1>2 DEF Places
<1>7. sent \in Places
  <2>1. to \in Node \cup {Top}
    BY <1>1, <1>6
  <2>2. known[id] \in Place
    BY <1>4, <1>6
  <2>3. [known[id] EXCEPT !.up = to] \in Place
    BY <2>1, <2>2 DEF Place
  <2>4. sent \in [{id} -> Place] /\ {id} \in SUBSET Node
    BY <2>3, <1>4, <1>5, <1>6
  <2>5. QED
    BY <2>4 DEF Places
<1>8. ASSUME NEW call, panel[p].fresh, call.kind = "edit", call.places = sent
      PROVE  Lands(call)
  <2>1. PICK K \in SUBSET there : K = DOMAIN known
    BY <1>1, <1>8, FreshPanel
  <2>2. there \subseteq Node /\ known = Restrict(place, K)
    BY <2>1, <1>1, <1>8, FreshPanel
  <2>3. \A n \in K : known[n] = place[n]
    BY <2>2, RestrictAt
  <2>4. PICK new : new = After(call)
    OBVIOUS
  <2>5. \A n \in K : new[n] = IF n = id THEN [known[n] EXCEPT !.up = to] ELSE known[n]
    BY <2>1, <2>2, <2>3, <2>4, <1>5, <1>8 DEF After
  <2>6. Restrict(new, K) = Edited(known, id, to)
    BY <2>1, <2>5 DEF Restrict, Edited
  <2>7. Tree(Restrict(After(call), K)) /\ DOMAIN call.places \subseteq K
    BY <2>1, <2>4, <2>6, <1>4, <1>5, <1>8
  <2>8. place \in [Node -> Place] /\ Tree(Restrict(place, there))
    BY FreshPanel
  <2>9. Allows(call)
    BY <2>2, <2>7, <2>8, <1>8, LocalChange
  <2>10. QED
    BY <2>9, <1>8 DEF Lands
<1>9. QED
  BY <1>7, <1>8

LEMMA LandsStays ==
  ASSUME NEW call, UNCHANGED documents, Lands(call)
  PROVE  Lands(call)'
<1>1. place' = place /\ there' = there
  BY DEF documents
<1>2. After(call)' = After(call)
  BY <1>1 DEF After
<1>3. Allows(call)' <=> Allows(call)
  BY <1>1, <1>2 DEF Allows
<1>4. QED
  BY <1>2, <1>3 DEF Lands

LEMMA NoMutationFields ==
  /\ NoMutation \in MutationCall /\ NoMutation.kind = "none" /\ NoMutation.fresh = FALSE
  /\ NoMutation.places = NoPlaces /\ DOMAIN NoPlaces = {} /\ NoPlaces \in Places
<1>1. NoPlaces \in Places /\ DOMAIN NoPlaces = {}
  <2>1. NoPlaces \in [{} -> Place] /\ {} \in SUBSET Node
    BY DEF NoPlaces
  <2>2. QED
    BY <2>1 DEF Places, NoPlaces
<1>2. (CHOOSE p \in Panel : TRUE) \in Panel
  BY CategoryPanelAssumption
<1>3. PICK by, none : by = (CHOOSE p \in Panel : TRUE) /\ none = NoPlaces
  OBVIOUS
<1>4. NoMutation = [kind |-> "none", places |-> none, list |-> <<>>, by |-> by, fresh |-> FALSE]
  BY <1>3 DEF NoMutation
<1>5. by \in Panel /\ none \in Places
  BY <1>1, <1>2, <1>3
<1>6. NoMutation \in MutationCall
  BY <1>4, <1>5 DEF MutationCall
<1>7. NoMutation.kind = "none" /\ NoMutation.fresh = FALSE /\ NoMutation.places = none
  BY <1>4
<1>8. QED
  BY <1>1, <1>3, <1>6, <1>7

(* A call that lands keeps the invariant when it is sent. *)
LEMMA SendsKeeps ==
  ASSUME CategoryPanelInv, NEW u \in Mutation, NEW p \in Panel,
         NEW kind \in {"sort", "edit", "create", "archive"},
         NEW sent \in Places, NEW list \in Seq(FlatCategory), Sends(u, p, kind, sent, list),
         kind = "create" =>
           /\ DOMAIN sent \cap there = {}
           /\ \A v \in Mutation : DOMAIN sent \cap DOMAIN mutation[v].places = {},
         \A call : panel[p].fresh /\ kind # "archive"
                     /\ call.kind = kind /\ call.places = sent /\ call.list = list
                   => Lands(call)
  PROVE  CategoryPanelInv'
<1>1. PICK call : call = [kind |-> kind, places |-> sent, list |-> list, by |-> p,
                          fresh |-> panel[p].fresh]
  OBVIOUS
<1>2. /\ mutation' = [mutation EXCEPT ![u] = call] /\ mutations < MaxMutations
      /\ mutations' = mutations + 1 /\ mutation[u] = NoMutation
      /\ UNCHANGED <<documents, matches, panel>>
  BY <1>1 DEF Sends
<1>3. UNCHANGED documents /\ place' = place /\ there' = there /\ archived' = archived
      /\ matches' = matches /\ panel' = panel
  BY <1>2 DEF documents
<1>4. /\ place \in [Node -> Place]
      /\ there \subseteq Node /\ archived \subseteq Node
      /\ matches \in [Panel -> SUBSET Node]
      /\ panel \in [Panel -> [known : Places, items : Seq(FlatCategory), fresh : BOOLEAN]]
      /\ mutation \in [Mutation -> MutationCall]
      /\ mutations \in 0..MaxMutations
  BY DEF CategoryPanelInv, CategoryPanelTypeOK
<1>5. /\ call.kind = kind /\ call.places = sent /\ call.list = list
      /\ call.fresh = panel[p].fresh
  BY <1>1
<1>6. call \in MutationCall
  <2>1. panel[p].fresh \in BOOLEAN
    BY <1>4
  <2>2. QED
    BY <2>1, <1>1 DEF MutationCall
<1>7. CategoryPanelTypeOK'
  <2>1. mutation' \in [Mutation -> MutationCall]
    BY <1>2, <1>4, <1>6
  <2>2. mutations' \in 0..MaxMutations
    BY <1>2, <1>4, CategoryPanelAssumption
  <2>3. QED
    BY <2>1, <2>2, <1>3, <1>4 DEF CategoryPanelTypeOK
<1>8. Tree(Restrict(place, there))'
  BY <1>3 DEF CategoryPanelInv
<1>9. /\ mutation'[u] = call
      /\ \A v \in Mutation \ {u} : mutation'[v] = mutation[v]
  BY <1>2, <1>4
<1>10. NewNames'
  <2>1. NewNames
    BY DEF CategoryPanelInv
  <2>2. QED
    BY <2>1, <1>3, <1>5, <1>9 DEF NewNames
<1>11. PanelsList'
  BY <1>3 DEF CategoryPanelInv, PanelsList
<1>12. CallsLand'
  <2> SUFFICES ASSUME NEW v \in Mutation, mutation'[v].fresh, mutation'[v].kind # "archive"
               PROVE  Lands(mutation[v])'
    BY DEF CallsLand
  <2>1. PICK c : c = mutation'[v]
    OBVIOUS
  <2>2. Lands(c)
    <3>1. CASE v = u
      <4>1. c = call
        BY <3>1, <2>1, <1>9
      <4>2. QED
        BY <4>1, <2>1, <1>5
    <3>2. CASE v # u
      <4>1. c = mutation[v]
        BY <3>2, <2>1, <1>9
      <4>2. QED
        BY <4>1, <2>1 DEF CategoryPanelInv, CallsLand
    <3>3. QED
      BY <3>1, <3>2
  <2>3. Lands(c)'
    BY <2>2, <1>3, LandsStays
  <2>4. QED
    BY <2>1, <2>3
<1>13. QED
  BY <1>7, <1>8, <1>10, <1>11, <1>12 DEF CategoryPanelInv

LEMMA PanelStarts == CategoryPanelInit => CategoryPanelInv
<1> SUFFICES ASSUME CategoryPanelInit
             PROVE  CategoryPanelInv
  OBVIOUS
<1>1. /\ there = Node \ {MaxNodes} /\ archived = {}
      /\ place \in [Node -> [up : there \cup {Top}, rank : {0}]]
      /\ \A n \in Node : place[n].up < n /\ (n \notin there => place[n].up = Top)
      /\ matches \in [Panel -> SUBSET Node]
      /\ panel = [p \in Panel |-> NothingShown]
      /\ mutation = [u \in Mutation |-> NoMutation]
      /\ mutations = 0
  BY DEF CategoryPanelInit
<1>2. MaxNodes \in Nat /\ MaxMutations \in Nat /\ Node \subseteq Nat
  BY CategoryPanelAssumption DEF Node
<1>3. place \in [Node -> Place]
  <2>1. \A n \in Node : place[n] \in [up : there \cup {Top}, rank : {0}]
    BY <1>1
  <2>2. [up : there \cup {Top}, rank : {0}] \subseteq Place
    <3>1. there \cup {Top} \subseteq Node \cup {Top} /\ {0} \subseteq 0..MaxNodes
      BY <1>1, <1>2
    <3>2. QED
      BY <3>1 DEF Place
  <2>3. QED
    BY <2>1, <2>2, <1>1
<1>4. PICK s : s = Restrict(place, there)
  OBVIOUS
<1>5. DOMAIN s = there /\ \A n \in there : s[n] = place[n]
  BY <1>4, RestrictAt
<1>6. ASSUME NEW S \in SUBSET there, S # {}, \A n \in S : s[n].up \in S
      PROVE  FALSE
  <2>1. S \subseteq Nat
    BY <1>1, <1>2
  <2>2. PICK n \in S : \A m \in S : n <= m
    BY <2>1, <1>6, LeastNatural
  <2>3. PICK m \in S : m = s[n].up
    BY <1>6
  <2>4. m < n
    BY <2>3, <1>1, <1>5
  <2>5. m \in Nat /\ n \in Nat /\ n <= m
    BY <2>1, <2>2
  <2>6. QED
    BY <2>4, <2>5
<1>7. Tree(s)
  <2>1. s \in Places
    <3>1. s \in [there -> Place] /\ there \in SUBSET Node
      BY <1>1, <1>3, <1>4 DEF Restrict
    <3>2. QED
      BY <3>1 DEF Places
  <2>2. \A n \in there : s[n].up \in there \cup {Top}
    BY <1>1, <1>5
  <2>3. QED
    BY <2>1, <2>2, <1>5, <1>6 DEF Tree, AcyclicTree
<1>8. PICK none : none = NothingShown
  OBVIOUS
<1>9. /\ none.known = NoPlaces /\ none.items = <<>> /\ none.fresh = FALSE
      /\ none \in [known : Places, items : Seq(FlatCategory), fresh : BOOLEAN]
  <2>1. PICK known : known = NoPlaces
    OBVIOUS
  <2>2. none = [known |-> known, items |-> <<>>, fresh |-> FALSE]
    BY <2>1, <1>8 DEF NothingShown
  <2>3. known \in Places
    BY <2>1, NoMutationFields
  <2>4. QED
    BY <2>1, <2>2, <2>3
<1>10. \A p \in Panel : panel[p] = none
  BY <1>1, <1>8
<1>11. ListsAll(none.items, none.known)
  <2>1. PICK list, known : list = none.items /\ known = none.known
    OBVIOUS
  <2>2. list \in Seq(FlatCategory) /\ DOMAIN list = {} /\ DOMAIN known = {}
    BY <2>1, <1>9, NoMutationFields
  <2>3. QED
    BY <2>1, <2>2 DEF ListsAll, WellNested, Ids
<1>12. PanelsList
  BY <1>9, <1>10, <1>11 DEF PanelsList
<1>13. NewNames /\ CallsLand
  BY <1>1, NoMutationFields DEF NewNames, CallsLand
<1>14. CategoryPanelTypeOK
  <2>1. panel \in [Panel -> [known : Places, items : Seq(FlatCategory), fresh : BOOLEAN]]
    BY <1>1, <1>8, <1>9
  <2>2. mutation \in [Mutation -> MutationCall]
    BY <1>1, NoMutationFields
  <2>3. QED
    BY <2>1, <2>2, <1>1, <1>2, <1>3 DEF CategoryPanelTypeOK
<1>15. QED
  BY <1>4, <1>7, <1>12, <1>13, <1>14 DEF CategoryPanelInv

LEMMA FetchKeeps ==
  ASSUME CategoryPanelInv, NEW p \in Panel, Fetch(p)
  PROVE  CategoryPanelInv'
<1>1. PICK K : K = Included(place, matches[p])
  OBVIOUS
<1>2. PICK known : known = Restrict(place, K)
  OBVIOUS
<1>3. PICK shown : shown = [known |-> known, items |-> Rows(known), fresh |-> TRUE]
  OBVIOUS
<1>4. /\ panel' = [panel EXCEPT ![p] = shown]
      /\ UNCHANGED <<documents, matches, mutation, mutations>>
  BY <1>1, <1>2, <1>3 DEF Fetch
<1>5. UNCHANGED documents /\ place' = place /\ there' = there /\ archived' = archived
      /\ matches' = matches /\ mutation' = mutation /\ mutations' = mutations
  BY <1>4 DEF documents
<1>6. /\ place \in [Node -> Place]
      /\ there \subseteq Node /\ archived \subseteq Node
      /\ matches \in [Panel -> SUBSET Node]
      /\ panel \in [Panel -> [known : Places, items : Seq(FlatCategory), fresh : BOOLEAN]]
      /\ mutation \in [Mutation -> MutationCall]
      /\ mutations \in 0..MaxMutations
      /\ Tree(Restrict(place, there))
  BY DEF CategoryPanelInv, CategoryPanelTypeOK
<1>7. K \subseteq there /\ \A n \in K : place[n].up \in K \cup {Top}
  BY <1>1, <1>6, IncludedClosed
<1>8. Tree(known)
  BY <1>2, <1>6, <1>7, PartOfTree
<1>9. PICK items : items = Rows(known)
  OBVIOUS
<1>10. ListsAll(items, known)
  BY <1>8, <1>9, RowsList
<1>11. items \in Seq(FlatCategory) /\ known \in Places
  BY <1>8, <1>10 DEF ListsAll, WellNested, Tree
<1>12. /\ shown \in [known : Places, items : Seq(FlatCategory), fresh : BOOLEAN]
       /\ shown.known = known /\ shown.items = items
  BY <1>3, <1>9, <1>11
<1>13. CategoryPanelTypeOK'
  <2>1. panel' \in [Panel -> [known : Places, items : Seq(FlatCategory), fresh : BOOLEAN]]
    BY <1>4, <1>6, <1>12
  <2>2. QED
    BY <2>1, <1>5, <1>6 DEF CategoryPanelTypeOK
<1>14. PanelsList'
  <2> SUFFICES ASSUME NEW q \in Panel
               PROVE  /\ ListsAll(panel'[q].items, panel'[q].known)
                      /\ panel'[q].fresh =>
                           /\ DOMAIN panel'[q].known \subseteq there'
                           /\ panel'[q].known = Restrict(place', DOMAIN panel'[q].known)
    BY DEF PanelsList
  <2>1. CASE q = p
    <3>1. panel'[q] = shown
      BY <2>1, <1>4, <1>6
    <3>2. DOMAIN known = K
      BY <1>2, RestrictAt
    <3>3. QED
      BY <3>1, <3>2, <1>2, <1>5, <1>7, <1>10, <1>12
  <2>2. CASE q # p
    <3>1. panel'[q] = panel[q]
      BY <2>2, <1>4, <1>6
    <3>2. QED
      BY <3>1, <1>5 DEF CategoryPanelInv, PanelsList
  <2>3. QED
    BY <2>1, <2>2
<1>15. CallsLand'
  <2> SUFFICES ASSUME NEW v \in Mutation, mutation'[v].fresh, mutation'[v].kind # "archive"
               PROVE  Lands(mutation[v])'
    BY DEF CallsLand
  <2>1. PICK c : c = mutation'[v]
    OBVIOUS
  <2>2. Lands(c)
    BY <2>1, <1>5 DEF CategoryPanelInv, CallsLand
  <2>3. Lands(c)'
    BY <2>2, <1>5, LandsStays
  <2>4. QED
    BY <2>1, <2>3
<1>16. NewNames' /\ Tree(Restrict(place, there))'
  BY <1>5 DEF CategoryPanelInv, NewNames
<1>17. QED
  BY <1>13, <1>14, <1>15, <1>16 DEF CategoryPanelInv

(* What a write that is allowed makes of the tree. *)
LEMMA CarriedTree ==
  ASSUME CategoryPanelInv, NEW u \in Mutation, CarryOut(u)
  PROVE  /\ place' \in [Node -> Place] /\ there' \subseteq Node /\ archived' \subseteq Node
         /\ Tree(Restrict(place', there'))
<1>1. PICK call : call = mutation[u]
  OBVIOUS
<1>2. PICK ids : ids = DOMAIN call.places
  OBVIOUS
<1>3. /\ call.kind \notin {"none", "written"} /\ Allows(call)
      /\ place' = IF call.kind = "archive" THEN place ELSE After(call)
      /\ there' = IF call.kind = "archive" THEN there \ ids ELSE there \cup ids
      /\ archived' = IF call.kind = "archive" THEN archived \cup ids ELSE archived
  BY <1>1, <1>2 DEF CarryOut
<1>4. /\ place \in [Node -> Place] /\ there \subseteq Node /\ archived \subseteq Node
      /\ mutation[u] \in MutationCall /\ Tree(Restrict(place, there))
  BY DEF CategoryPanelInv, CategoryPanelTypeOK
<1>5. call.places \in Places /\ call.kind \in {"none", "sort", "edit", "create", "archive", "written"}
  BY <1>1, <1>4 DEF MutationCall
<1>6. ids \subseteq Node /\ \A n \in ids : call.places[n] \in Place
  BY <1>2, <1>5 DEF Places
<1>7. PICK new : new = After(call)
  OBVIOUS
<1>8. /\ new \in [Node -> Place]
      /\ \A n \in ids : new[n] = call.places[n]
      /\ \A n \in Node \ ids : new[n] = place[n]
  BY <1>2, <1>4, <1>6, <1>7 DEF After
<1>9. place' \in [Node -> Place] /\ there' \subseteq Node /\ archived' \subseteq Node
  BY <1>3, <1>4, <1>6, <1>7, <1>8
<1>10. PICK old : old = Restrict(place, there)
  OBVIOUS
<1>11. /\ DOMAIN old = there /\ Tree(old)
       /\ \A n \in there : old[n] = place[n] /\ place[n].up \in there \cup {Top}
  <2>1. DOMAIN old = there /\ \A n \in there : old[n] = place[n]
    BY <1>10, RestrictAt
  <2>2. QED
    BY <2>1, <1>4, <1>10 DEF Tree
<1>12. CASE call.kind = "archive"
  <2>1. \A n \in there : place[n].up \notin ids
    BY <1>2, <1>3, <1>12 DEF Allows
  <2>2. \A n \in there \ ids : place[n].up \in (there \ ids) \cup {Top}
    BY <2>1, <1>11
  <2>3. there \ ids \in SUBSET there
    OBVIOUS
  <2>4. Tree(Restrict(place, there \ ids))
    BY <2>2, <2>3, <1>4, PartOfTree
  <2>5. place' = place /\ there' = there \ ids
    BY <1>3, <1>12
  <2>6. QED
    BY <2>4, <2>5, <1>9
<1> DEFINE all == Restrict(new, there \cup ids)
<1>13. /\ DOMAIN all = there \cup ids /\ all \in Places
       /\ \A n \in there \cup ids : all[n] = new[n]
  <2>1. DOMAIN all = there \cup ids /\ \A n \in there \cup ids : all[n] = new[n]
    BY RestrictAt
  <2>2. all \in [there \cup ids -> Place] /\ there \cup ids \in SUBSET Node
    BY <1>4, <1>6, <1>8 DEF Restrict
  <2>3. QED
    BY <2>1, <2>2 DEF Places
<1>14. CASE call.kind = "create"
  <2>1. \A n \in ids : new[n].up \in there \cup {Top}
    BY <1>2, <1>3, <1>8, <1>14 DEF Allows
  <2>2. ids \cap there = {}
    BY <1>1, <1>2, <1>14 DEF CategoryPanelInv, NewNames
  <2>3. \A n \in there : new[n] = place[n]
    BY <2>2, <1>4, <1>8
  <2>4. ASSUME NEW S \in SUBSET (there \cup ids), S # {}, \A n \in S : all[n].up \in S
        PROVE  FALSE
    <3>1. Top \notin S
      BY <1>4, <1>6, CategoryPanelAssumption DEF Node, Top
    <3>2. \A n \in S : new[n].up \in S
      BY <2>4, <1>13
    <3>3. S \cap there # {}
      BY <2>1, <2>4, <3>1, <3>2
    <3>4. \A n \in S \cap there : old[n].up \in S \cap there
      BY <2>3, <3>1, <3>2, <1>11
    <3>5. QED
      BY <3>3, <3>4, <1>11 DEF Tree, AcyclicTree
  <2>5. \A n \in there \cup ids : all[n].up \in there \cup ids \cup {Top}
    BY <2>1, <2>3, <1>11, <1>13
  <2>6. Tree(all)
    BY <2>4, <2>5, <1>13 DEF Tree, AcyclicTree
  <2>7. place' = new /\ there' = there \cup ids
    BY <1>3, <1>7, <1>14
  <2>8. QED
    BY <2>6, <2>7, <1>9
<1>15. CASE call.kind \in {"sort", "edit"}
  <2>1. /\ ids \subseteq there
        /\ \A n \in ids : call.places[n].up \in there \cup {Top}
        /\ AcyclicTree(Restrict(new, there))
    BY <1>2, <1>3, <1>7, <1>15 DEF Allows
  <2>2. there \cup ids = there
    BY <2>1
  <2>3. AcyclicTree(all)
    BY <2>1, <2>2
  <2>4. \A n \in there : new[n].up \in there \cup {Top}
    BY <2>1, <1>4, <1>8, <1>11
  <2>5. Tree(all)
    BY <2>2, <2>3, <2>4, <1>13 DEF Tree
  <2>6. place' = new /\ there' = there \cup ids
    BY <1>3, <1>7, <1>15
  <2>7. QED
    BY <2>5, <2>6, <1>9
<1>16. QED
  BY <1>3, <1>5, <1>12, <1>14, <1>15

LEMMA CarryOutKeeps ==
  ASSUME CategoryPanelInv, NEW u \in Mutation, CarryOut(u)
  PROVE  CategoryPanelInv'
<1>1. PICK written : written = [NoMutation EXCEPT !.kind = "written", !.by = mutation[u].by]
  OBVIOUS
<1>2. /\ panel' = [p \in Panel |-> [panel[p] EXCEPT !.fresh = FALSE]]
      /\ mutation' = [v \in Mutation |->
           IF v = u THEN written ELSE [mutation[v] EXCEPT !.fresh = FALSE]]
      /\ UNCHANGED <<matches, mutations>>
      /\ there' = IF mutation[u].kind = "archive" THEN there \ DOMAIN mutation[u].places
                  ELSE there \cup DOMAIN mutation[u].places
      /\ mutation[u].kind # "none"
  BY <1>1 DEF CarryOut
<1>3. /\ matches \in [Panel -> SUBSET Node]
      /\ panel \in [Panel -> [known : Places, items : Seq(FlatCategory), fresh : BOOLEAN]]
      /\ mutation \in [Mutation -> MutationCall]
      /\ mutations \in 0..MaxMutations
  BY DEF CategoryPanelInv, CategoryPanelTypeOK
<1>4. /\ written \in MutationCall /\ written.kind = "written" /\ written.fresh = FALSE
  <2>1. mutation[u].by \in Panel
    BY <1>3 DEF MutationCall
  <2>2. QED
    BY <2>1, <1>1, NoMutationFields DEF MutationCall
<1>5. \A v \in Mutation :
        /\ mutation'[v] \in MutationCall /\ mutation'[v].fresh = FALSE
        /\ v # u => /\ mutation'[v].kind = mutation[v].kind
                    /\ mutation'[v].places = mutation[v].places
  <2> TAKE v \in Mutation
  <2>1. CASE v = u
    BY <2>1, <1>2, <1>4
  <2>2. CASE v # u
    <3>1. PICK c \in MutationCall : c = mutation[v]
      BY <1>3
    <3>2. PICK d : d = [c EXCEPT !.fresh = FALSE]
      OBVIOUS
    <3>3. d \in MutationCall /\ d.fresh = FALSE /\ d.kind = c.kind /\ d.places = c.places
      BY <3>2 DEF MutationCall
    <3>4. mutation'[v] = d
      BY <3>1, <3>2, <2>2, <1>2
    <3>5. QED
      BY <3>1, <3>3, <3>4
  <2>3. QED
    BY <2>1, <2>2
<1>6. \A p \in Panel :
        /\ panel'[p] \in [known : Places, items : Seq(FlatCategory), fresh : BOOLEAN]
        /\ panel'[p].fresh = FALSE
        /\ panel'[p].known = panel[p].known /\ panel'[p].items = panel[p].items
  BY <1>2, <1>3
<1>7. CategoryPanelTypeOK'
  <2>1. place' \in [Node -> Place] /\ there' \subseteq Node /\ archived' \subseteq Node
    BY CarriedTree
  <2>2. panel' \in [Panel -> [known : Places, items : Seq(FlatCategory), fresh : BOOLEAN]]
    BY <1>2, <1>6
  <2>3. mutation' \in [Mutation -> MutationCall]
    BY <1>2, <1>5
  <2>4. matches' \in [Panel -> SUBSET Node] /\ mutations' \in 0..MaxMutations
    BY <1>2, <1>3
  <2>5. QED
    BY <2>1, <2>2, <2>3, <2>4 DEF CategoryPanelTypeOK
<1>8. Tree(Restrict(place, there))'
  BY CarriedTree
<1>9. PanelsList'
  BY <1>6 DEF CategoryPanelInv, PanelsList
<1>10. CallsLand'
  BY <1>5 DEF CallsLand
<1>11. NewNames'
  <2> SUFFICES ASSUME NEW v \in Mutation, mutation'[v].kind = "create"
               PROVE  /\ DOMAIN mutation'[v].places \cap there' = {}
                      /\ \A w \in Mutation \ {v} :
                           mutation'[w].kind = "create" =>
                             DOMAIN mutation'[v].places \cap DOMAIN mutation'[w].places = {}
    BY DEF NewNames
  <2>1. NewNames
    BY DEF CategoryPanelInv
  <2>2. v # u /\ mutation[v].kind = "create" /\ mutation'[v].places = mutation[v].places
    BY <1>2, <1>4, <1>5
  <2>3. DOMAIN mutation[v].places \cap there = {}
    BY <2>1, <2>2 DEF NewNames
  <2>4. \A w \in Mutation \ {v} :
          mutation'[w].kind = "create" =>
            DOMAIN mutation'[v].places \cap DOMAIN mutation'[w].places = {}
    <3> SUFFICES ASSUME NEW w \in Mutation \ {v}, mutation'[w].kind = "create"
                 PROVE  DOMAIN mutation'[v].places \cap DOMAIN mutation'[w].places = {}
      OBVIOUS
    <3>1. w # u /\ mutation[w].kind = "create" /\ mutation'[w].places = mutation[w].places
      BY <1>2, <1>4, <1>5
    <3>2. QED
      BY <3>1, <2>1, <2>2 DEF NewNames
  <2>5. mutation[u].kind = "create" =>
          DOMAIN mutation[v].places \cap DOMAIN mutation[u].places = {}
    BY <2>1, <2>2 DEF NewNames
  <2>6. mutation[u].kind \in {"sort", "edit"} => DOMAIN mutation[u].places \subseteq there
    BY DEF CarryOut, Allows
  <2>7. mutation[u].kind \in {"none", "sort", "edit", "create", "archive", "written"}
    BY <1>3 DEF MutationCall
  <2>8. mutation[u].kind # "written"
    BY DEF CarryOut
  <2>9. DOMAIN mutation[v].places \cap there' = {}
    BY <2>3, <2>5, <2>6, <2>7, <2>8, <1>2
  <2>10. QED
    BY <2>2, <2>4, <2>9
<1>12. QED
  BY <1>7, <1>8, <1>9, <1>10, <1>11 DEF CategoryPanelInv

(* A panel that shows nothing lists that. *)
LEMMA NothingListed ==
  /\ NothingShown.fresh = FALSE /\ ListsAll(NothingShown.items, NothingShown.known)
  /\ NothingShown \in [known : Places, items : Seq(FlatCategory), fresh : BOOLEAN]
<1>1. PICK none : none = NothingShown
  OBVIOUS
<1>2. PICK known : known = NoPlaces
  OBVIOUS
<1>3. none = [known |-> known, items |-> <<>>, fresh |-> FALSE]
  BY <1>1, <1>2 DEF NothingShown
<1>4. known \in Places /\ DOMAIN known = {}
  BY <1>2, NoMutationFields
<1>5. PICK list : list = <<>>
  OBVIOUS
<1>6. list \in Seq(FlatCategory) /\ DOMAIN list = {}
  BY <1>5
<1>7. ListsAll(list, known)
  BY <1>4, <1>6 DEF ListsAll, WellNested, Ids
<1>8. none.known = known /\ none.items = list /\ none.fresh = FALSE
  BY <1>3, <1>5
<1>9. none \in [known : Places, items : Seq(FlatCategory), fresh : BOOLEAN]
  BY <1>3, <1>4
<1>10. QED
  BY <1>1, <1>7, <1>8, <1>9

LEMMA PanelStands ==
  CategoryPanelInv /\ UNCHANGED categoryPanelVars => CategoryPanelInv'
<1> SUFFICES ASSUME CategoryPanelInv, UNCHANGED categoryPanelVars
             PROVE  CategoryPanelInv'
  OBVIOUS
<1>1. /\ UNCHANGED documents /\ place' = place /\ there' = there /\ archived' = archived
      /\ matches' = matches /\ panel' = panel /\ mutation' = mutation /\ mutations' = mutations
  BY DEF categoryPanelVars, documents
<1>2. CategoryPanelTypeOK'
  BY <1>1 DEF CategoryPanelInv, CategoryPanelTypeOK
<1>3. Tree(Restrict(place, there))' /\ NewNames' /\ PanelsList'
  BY <1>1 DEF CategoryPanelInv, NewNames, PanelsList
<1>4. CallsLand'
  <2> SUFFICES ASSUME NEW v \in Mutation, mutation'[v].fresh, mutation'[v].kind # "archive"
               PROVE  Lands(mutation[v])'
    BY DEF CallsLand
  <2>1. PICK c : c = mutation'[v]
    OBVIOUS
  <2>2. Lands(c)
    BY <2>1, <1>1 DEF CategoryPanelInv, CallsLand
  <2>3. Lands(c)'
    BY <2>2, <1>1, LandsStays
  <2>4. QED
    BY <2>1, <2>3
<1>5. QED
  BY <1>2, <1>3, <1>4 DEF CategoryPanelInv

(* A call that is over. *)
LEMMA EndedKeeps ==
  ASSUME CategoryPanelInv, NEW u \in Mutation, Refused(u) \/ Succeeded(u)
  PROVE  CategoryPanelInv'
<1>1. /\ mutation' = [mutation EXCEPT ![u] = NoMutation]
      /\ UNCHANGED <<documents, matches, mutations>>
      /\ panel' = panel \/ panel' = [panel EXCEPT ![mutation[u].by] = NothingShown]
  BY DEF Refused, Succeeded
<1>2. /\ UNCHANGED documents /\ place' = place /\ there' = there /\ archived' = archived
      /\ matches' = matches /\ mutations' = mutations
  BY <1>1 DEF documents
<1>3. /\ place \in [Node -> Place]
      /\ there \subseteq Node /\ archived \subseteq Node
      /\ matches \in [Panel -> SUBSET Node]
      /\ panel \in [Panel -> [known : Places, items : Seq(FlatCategory), fresh : BOOLEAN]]
      /\ mutation \in [Mutation -> MutationCall]
      /\ mutations \in 0..MaxMutations
  BY DEF CategoryPanelInv, CategoryPanelTypeOK
<1>4. /\ mutation' \in [Mutation -> MutationCall]
      /\ \A v \in Mutation : mutation'[v] = mutation[v] \/ mutation'[v] = NoMutation
  BY <1>1, <1>3, NoMutationFields
<1>5. PICK none : none = NothingShown
  OBVIOUS
<1>6. /\ none.fresh = FALSE /\ ListsAll(none.items, none.known)
      /\ none \in [known : Places, items : Seq(FlatCategory), fresh : BOOLEAN]
  BY <1>5, NothingListed
<1>7. /\ panel' \in [Panel -> [known : Places, items : Seq(FlatCategory), fresh : BOOLEAN]]
      /\ \A p \in Panel : panel'[p] = panel[p] \/ panel'[p] = none
  BY <1>1, <1>3, <1>5, <1>6
<1>8. CategoryPanelTypeOK'
  BY <1>2, <1>3, <1>4, <1>7 DEF CategoryPanelTypeOK
<1>9. Tree(Restrict(place, there))'
  BY <1>2 DEF CategoryPanelInv
<1>10. PanelsList'
  <2> SUFFICES ASSUME NEW q \in Panel
               PROVE  /\ ListsAll(panel'[q].items, panel'[q].known)
                      /\ panel'[q].fresh =>
                           /\ DOMAIN panel'[q].known \subseteq there'
                           /\ panel'[q].known = Restrict(place', DOMAIN panel'[q].known)
    BY DEF PanelsList
  <2>1. CASE panel'[q] = none
    BY <2>1, <1>6
  <2>2. CASE panel'[q] = panel[q]
    BY <2>2, <1>2 DEF CategoryPanelInv, PanelsList
  <2>3. QED
    BY <2>1, <2>2, <1>7
<1>11. NewNames'
  <2>1. NewNames
    BY DEF CategoryPanelInv
  <2>2. NoMutation.kind # "create"
    BY NoMutationFields
  <2>3. QED
    BY <2>1, <2>2, <1>2, <1>4 DEF NewNames
<1>12. CallsLand'
  <2> SUFFICES ASSUME NEW v \in Mutation, mutation'[v].fresh, mutation'[v].kind # "archive"
               PROVE  Lands(mutation[v])'
    BY DEF CallsLand
  <2>1. PICK c : c = mutation'[v]
    OBVIOUS
  <2>2. c = mutation[v]
    <3>1. c # NoMutation
      BY <2>1, NoMutationFields
    <3>2. QED
      BY <3>1, <2>1, <1>4
  <2>3. Lands(c)
    BY <2>1, <2>2 DEF CategoryPanelInv, CallsLand
  <2>4. Lands(c)'
    BY <2>3, <1>2, LandsStays
  <2>5. QED
    BY <2>1, <2>4
<1>13. QED
  BY <1>8, <1>9, <1>10, <1>11, <1>12 DEF CategoryPanelInv

(* What staff send. *)
LEMMA StaffKeeps ==
  ASSUME CategoryPanelInv, NEW p \in Panel, NEW u \in Mutation,
         \/ \E i, o \in DOMAIN panel[p].items : OnDragEnd(u, p, i, o)
         \/ \E i \in DOMAIN panel[p].items :
              Nudge(u, p, i) \/ \E to \in Node \cup {Top} : SaveCategory(u, p, i, to)
         \/ \E to \in Node \cup {Top} : NewCategory(u, p, to)
         \/ \E id \in Node : ArchiveCategory(u, p, id)
  PROVE  CategoryPanelInv'
<1>1. PICK list : list = panel[p].items
  OBVIOUS
<1>2. PICK known : known = panel[p].known
  OBVIOUS
<1>3. /\ list \in Seq(FlatCategory) /\ ListsAll(list, known) /\ known \in Places
      /\ panel[p].fresh => DOMAIN known \in SUBSET there
      /\ \A n \in DOMAIN known : known[n] \in Place /\ n \in Node
  BY <1>1, <1>2, FreshPanel DEF Places
<1>4. ASSUME NEW i \in DOMAIN list, NEW o \in DOMAIN list, OnDragEnd(u, p, i, o)
      PROVE  CategoryPanelInv'
  <2>1. PICK dropped \in Drops(list, i, o) :
          /\ o \notin i..i + Len(ActiveBlock(list, i)) - 1
          /\ Sends(u, p, "sort", SortEntries(dropped), dropped)
    BY <1>1, <1>4 DEF OnDragEnd
  <2>2. PICK sent : sent = SortEntries(dropped)
    OBVIOUS
  <2>3. /\ sent \in Places /\ dropped \in Seq(FlatCategory)
        /\ \A call : panel[p].fresh /\ call.kind = "sort"
                       /\ call.places = sent /\ call.list = dropped
                     => Lands(call)
    BY <1>1, <2>1, <2>2, DropLands
  <2>4. Sends(u, p, "sort", sent, dropped)
    BY <2>1, <2>2
  <2>5. QED
    BY <2>3, <2>4, SendsKeeps
<1>5. ASSUME NEW i \in DOMAIN list, Nudge(u, p, i)
      PROVE  CategoryPanelInv'
  <2>1. PICK family : family = {k \in DOMAIN list : list[k].up = list[i].up}
    OBVIOUS
  <2>2. PICK j : j = Max({k \in family : k < i})
    OBVIOUS
  <2>3. PICK swapped : swapped = Nudged(list, i, j)
    OBVIOUS
  <2>5. PICK sent : sent = Restrict(SortEntries(swapped), FamilyIds(list, i))
    OBVIOUS
  <2>6. i # Min(family) /\ Sends(u, p, "sort", sent, swapped)
    BY <1>1, <1>5, <2>1, <2>2, <2>3, <2>5 DEF Nudge, Nudged, FamilyIds
  <2>7. Neighbours(list, j, i)
    BY <1>3, <2>1, <2>2, <2>6, UpperNeighbour
  <2>8. PICK b : EndsBlock(list, i, b) /\ Nudged(list, i, j) = Swapped(list, j, i, b)
    <3>1. WellNested(list)
      BY <1>3 DEF ListsAll
    <3>2. QED
      BY <3>1, <2>7, NudgedIsSwapped
  <2>9. swapped = Swapped(list, j, i, b)
    BY <2>3, <2>8
  <2>10. /\ sent \in Places /\ swapped \in Seq(FlatCategory)
         /\ \A call : panel[p].fresh /\ call.kind = "sort"
                        /\ call.places = sent /\ call.list = swapped
                      => Lands(call)
    <3>1. EndsBlock(list, i, b)
      BY <2>8
    <3>2. QED
      BY <3>1, <1>1, <2>5, <2>7, <2>9, SwapLands
  <2>11. QED
    BY <2>6, <2>10, SendsKeeps
<1>6. ASSUME NEW i \in DOMAIN list, NEW to \in Node \cup {Top}, SaveCategory(u, p, i, to)
      PROVE  CategoryPanelInv'
  <2>1. PICK sent : sent = [n \in {list[i].id} |-> [known[n] EXCEPT !.up = to]]
    OBVIOUS
  <2>2. /\ to \in DOMAIN known \cup {Top}
        /\ to \notin {row.id : row \in Range(ActiveBlock(list, i))}
        /\ Sends(u, p, "edit", sent, <<>>)
    BY <1>1, <1>2, <1>6, <2>1 DEF SaveCategory
  <2>3. /\ sent \in Places
        /\ \A call : panel[p].fresh /\ call.kind = "edit" /\ call.places = sent => Lands(call)
    <3>1. sent = [n \in {list[i].id} |-> [panel[p].known[n] EXCEPT !.up = to]]
      BY <1>2, <2>1
    <3>2. /\ to \in DOMAIN panel[p].known \cup {Top}
          /\ to \notin {row.id : row \in Range(ActiveBlock(list, i))}
      BY <1>2, <2>2
    <3>3. QED
      BY <3>1, <3>2, <1>1, EditLands
  <2>4. PICK none \in Seq(FlatCategory) : none = <<>>
    <3>1. <<>> \in Seq(FlatCategory)
      OBVIOUS
    <3>2. QED
      BY <3>1
  <2>5. Sends(u, p, "edit", sent, none)
    BY <2>2, <2>4
  <2>6. QED
    BY <2>3, <2>5, SendsKeeps
<1>7. ASSUME NEW to \in Node \cup {Top}, NewCategory(u, p, to)
      PROVE  CategoryPanelInv'
  <2>1. PICK id \in Node \ (there \cup archived) :
          /\ \A v \in Mutation : id \notin DOMAIN mutation[v].places
          /\ Sends(u, p, "create", [n \in {id} |-> [up |-> to, rank |-> 0]], <<>>)
    BY <1>7 DEF NewCategory
  <2>2. to \in DOMAIN known \cup {Top}
    BY <1>2, <1>7 DEF NewCategory
  <2>3. PICK sent : sent = [n \in {id} |-> [up |-> to, rank |-> 0]]
    OBVIOUS
  <2>4. PICK none \in Seq(FlatCategory) : none = <<>>
    <3>1. <<>> \in Seq(FlatCategory)
      OBVIOUS
    <3>2. QED
      BY <3>1
  <2>5. Sends(u, p, "create", sent, none)
    BY <2>1, <2>3, <2>4
  <2>6. PICK new : new = [up |-> to, rank |-> 0]
    OBVIOUS
  <2>7. new \in Place /\ new.up = to
    <3>1. 0 \in 0..MaxNodes
      BY CategoryPanelAssumption
    <3>2. QED
      BY <3>1, <2>6 DEF Place
  <2>8. DOMAIN sent = {id} /\ sent[id] = new
    BY <2>3, <2>6
  <2>9. sent \in Places
    <3>1. sent \in [{id} -> Place] /\ {id} \in SUBSET Node
      BY <2>3, <2>6, <2>7
    <3>2. QED
      BY <3>1 DEF Places
  <2>10. ASSUME NEW call, panel[p].fresh, call.kind = "create", call.places = sent
         PROVE  Lands(call)
    <3>1. to \in there \cup {Top}
      BY <1>3, <2>2, <2>10
    <3>2. \A n \in DOMAIN call.places : call.places[n].up \in there \cup {Top}
      BY <3>1, <2>7, <2>8, <2>10
    <3>3. QED
      BY <3>2, <2>10 DEF Lands, Allows
  <2>11. /\ DOMAIN sent \cap there = {}
         /\ \A v \in Mutation : DOMAIN sent \cap DOMAIN mutation[v].places = {}
    BY <2>1, <2>8
  <2>12. QED
    BY <2>5, <2>9, <2>10, <2>11, SendsKeeps
<1>8. ASSUME NEW id \in Node, ArchiveCategory(u, p, id)
      PROVE  CategoryPanelInv'
  <2>1. PICK sent : sent = [n \in {id} |-> known[n]]
    OBVIOUS
  <2>2. PICK none \in Seq(FlatCategory) : none = <<>>
    <3>1. <<>> \in Seq(FlatCategory)
      OBVIOUS
    <3>2. QED
      BY <3>1
  <2>3. id \in DOMAIN known /\ Sends(u, p, "archive", sent, none)
    BY <1>2, <1>8, <2>1, <2>2 DEF ArchiveCategory
  <2>4. sent \in Places
    <3>1. sent \in [{id} -> Place] /\ {id} \in SUBSET Node
      BY <1>3, <2>1, <2>3
    <3>2. QED
      BY <3>1 DEF Places
  <2>5. QED
    BY <2>3, <2>4, SendsKeeps
<1>9. QED
  BY <1>1, <1>4, <1>5, <1>6, <1>7, <1>8

LEMMA PanelSteps ==
  CategoryPanelInv /\ [CategoryPanelNext]_categoryPanelVars => CategoryPanelInv'
<1> SUFFICES ASSUME CategoryPanelInv, [CategoryPanelNext]_categoryPanelVars
             PROVE  CategoryPanelInv'
  OBVIOUS
<1>1. ASSUME NEW p \in Panel, Fetch(p)
      PROVE  CategoryPanelInv'
  BY <1>1, FetchKeeps
<1>2. ASSUME NEW p \in Panel, NEW u \in Mutation,
             \/ \E i, o \in DOMAIN panel[p].items : OnDragEnd(u, p, i, o)
             \/ \E i \in DOMAIN panel[p].items :
                  Nudge(u, p, i) \/ \E to \in Node \cup {Top} : SaveCategory(u, p, i, to)
             \/ \E to \in Node \cup {Top} : NewCategory(u, p, to)
             \/ \E id \in Node : ArchiveCategory(u, p, id)
      PROVE  CategoryPanelInv'
  BY <1>2, StaffKeeps
<1>3. ASSUME NEW u \in Mutation, CarryOut(u)
      PROVE  CategoryPanelInv'
  BY <1>3, CarryOutKeeps
<1>4. ASSUME NEW u \in Mutation, Refused(u) \/ Succeeded(u)
      PROVE  CategoryPanelInv'
  BY <1>4, EndedKeeps
<1>5. CASE UNCHANGED categoryPanelVars
  BY <1>5, PanelStands
<1>6. QED
  BY <1>1, <1>2, <1>3, <1>4, <1>5 DEF CategoryPanelNext

(* What a sort was sent with. *)
Sent(call) ==
  call.kind = "sort" =>
    /\ WellNested(call.list)
    /\ DOMAIN call.places = Ids(call.list) => ListsAll(call.list, call.places)
    /\ call.fresh => matches[call.by] \cap there \subseteq Ids(call.list)

(* A list that is up to date has a row for all that matches. *)
ListsSeen ==
  /\ \A p \in Panel :
       panel[p].fresh => matches[p] \cap there \subseteq Ids(panel[p].items)
  /\ \A u \in Mutation : Sent(mutation[u])

LEMMA SendsSeen ==
  ASSUME CategoryPanelInv, ListsSeen, NEW u \in Mutation, NEW p \in Panel,
         NEW kind, NEW sent, NEW list, Sends(u, p, kind, sent, list),
         kind = "sort" =>
           /\ WellNested(list) /\ Ids(list) = Ids(panel[p].items)
           /\ DOMAIN sent = Ids(list) => ListsAll(list, sent)
  PROVE  ListsSeen'
<1>1. PICK call : call = [kind |-> kind, places |-> sent, list |-> list, by |-> p,
                          fresh |-> panel[p].fresh]
  OBVIOUS
<1>2. /\ mutation' = [mutation EXCEPT ![u] = call]
      /\ there' = there /\ matches' = matches /\ panel' = panel
  BY <1>1 DEF Sends, documents
<1>3. /\ call.kind = kind /\ call.places = sent /\ call.list = list
      /\ call.fresh = panel[p].fresh /\ call.by = p
  BY <1>1
<1>4. Sent(call)
  BY <1>3 DEF Sent, ListsSeen
<1>5. mutation \in [Mutation -> MutationCall]
  BY DEF CategoryPanelInv, CategoryPanelTypeOK
<1>6. \A v \in Mutation : Sent(mutation'[v])
  <2> TAKE v \in Mutation
  <2>1. mutation'[v] = call \/ mutation'[v] = mutation[v]
    BY <1>2, <1>5
  <2>2. Sent(mutation[v])
    BY DEF ListsSeen
  <2>3. QED
    BY <2>1, <2>2, <1>4
<1>7. QED
  BY <1>2, <1>6 DEF ListsSeen, Sent

LEMMA StaffSeen ==
  ASSUME CategoryPanelInv, ListsSeen, NEW p \in Panel, NEW u \in Mutation,
         \/ \E i, o \in DOMAIN panel[p].items : OnDragEnd(u, p, i, o)
         \/ \E i \in DOMAIN panel[p].items :
              Nudge(u, p, i) \/ \E to \in Node \cup {Top} : SaveCategory(u, p, i, to)
         \/ \E to \in Node \cup {Top} : NewCategory(u, p, to)
         \/ \E id \in Node : ArchiveCategory(u, p, id)
  PROVE  ListsSeen'
<1>1. PICK list : list = panel[p].items
  OBVIOUS
<1>2. list \in Seq(FlatCategory) /\ WellNested(list)
  BY <1>1, FreshPanel DEF ListsAll
<1>3. ASSUME NEW i \in DOMAIN list, NEW o \in DOMAIN list, OnDragEnd(u, p, i, o)
      PROVE  ListsSeen'
  <2>1. PICK dropped \in Drops(list, i, o) :
          /\ o \notin i..i + Len(ActiveBlock(list, i)) - 1
          /\ Sends(u, p, "sort", SortEntries(dropped), dropped)
    BY <1>1, <1>3 DEF OnDragEnd
  <2>2. WellNested(dropped) /\ Ids(dropped) = Ids(list)
    BY <1>2, <2>1, DropIsMove
  <2>3. ListsAll(dropped, SortEntries(dropped))
    BY <2>2, SortListsAll
  <2>4. QED
    BY <1>1, <2>1, <2>2, <2>3, SendsSeen
<1>4. ASSUME NEW i \in DOMAIN list, Nudge(u, p, i)
      PROVE  ListsSeen'
  <2>1. PICK family : family = {k \in DOMAIN list : list[k].up = list[i].up}
    OBVIOUS
  <2>2. PICK j : j = Max({k \in family : k < i})
    OBVIOUS
  <2>3. PICK swapped : swapped = Nudged(list, i, j)
    OBVIOUS
  <2>4. PICK sent : sent = Restrict(SortEntries(swapped), FamilyIds(list, i))
    OBVIOUS
  <2>5. i # Min(family) /\ Sends(u, p, "sort", sent, swapped)
    BY <1>1, <1>4, <2>1, <2>2, <2>3, <2>4 DEF Nudge, Nudged, FamilyIds
  <2>6. Neighbours(list, j, i)
    BY <1>2, <2>1, <2>2, <2>5, UpperNeighbour
  <2>7. PICK b : EndsBlock(list, i, b) /\ swapped = Swapped(list, j, i, b)
    BY <1>2, <2>3, <2>6, NudgedIsSwapped
  <2>8. WellNested(swapped) /\ Ids(swapped) = Ids(list)
    <3>1. EndsBlock(list, i, b)
      BY <2>7
    <3>2. QED
      BY <3>1, <1>2, <2>6, <2>7, SwappedNested
  <2>9. ASSUME DOMAIN sent = Ids(swapped)
        PROVE  ListsAll(swapped, sent)
    <3>1. PICK all : all = SortEntries(swapped)
      OBVIOUS
    <3>2. all \in Places /\ DOMAIN all = Ids(swapped) /\ ListsAll(swapped, all)
      BY <2>8, <3>1, SortEntriesAt, SortListsAll
    <3>3. DOMAIN sent = FamilyIds(list, i) /\ \A n \in DOMAIN sent : sent[n] = all[n]
      BY <2>4, <3>1, RestrictAt
    <3>4. sent = [n \in Ids(swapped) |-> all[n]]
      BY <2>4, <2>9, <3>1, <3>3 DEF Restrict
    <3>5. all = [n \in Ids(swapped) |-> all[n]]
      BY <3>2 DEF Places
    <3>6. QED
      BY <3>2, <3>4, <3>5
  <2>10. QED
    BY <1>1, <2>5, <2>8, <2>9, SendsSeen
<1>5. ASSUME NEW kind, NEW sent, Sends(u, p, kind, sent, <<>>), kind # "sort"
      PROVE  ListsSeen'
  <2>1. PICK none : none = <<>>
    OBVIOUS
  <2>2. Sends(u, p, kind, sent, none)
    BY <1>5, <2>1
  <2>3. QED
    BY <1>5, <2>2, SendsSeen
<1>6. ASSUME NEW i \in DOMAIN list, NEW to \in Node \cup {Top}, SaveCategory(u, p, i, to)
      PROVE  ListsSeen'
  <2>1. \E sent : Sends(u, p, "edit", sent, <<>>)
    BY <1>6 DEF SaveCategory
  <2>2. QED
    BY <2>1, <1>5
<1>7. ASSUME NEW to \in Node \cup {Top}, NewCategory(u, p, to)
      PROVE  ListsSeen'
  <2>1. \E sent : Sends(u, p, "create", sent, <<>>)
    BY <1>7 DEF NewCategory
  <2>2. QED
    BY <2>1, <1>5
<1>8. ASSUME NEW id \in Node, ArchiveCategory(u, p, id)
      PROVE  ListsSeen'
  <2>1. \E sent : Sends(u, p, "archive", sent, <<>>)
    BY <1>8 DEF ArchiveCategory
  <2>2. QED
    BY <2>1, <1>5
<1>9. QED
  BY <1>1, <1>3, <1>4, <1>6, <1>7, <1>8

LEMMA FetchSeen ==
  ASSUME CategoryPanelInv, ListsSeen, NEW p \in Panel, Fetch(p)
  PROVE  ListsSeen'
<1>1. PICK K : K = Included(place, matches[p])
  OBVIOUS
<1>2. PICK known : known = Restrict(place, K)
  OBVIOUS
<1>3. PICK shown : shown = [known |-> known, items |-> Rows(known), fresh |-> TRUE]
  OBVIOUS
<1>4. /\ panel' = [panel EXCEPT ![p] = shown]
      /\ there' = there /\ matches' = matches /\ mutation' = mutation
  BY <1>1, <1>2, <1>3 DEF Fetch, documents
<1>5. /\ place \in [Node -> Place] /\ there \subseteq Node /\ Tree(Restrict(place, there))
      /\ panel \in [Panel -> [known : Places, items : Seq(FlatCategory), fresh : BOOLEAN]]
  BY DEF CategoryPanelInv, CategoryPanelTypeOK
<1>6. /\ K \subseteq there /\ matches[p] \cap there \subseteq K
      /\ \A n \in K : place[n].up \in K \cup {Top}
  BY <1>1, <1>5, IncludedClosed
<1>7. Tree(known)
  BY <1>2, <1>5, <1>6, PartOfTree
<1>8. DOMAIN known = K
  BY <1>2, RestrictAt
<1>9. Ids(Rows(known)) = K
  BY <1>7, <1>8, RowsList DEF ListsAll
<1>10. \A q \in Panel : panel'[q].fresh => matches[q] \cap there \subseteq Ids(panel'[q].items)
  <2> TAKE q \in Panel
  <2>1. CASE q = p
    <3>1. panel'[q] = shown
      BY <2>1, <1>4, <1>5
    <3>2. shown.items = Rows(known)
      BY <1>3
    <3>3. QED
      BY <3>1, <3>2, <2>1, <1>6, <1>9
  <2>2. CASE q # p
    <3>1. panel'[q] = panel[q]
      BY <2>2, <1>4, <1>5
    <3>2. QED
      BY <3>1 DEF ListsSeen
  <2>3. QED
    BY <2>1, <2>2
<1>11. QED
  BY <1>4, <1>10 DEF ListsSeen, Sent

LEMMA CarryOutSeen ==
  ASSUME CategoryPanelInv, ListsSeen, NEW u \in Mutation, CarryOut(u)
  PROVE  ListsSeen'
<1>1. PICK written : written = [NoMutation EXCEPT !.kind = "written", !.by = mutation[u].by]
  OBVIOUS
<1>2. /\ panel' = [p \in Panel |-> [panel[p] EXCEPT !.fresh = FALSE]]
      /\ mutation' = [v \in Mutation |->
           IF v = u THEN written ELSE [mutation[v] EXCEPT !.fresh = FALSE]]
  BY <1>1 DEF CarryOut
<1>3. /\ panel \in [Panel -> [known : Places, items : Seq(FlatCategory), fresh : BOOLEAN]]
      /\ mutation \in [Mutation -> MutationCall]
  BY DEF CategoryPanelInv, CategoryPanelTypeOK
<1>4. written.kind = "written"
  BY <1>1, NoMutationFields DEF MutationCall
<1>5. \A p \in Panel : panel'[p].fresh = FALSE
  BY <1>2, <1>3
<1>6. ASSUME NEW v \in Mutation, mutation'[v].kind = "sort"
      PROVE  /\ mutation'[v].fresh = FALSE /\ WellNested(mutation'[v].list)
             /\ DOMAIN mutation'[v].places = Ids(mutation'[v].list) =>
                  ListsAll(mutation'[v].list, mutation'[v].places)
  <2>1. v # u
    BY <1>2, <1>4, <1>6
  <2>2. PICK c \in MutationCall : c = mutation[v]
    BY <1>3
  <2>3. PICK d : d = [c EXCEPT !.fresh = FALSE]
    OBVIOUS
  <2>4. d.fresh = FALSE /\ d.kind = c.kind /\ d.places = c.places /\ d.list = c.list
    BY <2>3 DEF MutationCall
  <2>5. mutation'[v] = d
    BY <2>1, <2>2, <2>3, <1>2
  <2>6. Sent(c)
    BY <2>2 DEF ListsSeen
  <2>7. QED
    BY <2>4, <2>5, <2>6, <1>6 DEF Sent
<1>7. QED
  BY <1>5, <1>6 DEF ListsSeen, Sent

LEMMA EndedSeen ==
  ASSUME CategoryPanelInv, ListsSeen, NEW u \in Mutation, Refused(u) \/ Succeeded(u)
  PROVE  ListsSeen'
<1>1. /\ mutation' = [mutation EXCEPT ![u] = NoMutation]
      /\ there' = there /\ matches' = matches
      /\ panel' = panel \/ panel' = [panel EXCEPT ![mutation[u].by] = NothingShown]
  BY DEF Refused, Succeeded, documents
<1>2. /\ panel \in [Panel -> [known : Places, items : Seq(FlatCategory), fresh : BOOLEAN]]
      /\ mutation \in [Mutation -> MutationCall]
  BY DEF CategoryPanelInv, CategoryPanelTypeOK
<1>3. \A v \in Mutation : mutation'[v] = mutation[v] \/ mutation'[v] = NoMutation
  BY <1>1, <1>2
<1>4. \A v \in Mutation : Sent(mutation'[v])
  <2>1. Sent(NoMutation)
    BY NoMutationFields DEF Sent
  <2>2. \A v \in Mutation : Sent(mutation[v])
    BY DEF ListsSeen
  <2>3. QED
    BY <2>1, <2>2, <1>3
<1>5. \A p \in Panel : panel'[p] = panel[p] \/ panel'[p].fresh = FALSE
  <2>1. PICK none : none = NothingShown
    OBVIOUS
  <2>2. none.fresh = FALSE
    BY <2>1, NothingListed
  <2>3. \A p \in Panel : panel'[p] = panel[p] \/ panel'[p] = none
    BY <2>1, <1>1, <1>2
  <2>4. QED
    BY <2>2, <2>3
<1>6. QED
  BY <1>1, <1>4, <1>5 DEF ListsSeen, Sent

LEMMA SeenStarts == CategoryPanelInit => ListsSeen
<1> SUFFICES ASSUME CategoryPanelInit
             PROVE  ListsSeen
  OBVIOUS
<1>1. \A p \in Panel : panel[p].fresh = FALSE
  BY NothingListed DEF CategoryPanelInit
<1>2. \A u \in Mutation : mutation[u].kind = "none"
  BY NoMutationFields DEF CategoryPanelInit
<1>3. QED
  BY <1>1, <1>2 DEF ListsSeen, Sent

LEMMA SeenSteps ==
  CategoryPanelInv /\ ListsSeen /\ [CategoryPanelNext]_categoryPanelVars => ListsSeen'
<1> SUFFICES ASSUME CategoryPanelInv, ListsSeen, [CategoryPanelNext]_categoryPanelVars
             PROVE  ListsSeen'
  OBVIOUS
<1>1. ASSUME NEW p \in Panel, Fetch(p)
      PROVE  ListsSeen'
  BY <1>1, FetchSeen
<1>2. ASSUME NEW p \in Panel, NEW u \in Mutation,
             \/ \E i, o \in DOMAIN panel[p].items : OnDragEnd(u, p, i, o)
             \/ \E i \in DOMAIN panel[p].items :
                  Nudge(u, p, i) \/ \E to \in Node \cup {Top} : SaveCategory(u, p, i, to)
             \/ \E to \in Node \cup {Top} : NewCategory(u, p, to)
             \/ \E id \in Node : ArchiveCategory(u, p, id)
      PROVE  ListsSeen'
  BY <1>2, StaffSeen
<1>3. ASSUME NEW u \in Mutation, CarryOut(u)
      PROVE  ListsSeen'
  BY <1>3, CarryOutSeen
<1>4. ASSUME NEW u \in Mutation, Refused(u) \/ Succeeded(u)
      PROVE  ListsSeen'
  BY <1>4, EndedSeen
<1>5. CASE UNCHANGED categoryPanelVars
  BY <1>5 DEF categoryPanelVars, documents, ListsSeen, Sent
<1>6. QED
  BY <1>1, <1>2, <1>3, <1>4, <1>5 DEF CategoryPanelNext

(* What the endpoint allows of a sort leaves a tree to read. *)
LEMMA AllowedTree ==
  ASSUME CategoryPanelInv, NEW u \in Mutation, NEW call, call = mutation[u],
         call.kind = "sort", Allows(call)
  PROVE  /\ After(call) \in [Node -> Place] /\ DOMAIN call.places \subseteq there
         /\ Tree(Restrict(After(call), there))
<1>1. /\ place \in [Node -> Place] /\ there \subseteq Node /\ call \in MutationCall
      /\ Tree(Restrict(place, there))
  BY DEF CategoryPanelInv, CategoryPanelTypeOK
<1>2. \A n \in DOMAIN call.places : call.places[n] \in Place
  BY <1>1 DEF MutationCall, Places
<1>3. PICK new : new = After(call)
  OBVIOUS
<1>4. new \in [Node -> Place]
  BY <1>1, <1>2, <1>3 DEF After
<1>5. /\ DOMAIN call.places \subseteq there
      /\ \A n \in DOMAIN call.places : call.places[n].up \in there \cup {Top}
      /\ AcyclicTree(Restrict(new, there))
  BY <1>3 DEF Allows
<1>6. PICK old, all : old = Restrict(place, there) /\ all = Restrict(new, there)
  OBVIOUS
<1>7. /\ DOMAIN old = there /\ DOMAIN all = there
      /\ \A n \in there : old[n] = place[n] /\ all[n] = new[n]
  BY <1>6, RestrictAt
<1>8. \A n \in there : all[n].up \in there \cup {Top}
  <2> TAKE n \in there
  <2>1. place[n].up \in there \cup {Top}
    BY <1>1, <1>6, <1>7 DEF Tree
  <2>2. new[n] = IF n \in DOMAIN call.places THEN call.places[n] ELSE place[n]
    BY <1>1, <1>3 DEF After
  <2>3. QED
    BY <2>1, <2>2, <1>5, <1>7
<1>9. all \in Places
  <2>1. all \in [there -> Place]
    BY <1>1, <1>4, <1>6 DEF Restrict
  <2>2. QED
    BY <2>1, <1>1 DEF Places
<1>10. Tree(all)
  BY <1>5, <1>6, <1>7, <1>8, <1>9 DEF Tree
<1>11. QED
  BY <1>3, <1>4, <1>5, <1>6, <1>10

(* The rows that a list and the tree read have in common come out alike. *)
LEMMA ReadAsShown ==
  ASSUME NEW new \in [Node -> Place], there \subseteq Node, Tree(Restrict(new, there)),
         NEW found, NEW list, Ids(list) \subseteq Node,
         ListsAll(list, Restrict(new, Ids(list)))
  PROVE  Of(Rows(Restrict(new, Included(new, found))), Ids(list))
           = Of(list, Included(new, found))
<1>1. PICK K, R : K = Ids(list) /\ R = Included(new, found)
  OBVIOUS
<1>2. R \subseteq there /\ \A n \in R : new[n].up \in R \cup {Top}
  BY <1>1, IncludedClosed
<1>3. PICK shown, read : shown = Restrict(new, K) /\ read = Restrict(new, R)
  OBVIOUS
<1>4. /\ DOMAIN shown = K /\ \A n \in K : shown[n] = new[n]
      /\ DOMAIN read = R /\ \A n \in R : read[n] = new[n]
  BY <1>3, RestrictAt
<1>5. Tree(read)
  BY <1>2, <1>3, PartOfTree
<1>6. shown \in Places
  <2>1. shown \in [K -> Place] /\ K \in SUBSET Node
    BY <1>1, <1>3 DEF Restrict
  <2>2. QED
    BY <2>1 DEF Places
<1>7. read \in Places
  BY <1>5 DEF Tree
<1>8. Tree(shown)
  BY <1>1, <1>3, <1>6, ListIsTree
<1>9. PICK rows : rows = Rows(read)
  OBVIOUS
<1>10. ListsAll(rows, read)
  BY <1>5, <1>9, RowsList
<1>11. ListsAll(Of(rows, K), Restrict(read, R \cap K))
  <2>1. \A n \in R \cap K : read[n].up \in K \cup {Top}
    BY <1>4, <1>8 DEF Tree
  <2>2. QED
    BY <2>1, <1>4, <1>7, <1>10, PartListed
<1>12. ListsAll(Of(list, R), Restrict(shown, K \cap R))
  <2>1. \A n \in K \cap R : shown[n].up \in R \cup {Top}
    BY <1>2, <1>4
  <2>2. ListsAll(list, shown)
    BY <1>1, <1>3
  <2>3. QED
    BY <2>1, <2>2, <1>4, <1>6, PartListed
<1>13. PICK both : both = Restrict(new, K \cap R)
  OBVIOUS
<1>14. both = Restrict(read, R \cap K) /\ both = Restrict(shown, K \cap R)
  <2>1. /\ both = [n \in K \cap R |-> new[n]]
        /\ Restrict(read, R \cap K) = [n \in R \cap K |-> read[n]]
        /\ Restrict(shown, K \cap R) = [n \in K \cap R |-> shown[n]]
    BY <1>13 DEF Restrict
  <2>2. R \cap K = K \cap R /\ \A n \in K \cap R : read[n] = new[n] /\ shown[n] = new[n]
    BY <1>4
  <2>3. QED
    BY <2>1, <2>2
<1>15. both \in Places
  <2>1. both \in [K \cap R -> Place] /\ K \cap R \in SUBSET Node
    BY <1>1, <1>13 DEF Restrict
  <2>2. QED
    BY <2>1 DEF Places
<1>16. Of(rows, K) = Rows(both) /\ Of(list, R) = Rows(both)
  BY <1>11, <1>12, <1>14, <1>15, ListedIsRows
<1>17. QED
  BY <1>1, <1>3, <1>9, <1>16

(* What the invariant says of the property. *)
LEMMA LandsAsShown == CategoryPanelInv /\ ListsSeen => DropsLandAsShown
<1> SUFFICES ASSUME CategoryPanelInv, ListsSeen, NEW u \in Mutation
             PROVE  LET call == mutation[u] IN
                    /\ call.fresh /\ call.kind # "archive" => Allows(call)
                    /\ call.fresh /\ call.kind = "sort" => Read(call) \subseteq Shown(call)
                    /\ call.kind = "sort" /\ Allows(call)
                         /\ (call.fresh \/ DOMAIN call.places = Shown(call))
                       => Of(Rows(Restrict(After(call), Read(call))), Shown(call))
                            = Of(call.list, Read(call))
  BY DEF DropsLandAsShown
<1>1. PICK call : call = mutation[u]
  OBVIOUS
<1>2. call.fresh /\ call.kind # "archive" => Lands(call)
  BY <1>1 DEF CategoryPanelInv, CallsLand
<1>3. Sent(call)
  BY <1>1 DEF ListsSeen
<1>4. Shown(call) = Ids(call.list)
  BY DEF Shown, Ids, Range
<1>5. PICK new, K, R : new = After(call) /\ K = Ids(call.list) /\ R = Read(call)
  OBVIOUS
<1>6. R = Included(new, matches[call.by])
  BY <1>5 DEF Read
<1>7. there \subseteq Node
  BY DEF CategoryPanelInv, CategoryPanelTypeOK
<1>8. ASSUME call.kind = "sort", Allows(call)
      PROVE  new \in [Node -> Place] /\ DOMAIN call.places \subseteq there
             /\ Tree(Restrict(new, there)) /\ K \subseteq Node
  <2>1. WellNested(call.list)
    BY <1>3, <1>8 DEF Sent
  <2>2. K \subseteq Node
    BY <2>1, <1>5, RowFields DEF WellNested, Ids
  <2>3. QED
    BY <2>2, <1>1, <1>5, <1>8, AllowedTree
<1>9. ASSUME call.kind = "sort", Allows(call), call.fresh \/ DOMAIN call.places = K
      PROVE  ListsAll(call.list, Restrict(new, K))
  <2>1. CASE call.fresh
    BY <2>1, <1>2, <1>5, <1>9 DEF Lands
  <2>2. CASE DOMAIN call.places = K
    <3>1. PICK sent : sent = call.places
      OBVIOUS
    <3>2. ListsAll(call.list, sent)
      BY <3>1, <2>2, <1>3, <1>5, <1>9 DEF Sent
    <3>3. call \in MutationCall
      BY <1>1 DEF CategoryPanelInv, CategoryPanelTypeOK
    <3>4. sent = [n \in K |-> sent[n]]
      BY <3>1, <3>3, <2>2 DEF MutationCall, Places
    <3>5. \A n \in K : new[n] = sent[n]
      BY <3>1, <2>2, <1>5, <1>8, <1>9 DEF After
    <3>6. Restrict(new, K) = sent
      BY <3>4, <3>5 DEF Restrict
    <3>7. QED
      BY <3>2, <3>6
  <2>3. QED
    BY <2>1, <2>2, <1>9
<1>10. ASSUME call.kind = "sort", Allows(call), call.fresh \/ DOMAIN call.places = K
       PROVE  Of(Rows(Restrict(new, R)), K) = Of(call.list, R)
  BY <1>5, <1>6, <1>7, <1>8, <1>9, <1>10, ReadAsShown
<1>11. ASSUME call.fresh, call.kind = "sort"
       PROVE  R \subseteq K
  <2>1. Allows(call) /\ ListsAll(call.list, Restrict(new, K))
    BY <1>2, <1>5, <1>11 DEF Lands
  <2>2. matches[call.by] \cap there \subseteq K
    BY <1>3, <1>5, <1>11 DEF Sent
  <2>3. PICK shown : shown = Restrict(new, K)
    OBVIOUS
  <2>4. /\ new \in [Node -> Place] /\ K \subseteq Node /\ Tree(Restrict(new, there))
    BY <2>1, <1>8, <1>11
  <2>5. DOMAIN shown = K /\ \A n \in K : shown[n] = new[n]
    BY <2>3, RestrictAt
  <2>6. shown \in Places
    <3>1. shown \in [K -> Place]
      BY <2>3, <2>4 DEF Restrict
    <3>2. QED
      BY <3>1, <2>4 DEF Places
  <2>7. Tree(shown)
    BY <2>1, <2>3, <2>6, ListIsTree
  <2>8. \A n \in K : new[n].up \in K \cup {Top}
    BY <2>5, <2>7 DEF Tree
  <2>9. PICK S : S = K \cap there
    OBVIOUS
  <2>10. \A n \in there : new[n].up \in there \cup {Top}
    <3>1. PICK all : all = Restrict(new, there)
      OBVIOUS
    <3>2. DOMAIN all = there /\ \A n \in there : all[n] = new[n]
      BY <3>1, RestrictAt
    <3>3. QED
      BY <3>1, <3>2, <2>4 DEF Tree
  <2>11. \A n \in S : new[n].up \in S \cup {Top}
    BY <2>8, <2>9, <2>10
  <2>12. S \in SUBSET there /\ matches[call.by] \cap there \subseteq S
    BY <2>2, <2>9
  <2>13. R \subseteq S
    BY <2>11, <2>12, <1>6 DEF Included
  <2>14. QED
    BY <2>9, <2>13
<1>12. call.fresh /\ call.kind # "archive" => Allows(call)
  BY <1>2 DEF Lands
<1>13. call.fresh /\ call.kind = "sort" => Read(call) \subseteq Shown(call)
  BY <1>4, <1>5, <1>11
<1>14. call.kind = "sort" /\ Allows(call) /\ (call.fresh \/ DOMAIN call.places = Shown(call))
       => Of(Rows(Restrict(After(call), Read(call))), Shown(call)) = Of(call.list, Read(call))
  BY <1>4, <1>5, <1>10
<1>15. QED
  BY <1>1, <1>12, <1>13, <1>14

(* Type correctness of the documents, of what each panel shows and of the calls
   in flight (category-tree.tsx, use-admin-categories.ts, category.service.js). *)
THEOREM CategoryPanelTyped ==
  CategoryPanelSpec => []CategoryPanelTypeOK
<1>1. CategoryPanelInv => CategoryPanelTypeOK
  BY DEF CategoryPanelInv
<1>2. QED
  BY <1>1, PanelStarts, PanelSteps, PTL DEF CategoryPanelSpec

(* However many rows there are: on a list that is up to date no call but one to
   archive is refused, and what the panel reads after a drop or an arrow, under its
   search, is the list it had shown, less the rows the search no longer reaches; a
   drop on a list that is out of date is refused, or the categories it had shown
   come out as it had shown them (category-tree.tsx, applyProjection and
   sortEntries; category.service.js, sort and filterGrouped). *)
THEOREM DropsLand ==
  CategoryPanelSpec => []DropsLandAsShown
BY LandsAsShown, PanelStarts, PanelSteps, SeenStarts, SeenSteps, PTL
   DEF CategoryPanelSpec

===============================================================================
