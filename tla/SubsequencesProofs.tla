--------------------------- MODULE SubsequencesProofs --------------------------
(***************************************************************************)
(* What picking positions from a sequence preserves and bounds.  Counting  *)
(* arguments are by the least counterexample, a set of naturals, since an  *)
(* induction theorem cannot be given a predicate here.                     *)
(***************************************************************************)
EXTENDS Subsequences, FiniteSetTheorems, WellFoundedInduction, TLAPS

(* A set of naturals that is not empty has a least element. *)
LEMMA LeastNatural ==
  ASSUME NEW T, T \subseteq Nat, T # {}
  PROVE  \E x \in T : \A y \in T : x <= y
<1> DEFINE Less == {ss \in Nat \X Nat : ss[1] < ss[2]}
<1>1. IsWellFoundedOn(Less, Nat)
  BY NatLessThanWellFounded DEF OpToRel
<1>2. PICK x \in T : \A y \in T : <<y, x>> \notin Less
  <2> HIDE DEF Less
  <2>1. QED  BY <1>1, WFMin
<1>3. \A y \in T : ~(y < x)
  BY <1>2
<1>4. QED
  BY <1>2, <1>3

(* A set of positions that is not empty has a greatest element. *)
LEMMA GreatestPosition ==
  ASSUME NEW len \in Nat, NEW P, P \subseteq 1..len, P # {}
  PROVE  \E i \in P : \A j \in P : j <= i
<1> DEFINE T == {n \in Nat : \A j \in P : j <= n}
<1>1. P \subseteq Nat \ {0}
  OBVIOUS
<1>2. len \in T
  OBVIOUS
<1>3. PICK m \in T : \A n \in T : m <= n
  BY <1>2, LeastNatural
<1>4. m \in Nat \ {0} /\ \A j \in P : j <= m
  <2>1. PICK i \in P : i \in Nat \ {0}
    BY <1>1
  <2>2. m \in Nat /\ \A j \in P : j <= m
    BY <1>3
  <2>3. i <= m
    BY <2>2
  <2>4. QED
    BY <2>1, <2>2, <2>3
<1>5. m - 1 \notin T
  BY <1>3, <1>4
<1>6. PICK j \in P : ~(j <= m - 1)
  BY <1>4, <1>5
<1>7. j = m
  BY <1>1, <1>4, <1>6
<1>8. QED
  BY <1>4, <1>7

(* How many elements of P are at most m grows by at most one from m - 1 to *)
(* m, and only when m is in P.                                             *)
LEMMA CountStep ==
  ASSUME NEW P, P \subseteq Nat, NEW m \in Nat \ {0}, IsFiniteSet(P)
  PROVE  /\ Cardinality(UpTo(P, m - 1)) \in Nat
         /\ Cardinality(UpTo(P, m)) =
              IF m \in P THEN Cardinality(UpTo(P, m - 1)) + 1
                         ELSE Cardinality(UpTo(P, m - 1))
<1>1. IsFiniteSet(UpTo(P, m - 1))
  BY FS_Subset DEF UpTo
<1>2. Cardinality(UpTo(P, m - 1)) \in Nat
  BY <1>1, FS_CardinalityType
<1>3. CASE m \in P
  <2>1. (\A j \in P : j <= m <=> j <= m - 1 \/ j = m) /\ ~(m <= m - 1)
    OBVIOUS
  <2>2. UpTo(P, m) = UpTo(P, m - 1) \cup {m} /\ m \notin UpTo(P, m - 1)
    BY <1>3, <2>1 DEF UpTo
  <2>3. Cardinality(UpTo(P, m - 1) \cup {m}) = Cardinality(UpTo(P, m - 1)) + 1
    BY <1>1, <2>2, FS_AddElement
  <2>4. QED
    BY <1>2, <1>3, <2>2, <2>3
<1>4. CASE m \notin P
  <2>1. \A j \in P : j <= m <=> j <= m - 1
    BY <1>4
  <2>2. UpTo(P, m) = UpTo(P, m - 1)
    BY <2>1 DEF UpTo
  <2>3. QED
    BY <1>2, <1>4, <2>2
<1>5. QED
  BY <1>3, <1>4

(* A set of positions has an nth element, and different ones for different *)
(* n.                                                                      *)
LEMMA NthPosition ==
  ASSUME NEW len \in Nat, NEW P, P \subseteq 1..len
  PROVE  /\ IsFiniteSet(P) /\ Cardinality(P) \in 0..len
         /\ \A n \in 1..Cardinality(P) :
              Nth(P, n) \in P /\ Cardinality(UpTo(P, Nth(P, n))) = n
<1>1. IsFiniteSet(1..len) /\ Cardinality(1..len) = len
  BY FS_Interval
<1>2. IsFiniteSet(P) /\ Cardinality(P) \in Nat /\ Cardinality(P) <= len
  BY <1>1, FS_Subset, FS_CardinalityType
<1>3. P \subseteq Nat /\ \A j \in P : j <= len /\ ~(j <= 0)
  OBVIOUS
<1>4. UpTo(P, len) = P /\ UpTo(P, 0) = {}
  BY <1>3 DEF UpTo
<1>5. ASSUME NEW n \in 1..Cardinality(P)
      PROVE  \E i \in P : Cardinality(UpTo(P, i)) = n
  <2> DEFINE T == {m \in Nat : Cardinality(UpTo(P, m)) >= n}
  <2>1. len \in T
    BY <1>4
  <2>2. PICK m \in T : \A y \in T : m <= y
    BY <2>1, LeastNatural
  <2>3. m \in Nat \ {0}
    BY <1>4, <2>2, FS_EmptySet
  <2>4. /\ Cardinality(UpTo(P, m - 1)) \in Nat
        /\ Cardinality(UpTo(P, m)) =
             IF m \in P THEN Cardinality(UpTo(P, m - 1)) + 1
                        ELSE Cardinality(UpTo(P, m - 1))
    BY <1>2, <1>3, <2>3, CountStep
  <2>5. m - 1 \in Nat /\ m - 1 \notin T
    BY <2>2, <2>3
  <2>6. ~(Cardinality(UpTo(P, m - 1)) >= n)
    BY <2>5
  <2>7. m \in P /\ Cardinality(UpTo(P, m)) = n
    BY <2>2, <2>4, <2>6
  <2>8. QED
    BY <2>7
<1>6. \A n \in 1..Cardinality(P) :
        Nth(P, n) \in P /\ Cardinality(UpTo(P, Nth(P, n))) = n
  BY <1>5 DEF Nth
<1>7. QED
  BY <1>2, <1>6

(* What is picked from a sequence is a sequence of its elements, no longer *)
(* than it, and takes no position twice.                                   *)
LEMMA PickedIsSubsequence ==
  ASSUME NEW S, NEW s \in Seq(S), NEW P, P \subseteq DOMAIN s
  PROVE  /\ Picked(s, P) \in Seq(S)
         /\ Len(Picked(s, P)) = Cardinality(P)
         /\ Len(Picked(s, P)) <= Len(s)
         /\ \A n \in DOMAIN Picked(s, P) :
              Nth(P, n) \in P /\ Picked(s, P)[n] = s[Nth(P, n)]
         /\ \A m, n \in DOMAIN Picked(s, P) : Nth(P, m) = Nth(P, n) => m = n
<1> DEFINE size == Cardinality(P)
<1>1. /\ Len(s) \in Nat /\ P \subseteq 1..Len(s)
      /\ \A i \in P : s[i] \in S
  OBVIOUS
<1>2. /\ size \in 0..Len(s)
      /\ \A n \in 1..size :
           Nth(P, n) \in P /\ Cardinality(UpTo(P, Nth(P, n))) = n
  BY <1>1, NthPosition
<1>3. \A n \in 1..size : s[Nth(P, n)] \in S
  BY <1>1, <1>2
<1>4. \A m, n \in 1..size : Nth(P, m) = Nth(P, n) => m = n
  BY <1>2
<1>5. Picked(s, P) = [n \in 1..size |-> s[Nth(P, n)]]
  BY DEF Picked
<1> HIDE DEF size
<1>6. size \in Nat /\ size <= Len(s)
  BY <1>1, <1>2
<1>7. /\ Picked(s, P) \in Seq(S)
      /\ Len(Picked(s, P)) = size
      /\ DOMAIN Picked(s, P) = 1..size
  BY <1>3, <1>5, <1>6
<1>8. \A n \in 1..size : Picked(s, P)[n] = s[Nth(P, n)]
  BY <1>5
<1>9. QED
  BY <1>2, <1>4, <1>6, <1>7, <1>8 DEF size

(* Positions are picked in their order, and each of them is.               *)
LEMMA PickedInOrder ==
  ASSUME NEW len \in Nat, NEW P, P \subseteq 1..len
  PROVE  /\ \A m, n \in 1..Cardinality(P) : m < n => Nth(P, m) < Nth(P, n)
         /\ \A i \in P : \E n \in 1..Cardinality(P) : Nth(P, n) = i
<1>1. /\ IsFiniteSet(P) /\ Cardinality(P) \in Nat
      /\ \A n \in 1..Cardinality(P) :
           Nth(P, n) \in P /\ Cardinality(UpTo(P, Nth(P, n))) = n
  <2>1. /\ IsFiniteSet(P) /\ Cardinality(P) \in 0..len
        /\ \A n \in 1..Cardinality(P) :
             Nth(P, n) \in P /\ Cardinality(UpTo(P, Nth(P, n))) = n
    BY NthPosition
  <2>2. \A c \in 0..len : c \in Nat
    OBVIOUS
  <2>3. QED
    BY <2>1, <2>2
<1>2. P \subseteq Nat
  OBVIOUS
<1>3. \A i \in P :
        /\ UpTo(P, i) \subseteq P /\ IsFiniteSet(UpTo(P, i))
        /\ Cardinality(UpTo(P, i)) \in Nat
        /\ Cardinality(UpTo(P, i)) <= Cardinality(P)
  BY <1>1, FS_Subset, FS_CardinalityType DEF UpTo
<1>4. ASSUME NEW i \in P, NEW j \in P, i <= j
      PROVE  Cardinality(UpTo(P, i)) <= Cardinality(UpTo(P, j))
  <2>1. UpTo(P, i) \subseteq UpTo(P, j)
    <3>1. \A k \in P : k <= i => k <= j
      BY <1>2, <1>4
    <3>2. QED
      BY <3>1 DEF UpTo
  <2>2. QED
    BY <2>1, <1>3, FS_Subset
<1>5. ASSUME NEW i \in P, NEW j \in P, i < j
      PROVE  Cardinality(UpTo(P, i)) < Cardinality(UpTo(P, j))
  <2>1. j \in UpTo(P, j) /\ j \notin UpTo(P, i)
    BY <1>2, <1>5 DEF UpTo
  <2>2. UpTo(P, i) \subseteq UpTo(P, j) \ {j}
    <3>1. \A k \in P : k <= i => k <= j /\ k # j
      BY <1>2, <1>5
    <3>2. QED
      BY <3>1 DEF UpTo
  <2>3. /\ IsFiniteSet(UpTo(P, j) \ {j})
        /\ Cardinality(UpTo(P, j) \ {j}) = Cardinality(UpTo(P, j)) - 1
    BY <2>1, <1>3, FS_RemoveElement
  <2>4. Cardinality(UpTo(P, i)) <= Cardinality(UpTo(P, j) \ {j})
    BY <2>2, <2>3, FS_Subset
  <2>5. QED
    BY <2>3, <2>4, <1>3
<1>6. ASSUME NEW m \in 1..Cardinality(P), NEW n \in 1..Cardinality(P), m < n
      PROVE  Nth(P, m) < Nth(P, n)
  <2>1. PICK i \in P, j \in P : i = Nth(P, m) /\ j = Nth(P, n)
    BY <1>1
  <2>2. Cardinality(UpTo(P, i)) = m /\ Cardinality(UpTo(P, j)) = n
    BY <2>1, <1>1
  <2>3. ~(j <= i)
    BY <2>2, <1>4, <1>6
  <2>4. QED
    BY <2>1, <2>3, <1>2
<1>7. ASSUME NEW i \in P
      PROVE  \E n \in 1..Cardinality(P) : Nth(P, n) = i
  <2>1. PICK n : n = Cardinality(UpTo(P, i))
    OBVIOUS
  <2>2. i \in UpTo(P, i)
    BY <1>2 DEF UpTo
  <2>3. n # 0
    BY <2>1, <2>2, <1>3, FS_EmptySet
  <2>4. n \in 1..Cardinality(P)
    BY <2>1, <2>3, <1>1, <1>3
  <2>5. PICK j \in P : j = Nth(P, n) /\ Cardinality(UpTo(P, j)) = n
    BY <2>4, <1>1
  <2>6. ~(i < j) /\ ~(j < i)
    BY <2>1, <2>5, <1>3, <1>5
  <2>7. j = i
    BY <2>6, <1>2
  <2>8. QED
    BY <2>4, <2>5, <2>7
<1>8. QED
  BY <1>6, <1>7
===============================================================================
