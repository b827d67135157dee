--------------------------- MODULE StockLedgerProofs ---------------------------
(***************************************************************************)
(* The stock ledger keeps its types, conserves units and never oversells,  *)
(* for any set of SKUs, any finite set of claims and any quantities.       *)
(***************************************************************************)
EXTENDS StockLedger, FiniteSetTheorems, TLAPS

(* The units that a claim holding n of something contributes. *)
UnitsOf(c, n) == {c} \X (1..n)

(* A claim of n units is n elements. *)
LEMMA UnitsOfCardinality ==
  ASSUME NEW c, NEW n \in Nat
  PROVE  /\ IsFiniteSet(UnitsOf(c, n))
         /\ Cardinality(UnitsOf(c, n)) = n
<1>1. IsFiniteSet({c}) /\ Cardinality({c}) = 1
  BY FS_Singleton
<1>2. IsFiniteSet(1..n) /\ Cardinality(1..n) = n
  BY FS_Interval
<1>3. /\ IsFiniteSet({c} \X (1..n))
      /\ Cardinality({c} \X (1..n)) = Cardinality({c}) * Cardinality(1..n)
  BY <1>1, <1>2, FS_Product
<1>4. QED
  BY <1>1, <1>2, <1>3 DEF UnitsOf

(* Finitely many claims of bounded size hold finitely many units. *)
LEMMA HeldUnitsFinite ==
  ASSUME LedgerConstants, NEW s \in Sku
  PROVE  IsFiniteSet(HeldUnits(s))
<1>1. IsFiniteSet(1..MaxQuantity)
  BY FS_Interval DEF LedgerConstants
<1>2. IsFiniteSet(Claim \X (1..MaxQuantity))
  BY <1>1, FS_Product DEF LedgerConstants
<1>3. HeldUnits(s) \subseteq Claim \X (1..MaxQuantity)
  BY DEF HeldUnits
<1>4. QED
  BY <1>2, <1>3, FS_Subset

-----------------------------------------------------------------------------

(* Counts stay integers and claims stay within MaxQuantity. *)
THEOREM LedgerTypes ==
  ASSUME LedgerConstants
  PROVE  Spec => []TypeOK
<1>1. Init => TypeOK
  BY DEF LedgerConstants, Init, TypeOK, Quantity
<1>2. TypeOK /\ [Next]_vars => TypeOK'
  <2> SUFFICES ASSUME TypeOK, [Next]_vars PROVE TypeOK'
    OBVIOUS
  <2>1. ASSUME NEW c \in Claim, NEW s \in Sku, NEW n \in 1..MaxQuantity,
               Take(c, s, n)
        PROVE  TypeOK'
    BY <2>1 DEF TypeOK, Take, Quantity, LedgerConstants
  <2>2. ASSUME NEW c \in Claim, NEW s \in Sku, PutBack(c, s)
        PROVE  TypeOK'
    <3>1. held[c][s] \in Int
      BY DEF TypeOK, Quantity
    <3>2. QED
      BY <2>2, <3>1 DEF TypeOK, PutBack, Quantity, LedgerConstants
  <2>3. CASE UNCHANGED vars
    BY <2>3 DEF vars, TypeOK
  <2>4. QED
    BY <2>1, <2>2, <2>3 DEF Next
<1>3. QED
  BY <1>1, <1>2, PTL DEF Spec

(* Taking n units of s for a claim that holds none adds its n units to the *)
(* held ones and leaves the other SKUs alone.                              *)
LEMMA TakeHeld ==
  ASSUME LedgerConstants, TypeOK,
         NEW c \in Claim, NEW s \in Sku, NEW n \in 1..MaxQuantity,
         Take(c, s, n)
  PROVE  /\ HeldUnits(s)' = HeldUnits(s) \cup UnitsOf(c, n)
         /\ HeldUnits(s) \cap UnitsOf(c, n) = {}
         /\ \A x \in Sku \ {s} : HeldUnits(x)' = HeldUnits(x)
<1>1. held'[c][s] = n
  BY DEF Take, TypeOK
<1>2. \A d \in Claim \ {c}, x \in Sku : held'[d][x] = held[d][x]
  BY DEF Take, TypeOK
<1>3. \A x \in Sku \ {s} : held'[c][x] = held[c][x]
  BY DEF Take, TypeOK
<1>4. held[c][s] = 0
  BY DEF Take
<1>5. HeldUnits(s)' = HeldUnits(s) \cup UnitsOf(c, n)
  BY <1>1, <1>2, <1>4 DEF HeldUnits, UnitsOf, LedgerConstants
<1>6. HeldUnits(s) \cap UnitsOf(c, n) = {}
  BY <1>4 DEF HeldUnits, UnitsOf
<1>7. \A x \in Sku \ {s} : HeldUnits(x)' = HeldUnits(x)
  BY <1>2, <1>3 DEF HeldUnits
<1>8. QED
  BY <1>5, <1>6, <1>7

(* Putting a claim back removes exactly its units from the held ones. *)
LEMMA PutBackHeld ==
  ASSUME LedgerConstants, TypeOK,
         NEW c \in Claim, NEW s \in Sku, PutBack(c, s)
  PROVE  /\ HeldUnits(s)' = HeldUnits(s) \ UnitsOf(c, held[c][s])
         /\ UnitsOf(c, held[c][s]) \subseteq HeldUnits(s)
         /\ \A x \in Sku \ {s} : HeldUnits(x)' = HeldUnits(x)
<1>1. held'[c][s] = 0
  BY DEF PutBack, TypeOK
<1>2. \A d \in Claim \ {c}, x \in Sku : held'[d][x] = held[d][x]
  BY DEF PutBack, TypeOK
<1>3. \A x \in Sku \ {s} : held'[c][x] = held[c][x]
  BY DEF PutBack, TypeOK
<1>4. held[c][s] \in 0..MaxQuantity
  BY DEF TypeOK, Quantity
<1>5. HeldUnits(s)' = HeldUnits(s) \ UnitsOf(c, held[c][s])
  BY <1>1, <1>2, <1>4 DEF HeldUnits, UnitsOf, LedgerConstants
<1>6. UnitsOf(c, held[c][s]) \subseteq HeldUnits(s)
  BY <1>4 DEF HeldUnits, UnitsOf, LedgerConstants
<1>7. \A x \in Sku \ {s} : HeldUnits(x)' = HeldUnits(x)
  BY <1>2, <1>3 DEF HeldUnits
<1>8. QED
  BY <1>5, <1>6, <1>7

-----------------------------------------------------------------------------

(* The count of every SKU and the units held by claims always add up to    *)
(* the initial stock.                                                      *)
THEOREM LedgerConserves ==
  ASSUME LedgerConstants
  PROVE  Spec => []Conservation
<1>1. Init => Conservation
  <2> SUFFICES ASSUME Init, NEW s \in Sku
               PROVE  shelf[s] + Cardinality(HeldUnits(s)) = InitialStock[s]
    BY DEF Conservation
  <2>1. HeldUnits(s) = {}
    BY DEF Init, HeldUnits
  <2>2. shelf[s] = InitialStock[s] /\ InitialStock[s] \in Nat
    BY DEF Init, LedgerConstants
  <2>3. QED
    BY <2>1, <2>2, FS_EmptySet
<1>2. TypeOK /\ Conservation /\ [Next]_vars => Conservation'
  <2> SUFFICES ASSUME TypeOK, Conservation, [Next]_vars
               PROVE  Conservation'
    OBVIOUS
  <2>1. ASSUME NEW c \in Claim, NEW s \in Sku, NEW n \in 1..MaxQuantity,
               Take(c, s, n)
        PROVE  Conservation'
    <3>1. Cardinality(HeldUnits(s)') = Cardinality(HeldUnits(s)) + n
      <4>1. IsFiniteSet(HeldUnits(s)) /\ IsFiniteSet(UnitsOf(c, n))
        BY HeldUnitsFinite, UnitsOfCardinality
      <4>2. Cardinality(UnitsOf(c, n)) = n
        BY UnitsOfCardinality
      <4>3. Cardinality(HeldUnits(s) \cap UnitsOf(c, n)) = 0
        BY <2>1, TakeHeld, FS_EmptySet
      <4>4. Cardinality(HeldUnits(s)) \in Nat
        BY <4>1, FS_CardinalityType
      <4>5. QED
        BY <2>1, <4>1, <4>2, <4>3, <4>4, TakeHeld, FS_Union
    <3>2. shelf'[s] = shelf[s] - n /\ shelf[s] \in Int
      BY <2>1 DEF Take, TypeOK
    <3>3. \A x \in Sku \ {s} : shelf'[x] = shelf[x] /\ HeldUnits(x)' = HeldUnits(x)
      BY <2>1, TakeHeld DEF Take, TypeOK
    <3>4. Cardinality(HeldUnits(s)) \in Nat
      BY HeldUnitsFinite, FS_CardinalityType
    <3>5. shelf'[s] + Cardinality(HeldUnits(s)') = InitialStock[s]
      BY <3>1, <3>2, <3>4 DEF Conservation
    <3>6. QED
      BY <3>3, <3>5 DEF Conservation
  <2>2. ASSUME NEW c \in Claim, NEW s \in Sku, PutBack(c, s)
        PROVE  Conservation'
    <3> DEFINE q == held[c][s]
    <3>1. q \in Nat
      BY DEF TypeOK, Quantity
    <3>2. Cardinality(HeldUnits(s)') = Cardinality(HeldUnits(s)) - q
      <4>1. IsFiniteSet(HeldUnits(s))
        BY HeldUnitsFinite
      <4>2. HeldUnits(s) \cap UnitsOf(c, q) = UnitsOf(c, q)
        BY <2>2, PutBackHeld
      <4>3. Cardinality(UnitsOf(c, q)) = q
        BY <3>1, UnitsOfCardinality
      <4>4. HeldUnits(s)' = HeldUnits(s) \ UnitsOf(c, q)
        BY <2>2, PutBackHeld
      <4>5. Cardinality(HeldUnits(s) \ UnitsOf(c, q))
              = Cardinality(HeldUnits(s)) - Cardinality(HeldUnits(s) \cap UnitsOf(c, q))
        BY <4>1, FS_Difference
      <4>6. QED
        BY <4>2, <4>3, <4>4, <4>5
    <3>3. shelf'[s] = shelf[s] + q /\ shelf[s] \in Int
      BY <2>2 DEF PutBack, TypeOK
    <3>4. \A x \in Sku \ {s} : shelf'[x] = shelf[x] /\ HeldUnits(x)' = HeldUnits(x)
      BY <2>2, PutBackHeld DEF PutBack, TypeOK
    <3>5. Cardinality(HeldUnits(s)) \in Nat
      BY HeldUnitsFinite, FS_CardinalityType
    <3>6. shelf'[s] + Cardinality(HeldUnits(s)') = InitialStock[s]
      BY <3>1, <3>2, <3>3, <3>5 DEF Conservation
    <3>7. QED
      BY <3>4, <3>6 DEF Conservation
  <2>3. CASE UNCHANGED vars
    BY <2>3 DEF vars, Conservation, HeldUnits
  <2>4. QED
    BY <2>1, <2>2, <2>3 DEF Next
<1>3. QED
  BY <1>1, <1>2, LedgerTypes, PTL DEF Spec

(* A SKU that never accepts backorders is never sold below zero. *)
THEOREM LedgerNeverOversells ==
  ASSUME LedgerConstants
  PROVE  Spec => []NoOversell
<1>1. Init => NoOversell
  BY DEF LedgerConstants, Init, NoOversell
<1>2. TypeOK /\ NoOversell /\ [Next]_vars => NoOversell'
  <2> SUFFICES ASSUME TypeOK, NoOversell, [Next]_vars PROVE NoOversell'
    OBVIOUS
  <2>1. ASSUME NEW c \in Claim, NEW s \in Sku, NEW n \in 1..MaxQuantity,
               Take(c, s, n)
        PROVE  NoOversell'
    BY <2>1 DEF TypeOK, NoOversell, Take
  <2>2. ASSUME NEW c \in Claim, NEW s \in Sku, PutBack(c, s)
        PROVE  NoOversell'
    <3>1. held[c][s] \in Nat
      BY DEF TypeOK, Quantity
    <3>2. QED
      BY <2>2, <3>1 DEF TypeOK, NoOversell, PutBack
  <2>3. CASE UNCHANGED vars
    BY <2>3 DEF vars, NoOversell
  <2>4. QED
    BY <2>1, <2>2, <2>3 DEF Next
<1>3. QED
  BY <1>1, <1>2, LedgerTypes, PTL DEF Spec

=============================================================================
