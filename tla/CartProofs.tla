------------------------------ MODULE CartProofs ------------------------------
(***************************************************************************)
(* Proofs about module Cart, for any number of calls, SKUs and lines.      *)
(***************************************************************************)
EXTENDS Cart, SubsequencesProofs

-------------------------------------------------------------------------------
(* What holds of the cart and of each call. *)

(* No two lines of an array name one SKU. *)
Distinct(lines) ==
  \A i, j \in DOMAIN lines :
    lines[i].id.sku = lines[j].id.sku /\ lines[i].id.sku # NoSku => i = j

(* addItems goes on only with SKUs that are to be had. *)
CeilingSound(c) ==
  form[c].op = "add" /\ pc[c] \in {"open", "save"} =>
    \A s \in Sku : form[c].quantity[s] > 0 => ceiling[c][s] > 0

Writes(c) == pc[c] \in {"open", "limits", "save"}

Opened(c) == pc[c] \in {"limits", "save"}

(* What a call read was a whole cart, with room for what it adds. *)
CopySound(c) ==
  Opened(c) =>
    /\ copy[c] \in Seq(Line) /\ Distinct(copy[c])
    /\ Len(copy[c]) <= MaxLines
    /\ form[c].op = "add" => Len(copy[c]) + Len(Added(c, copy[c])) <= MaxLines

(* While the version stands, the cart can only have shrunk since a call    *)
(* read it, and it has not changed at all if nothing overtook the call.    *)
CopyCurrent(c) ==
  Opened(c) =>
    /\ copyVersion[c] <= version
    /\ copyVersion[c] = version =>
         /\ Skus(items) \subseteq Skus(copy[c])
         /\ Len(items) <= Len(copy[c])
         /\ ~overtaken[c] => items = copy[c]

(* Every attempt that was lost was lost to a version of its own. *)
AttemptsCounted(c) ==
  /\ Writes(c) => form[c].op \in {"add", "update"}
  /\ pc[c] = "limits" => form[c].op = "update"
  /\ pc[c] = "check" => attempt[c] = 0
  /\ pc[c] = "open" => attempt[c] < MaxAttempts /\ attempt[c] <= version
  /\ Opened(c) => attempt[c] <= copyVersion[c] + 1
  /\ outcome[c] # "none" => pc[c] = "done"
  /\ outcome[c] = "conflict" => version >= MaxAttempts

CallInv(c) ==
  CeilingSound(c) /\ CopySound(c) /\ CopyCurrent(c) /\ AttemptsCounted(c)

CartInv ==
  /\ TypeOK
  /\ LinesDistinct /\ CartWithinLimit
  /\ \A c \in Call : CallInv(c)

-----------------------------------------------------------------------------
(* What a call makes of lines.                                             *)

(* What the validator and groupRequested leave of a body. *)
LEMMA FormFacts ==
  ASSUME NEW f \in Form
  PROVE  /\ f.op \in {"add", "update", "remove", "clear", "ordered"}
         /\ f.op = "add" =>
              /\ f.skus \in Seq(Sku) /\ f.quantity \in [Sku -> Nat]
              /\ \A i, j \in DOMAIN f.skus : f.skus[i] = f.skus[j] => i = j
              /\ \A i \in DOMAIN f.skus : f.quantity[f.skus[i]] > 0
              /\ \A s \in Sku : f.quantity[s] > 0 =>
                   \E i \in DOMAIN f.skus : f.skus[i] = s
         /\ f.op = "update" =>
              f.ids \subseteq Id /\ f.quantity \in [Id -> 0..MaxPerLine]
<1>1. f \in Body
  BY CartAssumption
<1>2. /\ f.op \in {"add", "update", "remove", "clear", "ordered"}
      /\ f.op = "add" => f.skus \in Seq(Sku) /\ f.quantity \in [Sku -> Nat]
      /\ f.op = "update" =>
           f.ids \subseteq Id /\ f.quantity \in [Id -> 0..MaxPerLine]
  BY <1>1 DEF Body
<1>3. f.op = "add" =>
        /\ \A i, j \in DOMAIN f.skus : f.skus[i] = f.skus[j] => i = j
        /\ \A s \in Sku : f.quantity[s] > 0 <=> \E i \in DOMAIN f.skus : f.skus[i] = s
  BY CartAssumption
<1>4. f.op = "add" => \A i \in DOMAIN f.skus : f.skus[i] \in Sku
  BY <1>2
<1>5. QED
  BY <1>2, <1>3, <1>4

(* The pushed lines are lines, of different SKUs that are not there yet. *)
LEMMA AddedLines ==
  ASSUME NEW c \in Call, TypeOK, form[c].op = "add",
         \A s \in Sku : form[c].quantity[s] > 0 => ceiling[c][s] > 0,
         NEW lines
  PROVE  /\ Added(c, lines) \in Seq(Line)
         /\ \A i \in DOMAIN Added(c, lines) :
              Added(c, lines)[i].id.sku \notin Skus(lines)
         /\ \A i, j \in DOMAIN Added(c, lines) :
              Added(c, lines)[i].id.sku = Added(c, lines)[j].id.sku => i = j
<1> DEFINE skus == form[c].skus
           P == {i \in DOMAIN skus : skus[i] \notin Skus(lines)}
           new == Picked(skus, P)
           line(s) == [id |-> [by |-> c, sku |-> s],
                       quantity |-> AtMost(form[c].quantity[s], ceiling[c][s])]
<1>1. form[c] \in Form /\ ceiling[c] \in Limits
  BY DEF TypeOK
<1>2. /\ skus \in Seq(Sku) /\ form[c].quantity \in [Sku -> Nat]
      /\ \A i, j \in DOMAIN skus : skus[i] = skus[j] => i = j
      /\ \A i \in DOMAIN skus : skus[i] \in Sku /\ form[c].quantity[skus[i]] > 0
  BY <1>1, FormFacts
<1>3. /\ new \in Seq(Sku)
      /\ \A n \in DOMAIN new : Nth(P, n) \in P /\ new[n] = skus[Nth(P, n)]
      /\ \A m, n \in DOMAIN new : Nth(P, m) = Nth(P, n) => m = n
  <2> HIDE DEF skus
  <2>1. QED
    BY <1>2, PickedIsSubsequence
<1>4. Added(c, lines) = [i \in DOMAIN new |-> line(new[i])]
  BY DEF Added
<1>5. \A n \in DOMAIN new : new[n] \in Sku /\ form[c].quantity[new[n]] > 0
                            /\ new[n] \notin Skus(lines)
  <2> HIDE DEF skus, new
  <2>1. QED
    BY <1>2, <1>3
<1>6. \A s \in Sku : form[c].quantity[s] > 0 => line(s) \in Line
  <2>1. SUFFICES ASSUME NEW s \in Sku, form[c].quantity[s] > 0
                 PROVE  line(s) \in Line
    OBVIOUS
  <2>2. ceiling[c][s] > 0
    BY <2>1
  <2> HIDE DEF skus, P, new, line
  <2>3. form[c].quantity[s] \in Nat
    BY <1>2
  <2>4. ceiling[c][s] \in 0..MaxPerLine /\ MaxPerLine \in Nat
    BY <1>1, CartAssumption DEF Limits
  <2> USE DEF line
  <2>5. AtMost(form[c].quantity[s], ceiling[c][s]) \in 1..MaxPerLine
    BY <2>1, <2>2, <2>3, <2>4 DEF AtMost
  <2>6. QED
    BY <2>5 DEF Line, Id
<1>7. \A s : line(s).id.sku = s
  OBVIOUS
<1> HIDE DEF skus, P, new, line
<1>8. \A m, n \in DOMAIN new : new[m] = new[n] => m = n
  <2>1. P \subseteq DOMAIN skus
    BY DEF P
  <2>2. QED
    BY <1>2, <1>3, <2>1
<1>9. /\ Len(new) \in Nat /\ DOMAIN new = 1..Len(new)
      /\ \A n \in DOMAIN new : line(new[n]) \in Line
  BY <1>3, <1>5, <1>6
<1>10. Added(c, lines) \in Seq(Line)
  BY <1>4, <1>9
<1>11. DOMAIN Added(c, lines) = DOMAIN new
       /\ \A n \in DOMAIN new : Added(c, lines)[n] = line(new[n])
  BY <1>4
<1>12. QED
  BY <1>5, <1>7, <1>8, <1>10, <1>11

(* Assigning quantities leaves every line a line of the same name. *)
LEMMA AssignedLines ==
  ASSUME NEW c \in Call, TypeOK, form[c].op \in {"add", "update"},
         form[c].op = "add" =>
           \A s \in Sku : form[c].quantity[s] > 0 => ceiling[c][s] > 0,
         NEW lines \in Seq(Line)
  PROVE  /\ Assigned(c, lines) \in Seq(Line)
         /\ Len(Assigned(c, lines)) = Len(lines)
         /\ \A i \in DOMAIN lines :
              /\ Assigned(c, lines)[i].id = lines[i].id
              /\ Assigned(c, lines)[i] =
                   [lines[i] EXCEPT !.quantity = Assigned(c, lines)[i].quantity]
<1> DEFINE given(l) == IF ~Names(c, l) THEN l
                       ELSE IF form[c].op = "add" THEN Raised(c, l)
                       ELSE Changed(c, l)
<1>1. form[c] \in Form /\ ceiling[c] \in [Sku -> 0..MaxPerLine]
      /\ MaxPerLine \in Nat
  BY CartAssumption DEF TypeOK, Limits
<1>2. ASSUME NEW l \in Line
      PROVE  /\ given(l) \in Line /\ given(l).id = l.id
             /\ given(l) = [l EXCEPT !.quantity = given(l).quantity]
  <2>1. /\ l.id \in Id /\ l.id.sku \in Sku /\ l.quantity \in 1..MaxPerLine
        /\ l = [id |-> l.id, quantity |-> l.quantity]
    BY DEF Line, Id
  <2>2. \A q : [l EXCEPT !.quantity = q] = [id |-> l.id, quantity |-> q]
    BY <2>1
  <2>3. \A q \in 1..MaxPerLine : [id |-> l.id, quantity |-> q] \in Line
    BY <2>1 DEF Line
  <2>4. CASE ~Names(c, l)
    BY <2>1, <2>2, <2>4
  <2>5. CASE Names(c, l) /\ form[c].op = "add"
    <3> DEFINE q == AtMost(l.quantity + form[c].quantity[l.id.sku],
                           ceiling[c][l.id.sku])
    <3>1. form[c].quantity[l.id.sku] \in Nat /\ form[c].quantity[l.id.sku] > 0
      BY <1>1, <2>1, <2>5, FormFacts DEF Names
    <3>2. ceiling[c][l.id.sku] \in 1..MaxPerLine
      BY <1>1, <2>1, <2>5, <3>1
    <3>3. q \in 1..MaxPerLine
      BY <1>1, <2>1, <3>1, <3>2 DEF AtMost
    <3>4. given(l) = [id |-> l.id, quantity |-> q]
      BY <2>2, <2>5 DEF Raised
    <3> HIDE DEF q, given
    <3>5. QED
      BY <2>2, <2>3, <3>3, <3>4
  <2>6. CASE Names(c, l) /\ form[c].op = "update"
    <3> DEFINE asked == form[c].quantity[l.id]
               most == ceiling[c][l.id.sku]
               q == IF most > 0 THEN AtMost(asked, most) ELSE asked
    <3>1. asked \in 0..MaxPerLine /\ asked # 0
      BY <1>1, <2>6, FormFacts DEF Names, Removals
    <3>2. most \in 0..MaxPerLine
      BY <1>1, <2>1
    <3>3. q \in 1..MaxPerLine
      <4> HIDE DEF asked, most
      <4>1. QED
        BY <1>1, <3>1, <3>2 DEF AtMost
    <3>4. given(l) = [id |-> l.id, quantity |-> q]
      BY <2>2, <2>6 DEF Changed
    <3> HIDE DEF q, given
    <3>5. QED
      BY <2>2, <2>3, <3>3, <3>4
  <2>7. QED
    BY <2>4, <2>5, <2>6
<1>3. Assigned(c, lines) = [i \in DOMAIN lines |-> given(lines[i])]
  BY DEF Assigned
<1>4. DOMAIN lines = 1..Len(lines) /\ Len(lines) \in Nat
      /\ \A i \in DOMAIN lines : lines[i] \in Line
  OBVIOUS
<1> HIDE DEF given
<1>5. \A i \in DOMAIN lines : given(lines[i]) \in Line
  BY <1>2, <1>4
<1>6. /\ Assigned(c, lines) \in Seq(Line)
      /\ Len(Assigned(c, lines)) = Len(lines)
      /\ \A i \in DOMAIN lines : Assigned(c, lines)[i] = given(lines[i])
  BY <1>3, <1>4, <1>5
<1>7. QED
  BY <1>2, <1>4, <1>6

(* Taking lines out adds none, and keeps distinct lines distinct. *)
LEMMA WithoutLines ==
  ASSUME NEW S, NEW lines \in Seq(S), NEW gone
  PROVE  /\ Without(lines, gone) \in Seq(S)
         /\ Len(Without(lines, gone)) <= Len(lines)
         /\ Skus(Without(lines, gone)) \subseteq Skus(lines)
         /\ Distinct(lines) => Distinct(Without(lines, gone))
<1> DEFINE P == {i \in DOMAIN lines : lines[i].id \notin gone}
           left == Picked(lines, P)
<1>1. /\ left \in Seq(S)
      /\ Len(left) <= Len(lines)
      /\ \A n \in DOMAIN left : Nth(P, n) \in P /\ left[n] = lines[Nth(P, n)]
      /\ \A m, n \in DOMAIN left : Nth(P, m) = Nth(P, n) => m = n
  BY PickedIsSubsequence
<1>2. P \subseteq DOMAIN lines
  OBVIOUS
<1>3. Without(lines, gone) = left
  BY DEF Without
<1> HIDE DEF P, left
<1>4. Skus(left) \subseteq Skus(lines)
  BY <1>1, <1>2 DEF Skus
<1>5. Distinct(lines) => Distinct(left)
  BY <1>1, <1>2 DEF Distinct
<1>6. QED
  BY <1>1, <1>3, <1>4, <1>5

(* Appending distinct lines that name none of the SKUs already there. *)
LEMMA AppendedLines ==
  ASSUME NEW S, NEW lines \in Seq(S), Distinct(lines),
         NEW more \in Seq(S), Distinct(more),
         \A i \in DOMAIN more : more[i].id.sku \notin Skus(lines)
  PROVE  /\ lines \o more \in Seq(S)
         /\ Len(lines \o more) = Len(lines) + Len(more)
         /\ Distinct(lines \o more)
<1> DEFINE all == lines \o more
<1>1. /\ all \in Seq(S) /\ Len(all) = Len(lines) + Len(more)
      /\ Len(lines) \in Nat /\ Len(more) \in Nat
      /\ DOMAIN all = 1..Len(all)
      /\ DOMAIN lines = 1..Len(lines) /\ DOMAIN more = 1..Len(more)
      /\ \A i \in DOMAIN all :
           \/ i \in DOMAIN lines /\ all[i] = lines[i]
           \/ i - Len(lines) \in DOMAIN more /\ all[i] = more[i - Len(lines)]
  OBVIOUS
<1> HIDE DEF all
<1>2. ASSUME NEW i \in DOMAIN all, NEW j \in DOMAIN all,
             all[i].id.sku = all[j].id.sku, all[i].id.sku # NoSku
      PROVE  i = j
  <2>1. CASE i \in DOMAIN lines /\ all[i] = lines[i]
             /\ j \in DOMAIN lines /\ all[j] = lines[j]
    BY <1>2, <2>1 DEF Distinct
  <2>2. CASE i - Len(lines) \in DOMAIN more /\ all[i] = more[i - Len(lines)]
             /\ j - Len(lines) \in DOMAIN more /\ all[j] = more[j - Len(lines)]
    <3>1. i - Len(lines) = j - Len(lines)
      BY <1>2, <2>2 DEF Distinct
    <3>2. QED
      BY <1>1, <3>1
  <2>3. CASE i \in DOMAIN lines /\ all[i] = lines[i]
             /\ j - Len(lines) \in DOMAIN more /\ all[j] = more[j - Len(lines)]
    BY <1>2, <2>3 DEF Skus
  <2>4. CASE i - Len(lines) \in DOMAIN more /\ all[i] = more[i - Len(lines)]
             /\ j \in DOMAIN lines /\ all[j] = lines[j]
    BY <1>2, <2>4 DEF Skus
  <2>5. QED
    BY <1>1, <2>1, <2>2, <2>3, <2>4
<1>3. Distinct(all)
  BY <1>2 DEF Distinct
<1>4. QED
  BY <1>1, <1>3 DEF all

Capped(c) ==
  form[c].op = "add" =>
    \A s \in Sku : form[c].quantity[s] > 0 => ceiling[c][s] > 0

(* The whole result is a cart that keeps the rules. *)
LEMMA ResultLines ==
  ASSUME NEW c \in Call, TypeOK, CopySound(c), CeilingSound(c),
         pc[c] = "save", form[c].op \in {"add", "update"}
  PROVE  /\ Result(c, copy[c]) \in Seq(Line)
         /\ Distinct(Result(c, copy[c]))
         /\ Len(Result(c, copy[c])) <= MaxLines
<1> DEFINE lines == copy[c]
           given == Assigned(c, lines)
<1>1. /\ lines \in Seq(Line) /\ Distinct(lines) /\ Len(lines) <= MaxLines
      /\ form[c].op = "add" => Len(lines) + Len(Added(c, lines)) <= MaxLines
  BY DEF CopySound, Opened
<1>2. Capped(c)
  BY DEF Capped, CeilingSound
<1>3. /\ given \in Seq(Line) /\ Len(given) = Len(lines)
      /\ \A i \in DOMAIN lines : given[i].id = lines[i].id
  <2> HIDE DEF lines
  <2>1. QED
    BY <1>1, <1>2, AssignedLines DEF Capped
<1> HIDE DEF lines, given
<1>4. DOMAIN given = DOMAIN lines
  BY <1>1, <1>3
<1>5. Distinct(given) /\ Skus(given) = Skus(lines)
  BY <1>1, <1>3, <1>4 DEF Distinct, Skus
<1>6. CASE Removals(c) # {}
  <2>1. Result(c, lines) = Without(given, Removals(c))
    BY <1>6 DEF Result, given
  <2>2. /\ Without(given, Removals(c)) \in Seq(Line)
        /\ Len(Without(given, Removals(c))) <= Len(given)
        /\ Distinct(Without(given, Removals(c)))
    BY <1>3, <1>5, WithoutLines
  <2>3. Len(Without(given, Removals(c))) <= MaxLines
    BY <1>1, <1>3, <2>2, CartAssumption
  <2>4. QED
    BY <2>1, <2>2, <2>3 DEF lines
<1>7. CASE Removals(c) = {} /\ form[c].op = "add"
  <2>1. /\ Added(c, lines) \in Seq(Line)
        /\ \A i \in DOMAIN Added(c, lines) :
             Added(c, lines)[i].id.sku \notin Skus(lines)
        /\ Distinct(Added(c, lines))
    BY <1>2, <1>7, AddedLines DEF Capped, Distinct
  <2>2. Result(c, lines) = given \o Added(c, lines)
    BY <1>7 DEF Result, Push, given
  <2>3. /\ given \o Added(c, lines) \in Seq(Line)
        /\ Len(given \o Added(c, lines)) = Len(given) + Len(Added(c, lines))
        /\ Distinct(given \o Added(c, lines))
    BY <1>3, <1>5, <2>1, AppendedLines
  <2>4. QED
    BY <1>1, <1>3, <1>7, <2>2, <2>3 DEF lines
<1>8. CASE Removals(c) = {} /\ form[c].op = "update"
  <2>1. Result(c, lines) = given \o <<>>
    BY <1>8 DEF Result, Push, given
  <2>2. given \o <<>> = given
    BY <1>3
  <2>3. QED
    BY <1>1, <1>3, <1>5, <2>1, <2>2 DEF lines
<1>9. QED
  BY <1>6, <1>7, <1>8

(* A new quantity leaves an element an element of the same name. *)
LEMMA NewQuantity ==
  \A e \in Element, n \in 1..MaxPerLine :
    /\ [e EXCEPT !.quantity = n] \in Element
    /\ [e EXCEPT !.quantity = n].id = e.id
<1>1. SUFFICES ASSUME NEW e \in Element, NEW n \in 1..MaxPerLine
               PROVE  /\ [e EXCEPT !.quantity = n] \in Element
                      /\ [e EXCEPT !.quantity = n].id = e.id
  OBVIOUS
<1>2. n \in 0..MaxPerLine /\ MaxPerLine \in Nat
  BY CartAssumption
<1>3. CASE e \in Line
  <2>1. e.id \in Id /\ e = [id |-> e.id, quantity |-> e.quantity]
    BY <1>3 DEF Line
  <2>2. [e EXCEPT !.quantity = n] = [id |-> e.id, quantity |-> n]
    BY <2>1
  <2>3. [id |-> e.id, quantity |-> n] \in Line
    BY <2>1 DEF Line
  <2>4. QED
    BY <2>2, <2>3 DEF Element
<1>4. CASE \E q \in 0..MaxPerLine : e = Stray(q)
  <2>1. [e EXCEPT !.quantity = n] = Stray(n) /\ e.id = Stray(n).id
    BY <1>4 DEF Stray
  <2>2. QED
    BY <1>2, <2>1 DEF Element
<1>5. QED
  BY <1>3, <1>4 DEF Element

(* Writing quantities at positions adds no SKU and no length beyond the    *)
(* copy's; on the array the copy was taken from it assigns as intended.    *)
LEMMA PositionLines ==
  ASSUME NEW c \in Call, TypeOK, CopySound(c), CeilingSound(c),
         pc[c] = "save", form[c].op \in {"add", "update"}, Modified(c) # {}
  PROVE  /\ AtPositions(c) \in Seq(Element)
         /\ \/ Len(AtPositions(c)) <= Len(items)
            \/ Len(AtPositions(c)) <= Len(copy[c])
         /\ Distinct(items) => Distinct(AtPositions(c))
         /\ items = copy[c] => AtPositions(c) = Assigned(c, items)
<1> DEFINE lines == copy[c]
           given == Assigned(c, lines)
           M == Modified(c)
           last == CHOOSE i \in M : \A j \in M : j <= i
           size == IF last > Len(items) THEN last ELSE Len(items)
<1>1. lines \in Seq(Line)
  BY DEF CopySound, Opened
<1>2. Capped(c)
  BY DEF Capped, CeilingSound
<1>3. /\ given \in Seq(Line) /\ Len(given) = Len(lines)
      /\ \A i \in DOMAIN lines :
           given[i] = [lines[i] EXCEPT !.quantity = given[i].quantity]
  <2> HIDE DEF lines
  <2>1. QED
    BY <1>1, <1>2, AssignedLines DEF Capped
<1>4. M = {i \in DOMAIN lines : given[i] # lines[i]}
  BY DEF Modified
<1>5. items \in Seq(Element)
  BY DEF TypeOK, Carts
<1>6. last \in M /\ \A j \in M : j <= last
  <2>1. M \subseteq 1..Len(lines) /\ Len(lines) \in Nat
    BY <1>1, <1>4
  <2> HIDE DEF M, lines
  <2>2. \E i \in M : \A j \in M : j <= i
    BY <2>1, GreatestPosition DEF M
  <2>3. QED
    BY <2>2
<1> DEFINE q(i) == given[i].quantity
           el(i) == CASE i \in M /\ i <= Len(items) ->
                           [items[i] EXCEPT !.quantity = q(i)]
                      [] i \in M /\ i > Len(items) -> Stray(q(i))
                      [] i \notin M /\ i <= Len(items) -> items[i]
                      [] OTHER -> Hole
<1>7. AtPositions(c) = [i \in 1..size |-> el(i)]
  BY DEF AtPositions
<1>8. /\ Len(items) \in Nat /\ DOMAIN items = 1..Len(items)
      /\ Len(lines) \in Nat /\ DOMAIN lines = 1..Len(lines)
      /\ \A i \in DOMAIN items : items[i] \in Element
      /\ \A i \in DOMAIN lines : given[i] \in Line /\ lines[i] \in Line
  BY <1>1, <1>3, <1>5
<1>9. \A i \in M : q(i) \in 1..MaxPerLine
  BY <1>4, <1>8 DEF Line
<1> HIDE DEF lines, given, M, last, q
<1>10. /\ last \in 1..Len(lines) /\ size \in Nat
       /\ \/ size <= Len(items)
          \/ size <= Len(lines)
       /\ Len(items) <= size
  BY <1>4, <1>6, <1>8
<1> HIDE DEF size
<1>11. \A e \in Element, n \in 1..MaxPerLine :
          /\ [e EXCEPT !.quantity = n] \in Element
          /\ [e EXCEPT !.quantity = n].id = e.id
  BY NewQuantity
<1>12. \A n \in 0..MaxPerLine : Stray(n) \in Element /\ Stray(n).id.sku = NoSku
  BY DEF Element, Stray
<1>13. \A i \in 1..size :
         /\ el(i) \in Element
         /\ \/ i \in DOMAIN items /\ el(i).id = items[i].id
            \/ el(i).id.sku = NoSku
  <2>1. SUFFICES ASSUME NEW i \in 1..size
                 PROVE  /\ el(i) \in Element
                        /\ \/ i \in DOMAIN items /\ el(i).id = items[i].id
                           \/ el(i).id.sku = NoSku
    OBVIOUS
  <2>2. MaxPerLine \in Nat /\ (i <= Len(items) <=> i \in DOMAIN items)
    BY <1>8, <1>10, CartAssumption
  <2>3. CASE i \in M /\ i <= Len(items)
    <3>1. el(i) = [items[i] EXCEPT !.quantity = q(i)]
      BY <2>3
    <3>2. i \in DOMAIN items
      BY <1>8, <1>10, <2>3
    <3> HIDE DEF el
    <3>3. QED
      BY <1>8, <1>9, <1>11, <2>3, <3>1, <3>2
  <2>4. CASE i \in M /\ i > Len(items)
    <3>1. el(i) = Stray(q(i))
      BY <1>8, <1>10, <2>4
    <3> HIDE DEF el
    <3>2. QED
      BY <1>9, <1>12, <2>4, <3>1
  <2>5. CASE i \notin M /\ i <= Len(items)
    <3>1. el(i) = items[i] /\ i \in DOMAIN items
      BY <1>8, <1>10, <2>5
    <3> HIDE DEF el
    <3>2. QED
      BY <1>8, <3>1
  <2>6. CASE i \notin M /\ i > Len(items)
    <3>1. el(i) = Hole
      BY <1>8, <1>10, <2>6
    <3>2. 0 \in 0..MaxPerLine
      BY CartAssumption
    <3> HIDE DEF el
    <3>3. QED
      BY <1>12, <3>1, <3>2 DEF Hole
  <2>7. QED
    BY <1>8, <1>10, <2>3, <2>4, <2>5, <2>6
<1>14. /\ AtPositions(c) \in Seq(Element) /\ Len(AtPositions(c)) = size
       /\ DOMAIN AtPositions(c) = 1..size
       /\ \A i \in 1..size : AtPositions(c)[i] = el(i)
  <2> HIDE DEF el
  <2>1. QED
    BY <1>7, <1>10, <1>13
<1>15. Distinct(items) => Distinct(AtPositions(c))
  <2> HIDE DEF el
  <2>1. QED
    BY <1>13, <1>14 DEF Distinct
<1>16. items = lines => AtPositions(c) = Assigned(c, items)
  <2>1. SUFFICES ASSUME items = lines
                 PROVE  AtPositions(c) = given
    BY DEF given
  <2>2. size = Len(items)
    BY <1>10, <2>1
  <2>3. \A i \in 1..size : el(i) = given[i]
    <3>1. SUFFICES ASSUME NEW i \in 1..size
                   PROVE  el(i) = given[i]
      OBVIOUS
    <3>2. i <= Len(items) /\ i \in DOMAIN lines
      BY <1>8, <2>1, <2>2
    <3>3. CASE i \in M
      <4>1. el(i) = [items[i] EXCEPT !.quantity = q(i)]
        BY <3>2, <3>3
      <4> HIDE DEF el
      <4>2. QED
        BY <1>3, <2>1, <3>2, <4>1 DEF q
    <3>4. CASE i \notin M
      <4>1. el(i) = items[i]
        BY <3>2, <3>4
      <4> HIDE DEF el
      <4>2. QED
        BY <1>4, <2>1, <3>2, <3>4, <4>1
    <3>5. QED
      BY <3>3, <3>4
  <2> HIDE DEF el
  <2>4. given = [i \in 1..size |-> given[i]]
    BY <1>3, <1>8, <2>1, <2>2
  <2>5. QED
    BY <1>7, <2>3, <2>4
<1>17. QED
  BY <1>10, <1>14, <1>15, <1>16 DEF lines

-----------------------------------------------------------------------------
(* The invariant holds at the start and after every step.                  *)

LEMMA CartInitInv == Init => CartInv
<1> SUFFICES ASSUME Init PROVE CartInv
  OBVIOUS
<1>1. items \in Seq(Line) /\ Len(items) <= MaxLines /\ Distinct(items)
  BY CartAssumption DEF Init, Distinct
<1>2. items \in Carts
  BY <1>1 DEF Carts, Element
<1>3. \A c \in Call : pc[c] \in {"check", "open", "pull"}
                      /\ (pc[c] = "open" => form[c].op = "update")
  BY FormFacts DEF Init, Start
<1>4. TypeOK
  <2>1. <<>> \in Carts
    BY DEF Carts
  <2>2. form \in [Call -> Form] /\ MaxAttempts \in Nat \ {0} /\ MaxEdits \in Nat
        /\ InitialLimit \in Limits
    BY CartAssumption DEF Init, Limits
  <2>3. pc \in [Call -> {"check", "open", "limits", "save", "pull", "done"}]
    BY <1>3 DEF Init
  <2>4. QED
    BY <1>2, <2>1, <2>2, <2>3 DEF Init, TypeOK
<1>5. \A c \in Call : CallInv(c)
  <2>1. TAKE c \in Call
  <2>2. MaxAttempts \in Nat \ {0}
    BY CartAssumption
  <2>3. pc[c] \in {"check", "open", "pull"} /\ (pc[c] = "open" => form[c].op = "update")
    BY <1>3
  <2>4. attempt[c] = 0 /\ version = 0 /\ outcome[c] = "none"
    BY DEF Init
  <2>5. ~Opened(c)
    BY <2>3 DEF Opened
  <2>6. CeilingSound(c)
    BY <2>3 DEF CeilingSound
  <2>7. CopySound(c) /\ CopyCurrent(c)
    BY <2>5 DEF CopySound, CopyCurrent
  <2>8. AttemptsCounted(c)
    BY <2>2, <2>3, <2>4, <2>5 DEF AttemptsCounted, Writes
  <2>9. QED
    BY <2>6, <2>7, <2>8 DEF CallInv
<1>6. QED
  BY <1>1, <1>4, <1>5 DEF CartInv, LinesDistinct, Distinct, CartWithinLimit

(* How a step may change the cart under a call that is at work. *)
CartMoves(d) ==
  \/ version' = version + 1
  \/ /\ version' = version
     /\ Skus(items') \subseteq Skus(items)
     /\ Len(items') <= Len(items)
     /\ overtaken'[d] \/ (items' = items /\ overtaken'[d] = overtaken[d])

CallStays(d) ==
  /\ pc'[d] = pc[d] /\ attempt'[d] = attempt[d] /\ copy'[d] = copy[d]
  /\ copyVersion'[d] = copyVersion[d] /\ ceiling'[d] = ceiling[d]
  /\ outcome'[d] = outcome[d]

LEMMA CallFrame ==
  ASSUME NEW d \in Call, TypeOK, TypeOK', form' = form,
         CallInv(d), CallStays(d), CartMoves(d)
  PROVE  CallInv(d)'
<1>1. /\ version \in Nat /\ version' \in Nat /\ copyVersion[d] \in Nat
      /\ attempt[d] \in Nat /\ MaxAttempts \in Nat
      /\ version' >= version
  BY CartAssumption DEF TypeOK, CartMoves
<1>2. CeilingSound(d)'
  BY DEF CallInv, CallStays, CeilingSound
<1>3. CopySound(d)'
  <2>1. Added(d, copy[d])' = Added(d, copy[d])
    BY DEF CallStays, Added
  <2>2. QED
    BY <2>1 DEF CallInv, CallStays, CopySound, Opened, Distinct
<1>4. CopyCurrent(d)'
  <2>1. SUFFICES ASSUME Opened(d)
                 PROVE  /\ copyVersion[d] <= version'
                        /\ copyVersion[d] = version' =>
                             /\ Skus(items') \subseteq Skus(copy[d])
                             /\ Len(items') <= Len(copy[d])
                             /\ ~overtaken'[d] => items' = copy[d]
    BY DEF CallStays, CopyCurrent, Opened, Skus
  <2>2. copy[d] \in Seq(Element) /\ items \in Seq(Element) /\ items' \in Seq(Element)
    BY DEF TypeOK, Carts
  <2>3. Len(copy[d]) \in Nat /\ Len(items) \in Nat /\ Len(items') \in Nat
    BY <2>2
  <2>4. copyVersion[d] <= version
    BY <2>1 DEF CallInv, CopyCurrent
  <2>5. QED
    BY <1>1, <2>1, <2>3, <2>4 DEF CallInv, CopyCurrent, CartMoves
<1>5. AttemptsCounted(d)'
  BY <1>1 DEF CallInv, CallStays, AttemptsCounted, Writes, Opened
<1>6. QED
  BY <1>2, <1>3, <1>4, <1>5 DEF CallInv

(* A step of one call that leaves the document alone. *)
Reads(c) ==
  /\ UNCHANGED <<doc, form>>
  /\ \A d \in Call \ {c} : CallStays(d) /\ overtaken'[d] = overtaken[d]

LEMMA ReadKeeps ==
  ASSUME NEW c \in Call, CartInv, Reads(c), TypeOK', CallInv(c)'
  PROVE  CartInv'
<1>1. items' = items /\ version' = version /\ form' = form
  BY DEF Reads, doc
<1>2. items \in Seq(Element)
  BY DEF CartInv, TypeOK, Carts
<1>3. \A d \in Call \ {c} : CallInv(d)'
  <2>1. TAKE d \in Call \ {c}
  <2>2. CartMoves(d) /\ CallStays(d) /\ CallInv(d)
    BY <1>1, <1>2 DEF CartMoves, Reads, CartInv
  <2>3. QED
    BY <1>1, <2>2, CallFrame DEF CartInv
<1>4. LinesDistinct' /\ CartWithinLimit'
  BY <1>1 DEF CartInv, LinesDistinct, CartWithinLimit
<1>5. QED
  BY <1>3, <1>4 DEF CartInv

(* A read that also ends its call. *)
LEMMA EndingKeeps ==
  ASSUME NEW c \in Call, CartInv, NEW how, End(c, how),
         how \in {"done", "refused", "unknown", "full", "conflict", "failed"},
         how = "conflict" => version >= MaxAttempts,
         Reads(c), TypeOK'
  PROVE  CartInv'
<1>1. pc'[c] = "done" /\ outcome'[c] = how /\ version' = version
  BY DEF End, Reads, doc, CartInv, TypeOK
<1>2. CallInv(c)'
  BY <1>1 DEF CallInv, CeilingSound, CopySound, CopyCurrent, AttemptsCounted,
     Writes, Opened
<1>3. QED
  BY <1>2, ReadKeeps

LEMMA CheckItemsInv ==
  ASSUME CartInv, NEW c \in Call, CheckItems(c)
  PROVE  CartInv'
<1>1. TypeOK /\ form[c] \in Form
  BY DEF CartInv, TypeOK
<1>2. TypeOK'
  BY <1>1 DEF TypeOK, CheckItems, Continue, doc, catalog, Limits
<1>3. Reads(c)
  BY <1>1 DEF TypeOK, CheckItems, Continue, Reads, CallStays, doc, catalog
<1>4. /\ pc'[c] = "open" /\ outcome'[c] = outcome[c] /\ form' = form
      /\ attempt' = attempt /\ version' = version /\ ceiling'[c] = limit
      /\ pc[c] = "check" /\ form[c].op = "add" /\ ~Refusable(c)
  BY <1>1 DEF TypeOK, CheckItems, Continue, At, doc
<1>5. CeilingSound(c)'
  <2>1. /\ \A s \in Sku : form[c].quantity[s] > 0 =>
             \E i \in DOMAIN form[c].skus : form[c].skus[i] = s
        /\ limit \in [Sku -> 0..MaxPerLine] /\ MaxPerLine \in Nat
    BY <1>1, <1>4, FormFacts, CartAssumption DEF TypeOK, Limits
  <2>2. \A s \in Sku : form[c].quantity[s] > 0 => limit[s] # 0
    BY <1>4, <2>1 DEF Refusable
  <2>3. \A s \in Sku : form[c].quantity[s] > 0 => limit[s] > 0
    BY <2>1, <2>2
  <2>4. QED
    BY <1>4, <2>3 DEF CeilingSound
<1>6. AttemptsCounted(c)'
  <2>1. AttemptsCounted(c) /\ version \in Nat /\ MaxAttempts \in Nat \ {0}
    BY CartAssumption DEF CartInv, CallInv, TypeOK
  <2>2. QED
    BY <1>4, <2>1 DEF AttemptsCounted, Writes, Opened
<1>7. CallInv(c)'
  BY <1>4, <1>5, <1>6 DEF CallInv, CopySound, CopyCurrent, Opened
<1>8. QED
  BY <1>2, <1>3, <1>7, ReadKeeps

LEMMA RefuseItemsInv ==
  ASSUME CartInv, NEW c \in Call, RefuseItems(c)
  PROVE  CartInv'
<1>1. TypeOK'
  BY DEF CartInv, TypeOK, RefuseItems, End, doc, catalog
<1>2. Reads(c)
  BY DEF CartInv, TypeOK, RefuseItems, End, Reads, CallStays, doc, catalog
<1>3. QED
  BY <1>1, <1>2, EndingKeeps DEF RefuseItems

(* What every reading of the cart does. *)
LEMMA OpenFacts ==
  ASSUME CartInv, NEW c \in Call, Open(c),
         pc' = [pc EXCEPT ![c] = pc'[c]],
         pc'[c] \in {"limits", "save", "done"},
         outcome' = [outcome EXCEPT ![c] = outcome'[c]],
         outcome'[c] \in {"none", "done", "refused", "unknown", "full",
                         "conflict", "failed"}
  PROVE  TypeOK' /\ Reads(c)
<1>1. TypeOK /\ AttemptsCounted(c)
  BY DEF CartInv, CallInv
<1>2. attempt[c] + 1 \in 0..MaxAttempts
  BY <1>1, CartAssumption DEF TypeOK, Open, AttemptsCounted
<1>3. TypeOK'
  BY <1>1, <1>2 DEF TypeOK, Open, doc, catalog
<1>4. Reads(c)
  BY <1>1 DEF TypeOK, Open, Reads, CallStays, doc, catalog
<1>5. QED
  BY <1>3, <1>4

LEMMA OpenCartInv ==
  ASSUME CartInv, NEW c \in Call, OpenCart(c)
  PROVE  CartInv'
<1> DEFINE step == IF form[c].op = "update" THEN "limits" ELSE "save"
<1>1. TypeOK /\ AttemptsCounted(c) /\ CeilingSound(c) /\ LinesDistinct
      /\ CartWithinLimit
  BY DEF CartInv, CallInv
<1>2. /\ outcome' = outcome /\ outcome' = [outcome EXCEPT ![c] = outcome'[c]]
      /\ pc'[c] = step /\ pc' = [pc EXCEPT ![c] = pc'[c]]
  BY <1>1 DEF OpenCart, Continue, TypeOK
<1>3. TypeOK' /\ Reads(c)
  <2>1. Open(c) /\ step \in {"limits", "save", "done"}
        /\ outcome[c] \in {"none", "done", "refused", "unknown", "full",
                           "conflict", "failed"}
    BY <1>1 DEF OpenCart, TypeOK
  <2> HIDE DEF step, TypeOK
  <2>2. QED
    BY <1>2, <2>1, OpenFacts
<1>4. /\ pc[c] = "open" /\ pc'[c] = step /\ outcome'[c] = outcome[c]
      /\ attempt'[c] = attempt[c] + 1 /\ copy'[c] = items
      /\ copyVersion'[c] = version /\ ceiling' = ceiling /\ form' = form
      /\ items' = items /\ version' = version
      /\ ~Damaged /\ ~Overfull(c)
  BY <1>1, <1>2 DEF TypeOK, OpenCart, Open, doc
<1>5. /\ items \in Seq(Element) /\ Len(items) \in Nat /\ version \in Nat
      /\ attempt[c] \in Nat /\ MaxLines \in Nat /\ MaxAttempts \in Nat
  BY <1>1, CartAssumption DEF TypeOK, Carts
<1>6. form[c].op \in {"add", "update"} /\ attempt[c] < MaxAttempts
      /\ attempt[c] <= version
  BY <1>1, <1>4 DEF AttemptsCounted, Writes
<1>7. CeilingSound(c)'
  BY <1>1, <1>4 DEF CeilingSound
<1>8. CopySound(c)'
  <2>1. items \in Seq(Line)
    <3>1. \A i \in DOMAIN items : items[i] \in Element /\ items[i].id.sku # NoSku
      BY <1>4, <1>5 DEF Damaged
    <3>2. \A e \in Element : e.id.sku # NoSku => e \in Line
      BY DEF Element, Stray
    <3>3. \A i \in DOMAIN items : items[i] \in Line
      BY <3>1, <3>2
    <3>4. QED
      BY <1>5, <3>3
  <2>2. Added(c, items)' = Added(c, items)
    BY <1>4 DEF Added
  <2>3. /\ Distinct(items) /\ Len(items) <= MaxLines
        /\ form[c].op = "add" => Len(items) + Len(Added(c, items)) <= MaxLines
    <3>1. CASE form[c].op = "add"
      <4>1. \A s \in Sku : form[c].quantity[s] > 0 => ceiling[c][s] > 0
        BY <1>1, <1>4, <3>1 DEF CeilingSound
      <4>2. Added(c, items) \in Seq(Line)
        BY <1>1, <3>1, <4>1, AddedLines
      <4>3. Len(Added(c, items)) \in Nat
        BY <4>2
      <4>4. QED
        BY <1>1, <1>4, <1>5, <3>1, <4>3 DEF Overfull, LinesDistinct, Distinct,
           CartWithinLimit
    <3>2. QED
      BY <1>1, <3>1 DEF LinesDistinct, Distinct, CartWithinLimit
  <2>4. Added(c, copy[c])' = Added(c, items)
    BY <1>4 DEF Added
  <2>5. QED
    BY <1>4, <2>1, <2>3, <2>4 DEF CopySound, Distinct
<1>9. CopyCurrent(c)'
  BY <1>4, <1>5 DEF CopyCurrent, Skus
<1>10. AttemptsCounted(c)'
  BY <1>1, <1>4, <1>5, <1>6 DEF AttemptsCounted, Writes, Opened
<1>11. CallInv(c)'
  BY <1>7, <1>8, <1>9, <1>10 DEF CallInv
<1>12. QED
  BY <1>3, <1>11, ReadKeeps

LEMMA OpenFailsInv ==
  ASSUME CartInv, NEW c \in Call,
         OpenFindsUnknown(c) \/ OpenFindsFull(c) \/ OpenFindsDamage(c)
  PROVE  CartInv'
<1>1. PICK how \in {"unknown", "full", "failed"} : Open(c) /\ End(c, how)
  BY DEF OpenFindsUnknown, OpenFindsFull, OpenFindsDamage
<1>2. /\ pc' = [pc EXCEPT ![c] = pc'[c]] /\ pc'[c] = "done"
      /\ outcome' = [outcome EXCEPT ![c] = outcome'[c]] /\ outcome'[c] = how
  BY <1>1 DEF End, CartInv, TypeOK
<1>3. TypeOK' /\ Reads(c)
  BY <1>1, <1>2, OpenFacts
<1>4. QED
  BY <1>1, <1>3, EndingKeeps

LEMMA ReadLimitsInv ==
  ASSUME CartInv, NEW c \in Call, ReadLimits(c)
  PROVE  CartInv'
<1>1. TypeOK /\ CallInv(c)
  BY DEF CartInv
<1>2. TypeOK' /\ Reads(c)
  BY <1>1 DEF TypeOK, ReadLimits, Continue, Reads, CallStays, doc, catalog, Limits
<1>3. /\ pc[c] = "limits" /\ pc'[c] = "save" /\ form[c].op = "update"
      /\ outcome' = outcome /\ attempt' = attempt /\ copy' = copy
      /\ copyVersion' = copyVersion /\ overtaken' = overtaken /\ form' = form
      /\ items' = items /\ version' = version
  BY <1>1 DEF TypeOK, ReadLimits, Continue, At, doc
<1>4. CeilingSound(c)'
  BY <1>3 DEF CeilingSound
<1>5. CopySound(c)'
  BY <1>1, <1>3 DEF CallInv, CopySound, Opened, Distinct
<1>6. CopyCurrent(c)'
  <2>1. Skus(items)' = Skus(items) /\ Skus(copy[c])' = Skus(copy[c])
    BY <1>3 DEF Skus
  <2>2. QED
    BY <1>1, <1>3, <2>1 DEF CallInv, CopyCurrent, Opened
<1>7. AttemptsCounted(c)'
  BY <1>1, <1>3 DEF CallInv, AttemptsCounted, Opened, Writes
<1>8. QED
  BY <1>2, <1>4, <1>5, <1>6, <1>7, ReadKeeps DEF CallInv

LEMMA SaveNothingInv ==
  ASSUME CartInv, NEW c \in Call, SaveNothing(c)
  PROVE  CartInv'
<1>1. TypeOK' /\ Reads(c)
  BY DEF CartInv, TypeOK, SaveNothing, End, Reads, CallStays, doc, catalog
<1>2. QED
  BY <1>1, EndingKeeps DEF SaveNothing

LEMMA SaveLostInv ==
  ASSUME CartInv, NEW c \in Call, SaveLost(c)
  PROVE  CartInv'
<1>1. TypeOK /\ CallInv(c)
  BY DEF CartInv
<1>2. TypeOK' /\ Reads(c)
  BY <1>1 DEF TypeOK, SaveLost, Continue, Reads, CallStays, doc, catalog
<1>3. /\ pc[c] = "save" /\ pc'[c] = "open" /\ copyVersion[c] # version
      /\ ~(attempt[c] >= MaxAttempts)
      /\ outcome' = outcome /\ attempt' = attempt /\ ceiling' = ceiling
      /\ form' = form /\ items' = items /\ version' = version
  BY <1>1 DEF TypeOK, SaveLost, Continue, VersionMatches, LastAttempt, doc
<1>4. copyVersion[c] <= version /\ attempt[c] <= copyVersion[c] + 1
  BY <1>1, <1>3 DEF CallInv, CopyCurrent, AttemptsCounted, Opened
<1>5. /\ version \in Nat /\ copyVersion[c] \in Nat /\ attempt[c] \in Nat
      /\ MaxAttempts \in Nat
  BY <1>1, CartAssumption DEF TypeOK
<1>6. attempt[c] < MaxAttempts /\ attempt[c] <= version
  BY <1>3, <1>4, <1>5
<1>7. CeilingSound(c)'
  BY <1>1, <1>3 DEF CallInv, CeilingSound
<1>8. CopySound(c)' /\ CopyCurrent(c)'
  BY <1>3 DEF CopySound, CopyCurrent, Opened
<1>9. AttemptsCounted(c)'
  BY <1>1, <1>3, <1>6 DEF CallInv, AttemptsCounted, Opened, Writes
<1>10. QED
  BY <1>2, <1>7, <1>8, <1>9, ReadKeeps DEF CallInv

LEMMA SaveConflictsInv ==
  ASSUME CartInv, NEW c \in Call, SaveConflicts(c)
  PROVE  CartInv'
<1>1. TypeOK /\ CallInv(c)
  BY DEF CartInv
<1>2. TypeOK' /\ Reads(c)
  BY <1>1 DEF TypeOK, SaveConflicts, End, Reads, CallStays, doc, catalog
<1>3. /\ pc[c] = "save" /\ copyVersion[c] # version
      /\ attempt[c] >= MaxAttempts
  BY DEF SaveConflicts, VersionMatches, LastAttempt
<1>4. copyVersion[c] <= version /\ attempt[c] <= copyVersion[c] + 1
  BY <1>1, <1>3 DEF CallInv, CopyCurrent, AttemptsCounted, Opened
<1>5. /\ version \in Nat /\ copyVersion[c] \in Nat /\ attempt[c] \in Nat
      /\ MaxAttempts \in Nat
  BY <1>1, CartAssumption DEF TypeOK
<1>6. version >= MaxAttempts
  BY <1>3, <1>4, <1>5
<1>7. QED
  BY <1>2, <1>6, EndingKeeps DEF SaveConflicts

LEMMA FindItemsInv ==
  ASSUME CartInv, NEW c \in Call, FindItems(c) \/ FindNoItems(c)
  PROVE  CartInv'
<1>1. TypeOK /\ CallInv(c)
  BY DEF CartInv
<1>2. CASE FindItems(c)
  <2>1. TypeOK' /\ Reads(c)
    BY <1>1, <1>2 DEF TypeOK, FindItems, Continue, Reads, CallStays, doc, catalog
  <2>2. /\ pc[c] = "check" /\ pc'[c] = "pull" /\ outcome' = outcome
        /\ version' = version
    BY <1>1, <1>2 DEF TypeOK, FindItems, At, Continue, doc
  <2>3. CallInv(c)'
    BY <1>1, <2>2 DEF CallInv, CeilingSound, CopySound, CopyCurrent,
       AttemptsCounted, Writes, Opened
  <2>4. QED
    BY <2>1, <2>3, ReadKeeps
<1>3. CASE FindNoItems(c)
  <2>1. TypeOK' /\ Reads(c)
    BY <1>1, <1>3 DEF TypeOK, FindNoItems, End, Reads, CallStays, doc, catalog
  <2>2. QED
    BY <1>3, <2>1, EndingKeeps DEF FindNoItems
<1>4. QED
  BY <1>2, <1>3

(* What every save does besides the items it writes. *)
Saved(c) ==
  /\ version' = version + 1
  /\ End(c, "done")
  /\ UNCHANGED <<catalog, form, attempt, copy, copyVersion, ceiling, overtaken>>

(* A save that writes a cart that keeps the rules. *)
LEMMA SavedInv ==
  ASSUME CartInv, NEW c \in Call, Saved(c),
         items' \in Seq(Element), Distinct(items'), Len(items') <= MaxLines
  PROVE  CartInv'
<1>1. TypeOK /\ version \in Nat
  BY DEF CartInv, TypeOK
<1>2. TypeOK'
  BY <1>1 DEF TypeOK, Saved, End, Carts, catalog
<1>3. /\ pc'[c] = "done" /\ outcome'[c] = "done" /\ form' = form
      /\ \A d \in Call \ {c} : CallStays(d)
  BY <1>1 DEF TypeOK, Saved, End, CallStays
<1>4. CallInv(c)'
  BY <1>3 DEF CallInv, CeilingSound, CopySound, CopyCurrent, AttemptsCounted,
     Writes, Opened
<1>5. \A d \in Call \ {c} : CallInv(d)'
  <2>1. TAKE d \in Call \ {c}
  <2>2. CartMoves(d) /\ CallStays(d) /\ CallInv(d)
    BY <1>3 DEF CartMoves, Saved, CartInv
  <2>3. QED
    BY <1>1, <1>2, <1>3, <2>2, CallFrame
<1>6. LinesDistinct' /\ CartWithinLimit'
  BY DEF LinesDistinct, CartWithinLimit, Distinct
<1>7. QED
  BY <1>2, <1>4, <1>5, <1>6 DEF CartInv

(* What holds of a call that is about to save, its version still current.  *)
LEMMA AboutToSave ==
  ASSUME CartInv, NEW c \in Call, pc[c] = "save", VersionMatches(c)
  PROVE  /\ TypeOK /\ CopySound(c) /\ CeilingSound(c) /\ Capped(c)
         /\ form[c].op \in {"add", "update"}
         /\ items \in Seq(Element) /\ copy[c] \in Seq(Line)
         /\ Distinct(items) /\ Len(items) <= MaxLines
         /\ Len(copy[c]) <= MaxLines /\ Len(items) <= Len(copy[c])
         /\ form[c].op = "add" => Len(copy[c]) + Len(Added(c, copy[c])) <= MaxLines
         /\ Skus(items) \subseteq Skus(copy[c])
         /\ ~overtaken[c] => items = copy[c]
<1>1. TypeOK /\ CallInv(c) /\ Opened(c) /\ Writes(c)
  BY DEF CartInv, Opened, Writes
<1>2. items \in Seq(Element) /\ Distinct(items) /\ Len(items) <= MaxLines
  BY DEF CartInv, TypeOK, Carts, LinesDistinct, Distinct, CartWithinLimit
<1>3. Capped(c)
  BY <1>1 DEF CallInv, CeilingSound, Capped
<1>4. QED
  BY <1>1, <1>2, <1>3 DEF CallInv, CopySound, CopyCurrent, AttemptsCounted,
     VersionMatches

LEMMA SaveWholeInv ==
  ASSUME CartInv, NEW c \in Call, SaveWhole(c)
  PROVE  CartInv'
<1>1. pc[c] = "save" /\ VersionMatches(c) /\ Saved(c)
      /\ items' = Result(c, copy[c])
  BY DEF SaveWhole, Save, Saved
<1>2. /\ Result(c, copy[c]) \in Seq(Line)
      /\ Distinct(Result(c, copy[c]))
      /\ Len(Result(c, copy[c])) <= MaxLines
  BY <1>1, AboutToSave, ResultLines
<1>3. Result(c, copy[c]) \in Seq(Element)
  BY <1>2 DEF Element
<1>4. Distinct(items')
  BY <1>1, <1>2 DEF Distinct
<1>5. QED
  BY <1>1, <1>2, <1>3, <1>4, SavedInv

LEMMA SavePushInv ==
  ASSUME CartInv, NEW c \in Call, SavePush(c)
  PROVE  CartInv'
<1> DEFINE more == Added(c, copy[c])
<1>1. pc[c] = "save" /\ VersionMatches(c) /\ Saved(c)
      /\ form[c].op = "add" /\ items' = items \o more
  BY DEF SavePush, Save, Saved, Push
<1>2. /\ TypeOK /\ Capped(c) /\ items \in Seq(Element) /\ Distinct(items)
      /\ copy[c] \in Seq(Line)
      /\ Len(items) <= Len(copy[c]) /\ Len(copy[c]) + Len(more) <= MaxLines
      /\ Skus(items) \subseteq Skus(copy[c])
  BY <1>1, AboutToSave
<1>3. /\ more \in Seq(Line)
      /\ \A i \in DOMAIN more : more[i].id.sku \notin Skus(copy[c])
      /\ Distinct(more)
  <2>1. \A s \in Sku : form[c].quantity[s] > 0 => ceiling[c][s] > 0
    BY <1>1, <1>2 DEF Capped
  <2>2. QED
    BY <1>1, <1>2, <2>1, AddedLines DEF Distinct
<1> HIDE DEF more
<1>4. more \in Seq(Element) /\ \A i \in DOMAIN more : more[i].id.sku \notin Skus(items)
  BY <1>2, <1>3 DEF Element
<1>5. /\ items \o more \in Seq(Element)
      /\ Len(items \o more) = Len(items) + Len(more)
      /\ Distinct(items \o more)
  BY <1>2, <1>3, <1>4, AppendedLines
<1>6. Len(items') <= MaxLines
  <2>1. Len(items) \in Nat /\ Len(copy[c]) \in Nat /\ Len(more) \in Nat
        /\ MaxLines \in Nat
    BY <1>2, <1>3, CartAssumption
  <2>2. QED
    BY <1>1, <1>2, <1>5, <2>1
<1>7. Distinct(items')
  BY <1>1, <1>5 DEF Distinct
<1>8. QED
  BY <1>1, <1>5, <1>6, <1>7, SavedInv

LEMMA SavePositionsInv ==
  ASSUME CartInv, NEW c \in Call, SavePositions(c)
  PROVE  CartInv'
<1>1. pc[c] = "save" /\ VersionMatches(c) /\ Saved(c) /\ Modified(c) # {}
      /\ items' = AtPositions(c)
  BY DEF SavePositions, Save, Saved
<1>2. /\ TypeOK /\ CopySound(c) /\ CeilingSound(c)
      /\ form[c].op \in {"add", "update"} /\ Distinct(items)
      /\ items \in Seq(Element) /\ copy[c] \in Seq(Line)
      /\ Len(items) <= MaxLines /\ Len(copy[c]) <= MaxLines
  BY <1>1, AboutToSave
<1>3. /\ AtPositions(c) \in Seq(Element)
      /\ \/ Len(AtPositions(c)) <= Len(items)
         \/ Len(AtPositions(c)) <= Len(copy[c])
      /\ Distinct(AtPositions(c))
  BY <1>1, <1>2, PositionLines
<1>4. Len(items') <= MaxLines
  <2>1. Len(items) \in Nat /\ Len(copy[c]) \in Nat /\ Len(AtPositions(c)) \in Nat
        /\ MaxLines \in Nat
    BY <1>2, <1>3, CartAssumption
  <2>2. QED
    BY <1>1, <1>2, <1>3, <2>1
<1>5. Distinct(items')
  BY <1>1, <1>3 DEF Distinct
<1>6. QED
  BY <1>1, <1>3, <1>4, <1>5, SavedInv

(* What every direct update does besides the lines it takes out. *)
Withdrawn(c) ==
  /\ overtaken' = IF items' = items THEN overtaken ELSE [d \in Call |-> TRUE]
  /\ End(c, "done")
  /\ UNCHANGED <<version, catalog, form, attempt, copy, copyVersion, ceiling>>

(* A direct update that only takes lines out. *)
LEMMA WithdrawnInv ==
  ASSUME CartInv, NEW c \in Call, Withdrawn(c),
         items' \in Seq(Element), Distinct(items'), Len(items') <= Len(items),
         Skus(items') \subseteq Skus(items)
  PROVE  CartInv'
<1>1. TypeOK /\ LinesDistinct /\ CartWithinLimit
  BY DEF CartInv
<1>2. TypeOK'
  BY <1>1 DEF TypeOK, Withdrawn, End, Carts, catalog
<1>3. /\ pc'[c] = "done" /\ outcome'[c] = "done" /\ form' = form
      /\ version' = version
      /\ \A d \in Call \ {c} : CallStays(d)
  BY <1>1 DEF TypeOK, Withdrawn, End, CallStays
<1>4. CallInv(c)'
  BY <1>3 DEF CallInv, CeilingSound, CopySound, CopyCurrent, AttemptsCounted,
     Writes, Opened
<1>5. \A d \in Call \ {c} : CallInv(d)'
  <2>1. TAKE d \in Call \ {c}
  <2>2. overtaken'[d] \/ (items' = items /\ overtaken'[d] = overtaken[d])
    BY DEF Withdrawn
  <2>3. CartMoves(d) /\ CallStays(d) /\ CallInv(d)
    BY <1>3, <2>2 DEF CartMoves, CartInv
  <2>4. QED
    BY <1>1, <1>2, <1>3, <2>3, CallFrame
<1>6. LinesDistinct' /\ CartWithinLimit'
  <2>1. Len(items) \in Nat /\ Len(items') \in Nat /\ MaxLines \in Nat
    BY <1>1, CartAssumption DEF TypeOK, Carts
  <2>2. QED
    BY <1>1, <2>1 DEF LinesDistinct, CartWithinLimit, Distinct
<1>7. QED
  BY <1>2, <1>4, <1>5, <1>6 DEF CartInv

LEMMA WithdrawalsInv ==
  ASSUME CartInv, NEW c \in Call,
         PullItems(c) \/ Clear(c) \/ ClearOrderedLines(c)
  PROVE  CartInv'
<1>1. items \in Seq(Element) /\ Distinct(items)
  BY DEF CartInv, TypeOK, Carts, LinesDistinct, Distinct
<1>2. ASSUME NEW gone
      PROVE  /\ Without(items, gone) \in Seq(Element)
             /\ Distinct(Without(items, gone))
             /\ Len(Without(items, gone)) <= Len(items)
             /\ Skus(Without(items, gone)) \subseteq Skus(items)
  BY <1>1, WithoutLines
<1>3. Withdrawn(c)
  BY DEF PullItems, Clear, ClearOrderedLines, Withdraw, Withdrawn
<1>4. CASE PullItems(c)
  <2> DEFINE left == Without(items, form[c].ids \cap Ids(copy[c]))
  <2>1. items' = left
    BY <1>4 DEF PullItems, Withdraw
  <2>2. /\ left \in Seq(Element) /\ Distinct(left) /\ Len(left) <= Len(items)
        /\ Skus(left) \subseteq Skus(items)
    BY <1>2
  <2> HIDE DEF left
  <2>3. Distinct(items') /\ Skus(items') \subseteq Skus(items)
    BY <2>1, <2>2 DEF Distinct, Skus
  <2>4. QED
    BY <1>3, <2>1, <2>2, <2>3, WithdrawnInv
<1>5. CASE Clear(c)
  <2>1. items' = <<>>
    BY <1>5 DEF Clear, Withdraw
  <2>2. Distinct(items') /\ Skus(items') \subseteq Skus(items)
    BY <2>1 DEF Distinct, Skus
  <2>3. Len(items') <= Len(items) /\ items' \in Seq(Element)
    BY <1>1, <2>1
  <2>4. QED
    BY <1>3, <2>2, <2>3, WithdrawnInv
<1>6. CASE ClearOrderedLines(c)
  <2> DEFINE gone == {id \in Ids(items) : id.sku \in form[c].skus}
             left == Without(items, gone)
  <2>1. items' = left
    BY <1>6 DEF ClearOrderedLines, Withdraw
  <2>2. /\ left \in Seq(Element) /\ Distinct(left) /\ Len(left) <= Len(items)
        /\ Skus(left) \subseteq Skus(items)
    <3> HIDE DEF gone
    <3>1. QED
      BY <1>2
  <2> HIDE DEF left
  <2>3. Distinct(items') /\ Skus(items') \subseteq Skus(items)
    BY <2>1, <2>2 DEF Distinct, Skus
  <2>4. QED
    BY <1>3, <2>1, <2>2, <2>3, WithdrawnInv
<1>7. QED
  BY <1>4, <1>5, <1>6

(* A step that is none of the calls'. *)
LEMMA OthersInv ==
  ASSUME CartInv, UNCHANGED <<doc, form, call, overtaken>>, TypeOK'
  PROVE  CartInv'
<1>1. items' = items /\ version' = version /\ form' = form
  BY DEF doc
<1>2. items \in Seq(Element)
  BY DEF CartInv, TypeOK, Carts
<1>3. \A d \in Call : CallInv(d)'
  <2>1. TAKE d \in Call
  <2>2. CartMoves(d) /\ CallStays(d) /\ CallInv(d)
    BY <1>1, <1>2 DEF CartMoves, CallStays, CartInv, call
  <2>3. QED
    BY <1>1, <2>2, CallFrame DEF CartInv
<1>4. QED
  BY <1>1, <1>3 DEF CartInv, LinesDistinct, CartWithinLimit

LEMMA CartStepInv == CartInv /\ [Next]_vars => CartInv'
<1> SUFFICES ASSUME CartInv, [Next]_vars PROVE CartInv'
  OBVIOUS
<1>1. ASSUME NEW c \in Call, Step(c)
      PROVE  CartInv'
  BY <1>1, CheckItemsInv, RefuseItemsInv, OpenCartInv, OpenFailsInv, ReadLimitsInv,
     SaveWholeInv, SavePushInv, SavePositionsInv, SaveNothingInv, SaveLostInv,
     SaveConflictsInv, FindItemsInv, WithdrawalsInv DEF Step
<1>2. ASSUME NEW s \in Sku, NEW n \in 0..MaxPerLine, SetLimit(s, n)
      PROVE  CartInv'
  <2>1. edits + 1 \in 0..MaxEdits /\ limit' \in Limits
    BY <1>2, CartAssumption DEF SetLimit, CartInv, TypeOK, Limits
  <2>2. TypeOK'
    BY <1>2, <2>1 DEF SetLimit, CartInv, TypeOK, doc, call
  <2>3. QED
    BY <1>2, <2>2, OthersInv DEF SetLimit
<1>3. CASE UNCHANGED vars
  <2>1. TypeOK'
    BY <1>3 DEF vars, CartInv, TypeOK, doc, call, catalog, Carts, Limits
  <2>2. QED
    BY <1>3, <2>1, OthersInv DEF vars
<1>4. QED
  BY <1>1, <1>2, <1>3 DEF Next

(* The strengthened invariant holds in every reachable state. *)
THEOREM CartInvariance == Spec => []CartInv
<1>1. Init => CartInv
  BY CartInitInv
<1>2. CartInv /\ [Next]_vars => CartInv'
  BY CartStepInv
<1>3. QED
  BY <1>1, <1>2, PTL DEF Spec

-----------------------------------------------------------------------------
(* What follows for the cart.                                              *)

(* Every variable keeps its type: in particular every quantity of a line   *)
(* stays between one and MAX_QUANTITY_PER_LINE.                            *)
THEOREM CartTypeOK == Spec => []TypeOK
<1>1. CartInv => TypeOK
  BY DEF CartInv
<1>2. QED
  BY <1>1, CartInvariance, PTL

(* However many calls interleave, no two lines name one SKU. *)
THEOREM CartLinesDistinct == Spec => []LinesDistinct
<1>1. CartInv => LinesDistinct
  BY DEF CartInv
<1>2. QED
  BY <1>1, CartInvariance, PTL

(* The cart never grows past MAX_LINES. *)
THEOREM CartStaysWithinLimit == Spec => []CartWithinLimit
<1>1. CartInv => CartWithinLimit
  BY DEF CartInv
<1>2. QED
  BY <1>1, CartInvariance, PTL

(* Nobody is told of a conflict before MaxAttempts saves went through. *)
THEOREM CartConflictMeansContention == Spec => []ConflictMeansContention
<1>1. CartInv => ConflictMeansContention
  BY DEF CartInv, CallInv, AttemptsCounted, ConflictMeansContention
<1>2. QED
  BY <1>1, CartInvariance, PTL

(* A save no direct update overtook does exactly what its call asked for. *)
THEOREM CartSavesAreAtomic == Spec => SavesAreAtomic
<1>1. ASSUME CartInv, [Next]_vars, NEW c \in Call, pc[c] = "save",
             outcome'[c] = "done", version' # version, ~overtaken[c]
      PROVE  items' = Result(c, items)
  <2>1. PICK d \in Call : SaveWhole(d) \/ SavePush(d) \/ SavePositions(d)
    BY <1>1 DEF Next, vars, doc, Step, CheckItems, RefuseItems, OpenCart,
       OpenFindsUnknown, OpenFindsFull, OpenFindsDamage, Open, ReadLimits,
       SaveNothing, SaveLost, SaveConflicts, FindItems, FindNoItems, PullItems,
       Clear, ClearOrderedLines, Withdraw, SetLimit
  <2>2. c = d
    <3>1. outcome[c] # "done"
      BY <1>1 DEF CartInv, CallInv, AttemptsCounted
    <3>2. QED
      BY <1>1, <2>1, <3>1 DEF SaveWhole, SavePush, SavePositions, Save, End, CartInv,
         TypeOK
  <2>3. VersionMatches(c)
    BY <2>1, <2>2 DEF SaveWhole, SavePush, SavePositions, Save
  <2>4. /\ items = copy[c] /\ items \in Seq(Line) /\ TypeOK /\ CopySound(c)
        /\ CeilingSound(c) /\ Capped(c) /\ form[c].op \in {"add", "update"}
    BY <1>1, <2>3, AboutToSave
  <2>5. CASE SaveWhole(c)
    BY <2>4, <2>5 DEF SaveWhole, Save
  <2>6. /\ Assigned(c, items) \in Seq(Line) /\ Len(Assigned(c, items)) = Len(items)
        /\ DOMAIN items = 1..Len(items)
    BY <2>4, AssignedLines DEF Capped
  <2>7. CASE SavePush(c)
    <3>1. Removals(c) = {} /\ Modified(c) = {} /\ items' = items \o Push(c, items)
      BY <2>4, <2>7 DEF SavePush, Save
    <3>2. Assigned(c, items) = items
      BY <2>4, <2>6, <3>1 DEF Modified
    <3>3. QED
      BY <3>1, <3>2 DEF Result
  <2>8. CASE SavePositions(c)
    <3>1. Removals(c) = {} /\ Modified(c) # {} /\ Push(c, items) = <<>>
          /\ items' = AtPositions(c)
      BY <2>4, <2>8 DEF SavePositions, Save
    <3>2. AtPositions(c) = Assigned(c, items)
      BY <1>1, <2>4, <3>1, PositionLines
    <3>3. QED
      BY <2>6, <3>1, <3>2 DEF Result
  <2>9. QED
    BY <2>1, <2>2, <2>5, <2>7, <2>8
<1>2. CartInv /\ [Next]_vars =>
        [\A c \in Call :
           /\ pc[c] = "save" /\ outcome'[c] = "done" /\ version' # version
           /\ ~overtaken[c]
           => items' = Result(c, items)]_vars
  BY <1>1
<1>3. QED
  BY <1>2, CartInvariance, PTL DEF Spec, SavesAreAtomic
=============================================================================
