--------------------------- MODULE ProtocolProofs ---------------------------
(***************************************************************************)
(* Proofs about Protocol: a message that was written is read to its last   *)
(* byte or not delivered, and it is delivered when all of it is there and  *)
(* the reader knows it.  They hold for any width of the sizes, any sizes   *)
(* of the fields and any number of them.                                   *)
(***************************************************************************)
EXTENDS Protocol, SequenceTheorems, WellFoundedInduction, TLAPS

-----------------------------------------------------------------------------
(***************************************************************************)
(* Recursive functions over the indexes of a sequence.                     *)
(***************************************************************************)

\* A set of naturals that is not empty has a least element.
LEMMA LeastNatural ==
  ASSUME NEW S \in SUBSET Nat, S # {}
  PROVE  \E n \in S : \A k \in S : n <= k
<1> DEFINE R == OpToRel(<, Nat)
<1>1. IsWellFoundedOn(R, Nat)
  BY NatLessThanWellFounded
<1>2. \A i, j \in Nat : <<i, j>> \in R <=> i < j
  BY DEF OpToRel
<1> HIDE DEF R
<1>3. PICK n \in S : \A k \in S : <<k, n>> \notin R
  BY <1>1, WFMin
<1>4. ASSUME NEW k \in S PROVE n <= k
  <2>1. ~(k < n)
    BY <1>2, <1>3
  <2> QED
    BY <2>1
<1> QED
  BY <1>4

\* The values of a recursion from 0 to n.
Recursion(g, V, n, first, step) ==
  /\ g \in [0 .. n -> V]
  /\ g[0] = first
  /\ \A k \in 1 .. n : g[k] = step[k][g[k - 1]]

\* There are values that start with first and go on by step, m times.
LEMMA FiniteRecursion ==
  ASSUME NEW V, NEW first \in V, NEW m \in Nat, NEW step \in [1 .. m -> [V -> V]]
  PROVE  \E g : Recursion(g, V, m, first, step)
<1> DEFINE none == {n \in 0 .. m : \A g : ~Recursion(g, V, n, first, step)}
<1>1. SUFFICES ASSUME none # {} PROVE FALSE
  OBVIOUS
<1>2. PICK n \in none : \A k \in none : n <= k
  <2>1. none \in SUBSET Nat
    OBVIOUS
  <2> HIDE DEF none
  <2> QED
    BY <1>1, <2>1, LeastNatural
<1>3. n \in 0 .. m /\ \A g : ~Recursion(g, V, n, first, step)
  OBVIOUS
<1>4. CASE n = 0
  <2> DEFINE h == [k \in 0 .. n |-> first]
  <2>1. Recursion(h, V, n, first, step)
    BY <1>4 DEF Recursion
  <2> QED
    BY <1>3, <2>1
<1>5. CASE n # 0
  <2>1. n - 1 \in 0 .. m /\ n - 1 \notin none /\ n \in 1 .. m
    BY <1>2, <1>3, <1>5
  <2>2. PICK g : Recursion(g, V, n - 1, first, step)
    BY <2>1
  <2> DEFINE h == [k \in 0 .. n |-> IF k = n THEN step[n][g[n - 1]] ELSE g[k]]
  <2>3. g[n - 1] \in V /\ step[n][g[n - 1]] \in V
    BY <2>1, <2>2 DEF Recursion
  <2>4. h \in [0 .. n -> V]
    BY <1>3, <2>2, <2>3 DEF Recursion
  <2>5. h[0] = first
    BY <1>3, <1>5, <2>2 DEF Recursion
  <2>6. ASSUME NEW k \in 1 .. n PROVE h[k] = step[k][h[k - 1]]
    <3>1. CASE k = n
      BY <1>3, <3>1
    <3>2. CASE k # n
      BY <1>3, <2>2, <3>2 DEF Recursion
    <3> QED
      BY <3>1, <3>2
  <2>7. Recursion(h, V, n, first, step)
    BY <2>4, <2>5, <2>6 DEF Recursion
  <2> QED
    BY <1>3, <2>7
<1> QED
  BY <1>4, <1>5

\* Totals adds up the values of a sequence one by one.
LEMMA TotalsSteps ==
  ASSUME NEW f \in Seq(Nat)
  PROVE  /\ Totals(f) \in [0 .. Len(f) -> Nat]
         /\ Totals(f)[0] = 0
         /\ \A n \in 1 .. Len(f) : Totals(f)[n] = Totals(f)[n - 1] + f[n]
<1> DEFINE m == Len(f)
           step == [n \in 1 .. m |-> [sum \in Nat |-> sum + f[n]]]
           Steps(g) == g = [n \in 0 .. m |-> IF n = 0 THEN 0 ELSE g[n - 1] + f[n]]
<1>1. m \in Nat /\ \A n \in 1 .. m : f[n] \in Nat
  BY LenProperties
<1>2. step \in [1 .. m -> [Nat -> Nat]]
  BY <1>1
<1>3. \A n \in 1 .. m, sum \in Nat : step[n][sum] = sum + f[n]
  OBVIOUS
<1> HIDE DEF step, m
<1>4. PICK g : Recursion(g, Nat, m, 0, step)
  BY <1>1, <1>2, FiniteRecursion
<1>5. Steps(g)
  <2>1. g = [n \in 0 .. m |-> g[n]]
    BY <1>4 DEF Recursion
  <2>2. ASSUME NEW n \in 0 .. m PROVE g[n] = IF n = 0 THEN 0 ELSE g[n - 1] + f[n]
    <3>1. CASE n = 0
      BY <1>4, <3>1 DEF Recursion
    <3>2. CASE n # 0
      <4>1. n \in 1 .. m /\ g[n - 1] \in Nat
        BY <1>1, <1>4, <3>2 DEF Recursion
      <4>2. g[n] = step[n][g[n - 1]]
        BY <1>4, <4>1 DEF Recursion
      <4> QED
        BY <1>3, <3>2, <4>1, <4>2
    <3> QED
      BY <3>1, <3>2
  <2> QED
    BY <2>1, <2>2
<1>6. Totals(f) = CHOOSE h : Steps(h)
  BY Zenon DEF Totals, m
<1> HIDE DEF Steps
<1>7. Steps(Totals(f))
  BY <1>5, <1>6, Zenon
<1> DEFINE h == Totals(f)
<1>8. h = [n \in 0 .. m |-> IF n = 0 THEN 0 ELSE h[n - 1] + f[n]]
  BY <1>7 DEF Steps
<1> HIDE DEF h
<1>9. h[0] = 0 /\ \A n \in 1 .. m : h[n] = h[n - 1] + f[n]
  BY <1>1, <1>8
<1>10. h \in [0 .. m -> Nat]
  <2> DEFINE bad == {n \in 0 .. m : h[n] \notin Nat}
  <2>1. ASSUME bad # {} PROVE FALSE
    <3>1. PICK n \in bad : \A k \in bad : n <= k
      <4>1. bad \in SUBSET Nat
        BY <1>1
      <4> HIDE DEF bad
      <4> QED
        BY <2>1, <4>1, LeastNatural
    <3>2. CASE n = 0
      BY <1>9, <3>1, <3>2
    <3>3. CASE n # 0
      <4>1. n - 1 \in 0 .. m /\ n \in 1 .. m /\ h[n - 1] \in Nat
        BY <1>1, <3>1, <3>3
      <4> QED
        BY <1>1, <1>9, <3>1, <4>1
    <3> QED
      BY <3>2, <3>3
  <2> QED
    BY <1>8, <2>1
<1> QED
  BY <1>9, <1>10 DEF h, m

\* A total is at most a later one.
LEMMA TotalsGrow ==
  ASSUME NEW f \in Seq(Nat), NEW k \in 0 .. Len(f), NEW n \in 0 .. Len(f), k <= n
  PROVE  Totals(f)[k] <= Totals(f)[n]
<1> DEFINE t == Totals(f)
           bad == {i \in 0 .. Len(f) : k <= i /\ ~(t[k] <= t[i])}
<1>1. Len(f) \in Nat /\ \A i \in 1 .. Len(f) : f[i] \in Nat
  BY LenProperties
<1>2. /\ t \in [0 .. Len(f) -> Nat]
      /\ \A i \in 1 .. Len(f) : t[i] = t[i - 1] + f[i]
  BY TotalsSteps
<1> HIDE DEF t
<1>3. ASSUME bad # {} PROVE FALSE
  <2>1. PICK i \in bad : \A j \in bad : i <= j
    <3>1. bad \in SUBSET Nat
      BY <1>1
    <3> HIDE DEF bad
    <3> QED
      BY <1>3, <3>1, LeastNatural
  <2>2. i \in 1 .. Len(f) /\ i - 1 \in 0 .. Len(f) /\ i # k
    BY <1>1, <1>2, <2>1
  <2>3. i - 1 \notin bad
    BY <1>1, <2>1, <2>2
  <2>4. t[k] <= t[i - 1]
    BY <1>1, <2>1, <2>2, <2>3
  <2>5. t[i] = t[i - 1] + f[i] /\ f[i] \in Nat /\ t[i - 1] \in Nat /\ t[k] \in Nat
    BY <1>1, <1>2, <2>2
  <2> QED
    BY <2>1, <2>4, <2>5
<1>4. t[k] <= t[n]
  BY <1>3
<1> QED
  BY <1>4 DEF t

\* Smaller values have a smaller total.
LEMMA TotalsCompare ==
  ASSUME NEW f \in Seq(Nat), NEW g \in Seq(Nat), Len(f) = Len(g),
         \A i \in 1 .. Len(f) : f[i] <= g[i],
         NEW n \in 0 .. Len(f)
  PROVE  Totals(f)[n] <= Totals(g)[n]
<1> DEFINE t == Totals(f)
           u == Totals(g)
           bad == {i \in 0 .. Len(f) : ~(t[i] <= u[i])}
<1>1. /\ Len(f) \in Nat /\ \A i \in 1 .. Len(f) : f[i] \in Nat /\ g[i] \in Nat
  BY LenProperties
<1>2. /\ t \in [0 .. Len(f) -> Nat]
      /\ t[0] = 0
      /\ \A i \in 1 .. Len(f) : t[i] = t[i - 1] + f[i]
  BY TotalsSteps
<1>3. /\ u \in [0 .. Len(f) -> Nat]
      /\ u[0] = 0
      /\ \A i \in 1 .. Len(f) : u[i] = u[i - 1] + g[i]
  BY TotalsSteps
<1> HIDE DEF t, u
<1>4. ASSUME bad # {} PROVE FALSE
  <2>1. PICK i \in bad : \A j \in bad : i <= j
    <3>1. bad \in SUBSET Nat
      BY <1>1
    <3> HIDE DEF bad
    <3> QED
      BY <1>4, <3>1, LeastNatural
  <2>2. i \in 1 .. Len(f) /\ i - 1 \in 0 .. Len(f)
    BY <1>1, <1>2, <1>3, <2>1
  <2>3. t[i - 1] <= u[i - 1]
    BY <1>1, <2>1, <2>2
  <2>4. t[i] = t[i - 1] + f[i] /\ u[i] = u[i - 1] + g[i] /\ f[i] <= g[i]
    BY <1>2, <1>3, <2>2
  <2>5. t[i - 1] \in Nat /\ u[i - 1] \in Nat /\ f[i] \in Nat /\ g[i] \in Nat
    BY <1>1, <1>2, <1>3, <2>2
  <2> QED
    BY <2>1, <2>3, <2>4, <2>5
<1>5. t[n] <= u[n]
  BY <1>4
<1> QED
  BY <1>5 DEF t, u

\* Values that are not 0 add up to at least their number.
LEMMA TotalsCount ==
  ASSUME NEW f \in Seq(Nat), \A i \in 1 .. Len(f) : f[i] # 0
  PROVE  Len(f) <= Totals(f)[Len(f)]
<1> DEFINE t == Totals(f)
           bad == {i \in 0 .. Len(f) : ~(i <= t[i])}
<1>1. Len(f) \in Nat /\ \A i \in 1 .. Len(f) : f[i] \in Nat
  BY LenProperties
<1>2. /\ t \in [0 .. Len(f) -> Nat]
      /\ t[0] = 0
      /\ \A i \in 1 .. Len(f) : t[i] = t[i - 1] + f[i]
  BY TotalsSteps
<1> HIDE DEF t
<1>3. ASSUME bad # {} PROVE FALSE
  <2>1. PICK i \in bad : \A j \in bad : i <= j
    <3>1. bad \in SUBSET Nat
      BY <1>1
    <3> HIDE DEF bad
    <3> QED
      BY <1>3, <3>1, LeastNatural
  <2>2. i \in 1 .. Len(f) /\ i - 1 \in 0 .. Len(f)
    BY <1>1, <1>2, <2>1
  <2>3. i - 1 <= t[i - 1]
    BY <1>1, <2>1, <2>2
  <2>4. t[i] = t[i - 1] + f[i] /\ f[i] \in Nat /\ f[i] # 0 /\ t[i - 1] \in Nat
    BY <1>1, <1>2, <2>2
  <2> QED
    BY <2>1, <2>2, <2>3, <2>4
<1>4. Len(f) <= t[Len(f)]
  BY <1>1, <1>3
<1> QED
  BY <1>4 DEF t

-----------------------------------------------------------------------------
(***************************************************************************)
(* How large the fields are.                                               *)
(***************************************************************************)

\* What a 16 bit integer makes of a number.
LEMMA Wrapped ==
  ASSUME NEW n \in Nat
  PROVE  n % Limit \in 0 .. Limit - 1 /\ n % Limit <= n /\ (n < Limit => n % Limit = n)
BY LimitAssumption DEF HeaderSize

\* The fields by their kind.
LEMMA FieldKinds ==
  ASSUME NEW field \in Field
  PROVE  \/ field.kind \in {"int", "string", "array"} /\ field.size \in Nat
         \/ /\ field.kind = "list" /\ field.sizes \in Seq(Nat)
            /\ field = [kind |-> "list", sizes |-> field.sizes]
<1>1. CASE field \in [kind: {"int"}, size: IntSizes]
  BY <1>1, SizesAssumption
<1>2. CASE field \in [kind: {"string"}, size: StringSizes]
  BY <1>2, SizesAssumption
<1>3. CASE field \in [kind: {"array"}, size: {n * int : n \in 0 .. MaxElements, int \in IntSizes}]
  <2>1. \A n \in 0 .. MaxElements, int \in IntSizes : n \in Nat /\ int \in Nat
    BY MaxAssumption, SizesAssumption
  <2>2. \A n \in Nat, int \in Nat : n * int \in Nat
    OBVIOUS
  <2> QED
    BY <1>3, <2>1, <2>2
<1>4. CASE field \in [kind: {"list"}, sizes: BoundedSeq(StringSizes, MaxElements)]
  <2>1. PICK m \in 0 .. MaxElements : field.sizes \in [1 .. m -> StringSizes]
    BY <1>4, MaxAssumption DEF BoundedSeq, SeqOf
  <2>2. m \in Nat /\ field.sizes \in [1 .. m -> Nat]
    BY <2>1, MaxAssumption, SizesAssumption
  <2>3. field.sizes \in Seq(Nat)
    BY <2>2, SeqDef
  <2>4. field.kind = "list" /\ field = [kind |-> "list", sizes |-> field.sizes]
    BY <1>4
  <2> QED
    BY <2>3, <2>4
<1> QED
  BY <1>1, <1>2, <1>3, <1>4 DEF Field

\* What is written for each element of a list is a number of bytes.
LEMMA ElementTypes ==
  ASSUME NEW list \in Seq(Nat)
  PROVE  /\ ElementBytes(list) \in Seq(Nat)
         /\ Len(ElementBytes(list)) = Len(list)
         /\ \A i \in 1 .. Len(list) : /\ ElementBytes(list)[i] = ArraySize + list[i]
                                      /\ list[i] \in Nat
<1>1. Len(list) \in Nat /\ DOMAIN list = 1 .. Len(list) /\ \A i \in 1 .. Len(list) : list[i] \in Nat
  BY LenProperties
<1>2. ElementBytes(list) \in [1 .. Len(list) -> Nat]
  BY <1>1 DEF ElementBytes, ArraySize
<1>3. ElementBytes(list) \in Seq(Nat)
  BY <1>1, <1>2, SeqDef
<1>4. Len(ElementBytes(list)) = Len(list)
  BY <1>1, <1>2, <1>3, LenProperties
<1> QED
  BY <1>1, <1>3, <1>4 DEF ElementBytes

\* A field is never measured larger than what is written for it.  It is measured
\* smaller when the size of a string does not fit.
LEMMA MeasuredField ==
  ASSUME NEW field \in Field
  PROVE  GetSize(field) \in Nat /\ BytesOf(field) \in Nat /\ GetSize(field) <= BytesOf(field)
<1>1. CASE field.kind \in {"int", "array"}
  BY <1>1, FieldKinds DEF GetSize, BytesOf, ArraySize
<1>2. CASE field.kind = "string"
  BY <1>2, FieldKinds, Wrapped DEF GetSize, BytesOf, GetStringSize, ArraySize
<1>3. CASE field.kind = "list"
  <2> DEFINE list == field.sizes
             measured == [i \in DOMAIN list |-> GetStringSize(list[i])]
  <2>1. list \in Seq(Nat)
    BY <1>3, FieldKinds
  <2>2. /\ Len(list) \in Nat /\ DOMAIN list = 1 .. Len(list)
        /\ \A i \in 1 .. Len(list) : list[i] \in Nat
    BY <2>1, LenProperties
  <2>3. ASSUME NEW i \in 1 .. Len(list)
        PROVE  GetStringSize(list[i]) \in Nat /\ GetStringSize(list[i]) <= ArraySize + list[i]
    <3>1. ArraySize + list[i] \in Nat
      BY <2>2 DEF ArraySize
    <3> HIDE DEF list
    <3> QED
      BY <3>1, Wrapped DEF GetStringSize
  <2>4. measured \in [1 .. Len(list) -> Nat]
    BY <2>2, <2>3
  <2>5. measured \in Seq(Nat)
    BY <2>2, <2>4, SeqDef
  <2>6. Len(measured) = Len(list)
    BY <2>2, <2>4, <2>5, LenProperties
  <2>7. \A i \in 1 .. Len(list) : measured[i] <= ElementBytes(list)[i]
    BY <2>1, <2>2, <2>3, ElementTypes
  <2>8. GetSize(field) = ArraySize + Totals(measured)[Len(list)]
    BY <1>3 DEF GetSize
  <2>9. BytesOf(field) = ArraySize + Totals(ElementBytes(list))[Len(list)]
    BY <1>3 DEF BytesOf
  <2> HIDE DEF measured, list
  <2>10. Totals(measured)[Len(list)] <= Totals(ElementBytes(list))[Len(list)]
    BY <2>1, <2>2, <2>5, <2>6, <2>7, ElementTypes, TotalsCompare
  <2>11. /\ Totals(measured)[Len(list)] \in Nat
         /\ Totals(ElementBytes(list))[Len(list)] \in Nat
    BY <2>1, <2>2, <2>5, <2>6, ElementTypes, TotalsSteps
  <2> QED
    BY <2>8, <2>9, <2>10, <2>11 DEF ArraySize
<1> QED
  BY <1>1, <1>2, <1>3, FieldKinds

\* The bytes of each field of a message.
FieldBytes(message) == [i \in DOMAIN message |-> BytesOf(message[i])]

\* A message is never measured larger than what is written for it.
LEMMA MeasuredMessage ==
  ASSUME NEW message \in Seq(Field)
  PROVE  /\ FieldBytes(message) \in Seq(Nat) /\ Len(FieldBytes(message)) = Len(message)
         /\ \A i \in 1 .. Len(message) : FieldBytes(message)[i] = BytesOf(message[i])
         /\ Occupied(message) = Totals(FieldBytes(message))[Len(message)]
         /\ Occupied(message) \in Nat /\ Measured(message) \in Nat
         /\ Measured(message) <= Occupied(message)
<1> DEFINE measured == [i \in DOMAIN message |-> GetSize(message[i])]
           occupied == FieldBytes(message)
           F == Field
<1> HIDE DEF F
<1>1. /\ Len(message) \in Nat /\ DOMAIN message = 1 .. Len(message)
      /\ \A i \in 1 .. Len(message) : message[i] \in F
  <2>1. message \in Seq(F)
    BY DEF F
  <2> QED
    BY <2>1, LenProperties
<1>2. ASSUME NEW i \in 1 .. Len(message)
      PROVE  /\ GetSize(message[i]) \in Nat /\ BytesOf(message[i]) \in Nat
             /\ GetSize(message[i]) <= BytesOf(message[i])
  <2>1. message[i] \in Field
    BY <1>1 DEF F
  <2> QED
    BY <2>1, MeasuredField
<1>3. /\ measured \in [1 .. Len(message) -> Nat] /\ occupied \in [1 .. Len(message) -> Nat]
      /\ \A i \in 1 .. Len(message) : /\ measured[i] = GetSize(message[i])
                                      /\ occupied[i] = BytesOf(message[i])
  BY <1>1, <1>2 DEF FieldBytes
<1>4. Measured(message) = Totals(measured)[Len(message)]
  BY DEF Measured
<1>5. Occupied(message) = Totals(occupied)[Len(message)]
  BY DEF Occupied, FieldBytes
<1> HIDE DEF measured, occupied
<1>6. measured \in Seq(Nat) /\ occupied \in Seq(Nat)
  <2>1. \A f \in [1 .. Len(message) -> Nat] : f \in Seq(Nat)
    BY <1>1, SeqDef
  <2> QED
    BY <1>3, <2>1
<1>7. Len(measured) = Len(message) /\ Len(occupied) = Len(message)
  BY <1>1, <1>3, <1>6, LenProperties
<1>8. \A i \in 1 .. Len(measured) : measured[i] <= occupied[i]
  BY <1>2, <1>3, <1>7
<1>9. Totals(measured)[Len(message)] <= Totals(occupied)[Len(message)]
  BY <1>1, <1>6, <1>7, <1>8, TotalsCompare
<1>10. Measured(message) \in Nat /\ Occupied(message) \in Nat
  BY <1>1, <1>4, <1>5, <1>6, <1>7, TotalsSteps
<1> QED
  BY <1>3, <1>4, <1>5, <1>6, <1>7, <1>9, <1>10 DEF occupied

-----------------------------------------------------------------------------
(***************************************************************************)
(* Reading.                                                                *)
(***************************************************************************)

\* The first n elements of a list.
Beginning(list, n) == [i \in 1 .. n |-> list[i]]

\* They are a list to which the next element is appended.
LEMMA BeginningSteps ==
  ASSUME NEW S, NEW list \in Seq(S)
  PROVE  /\ Beginning(list, 0) = <<>> /\ Beginning(list, Len(list)) = list
         /\ \A n \in 0 .. Len(list) : /\ Beginning(list, n) \in Seq(S)
                                      /\ Len(Beginning(list, n)) = n
         /\ \A n \in 1 .. Len(list) :
              Beginning(list, n) = Append(Beginning(list, n - 1), list[n])
<1>1. Len(list) \in Nat /\ list \in [1 .. Len(list) -> S]
  BY LenProperties
<1>2. ASSUME NEW n \in 0 .. Len(list)
      PROVE  Beginning(list, n) \in Seq(S) /\ Len(Beginning(list, n)) = n
  <2>1. n \in Nat /\ Beginning(list, n) \in [1 .. n -> S]
    BY <1>1 DEF Beginning
  <2>2. Beginning(list, n) \in Seq(S)
    BY <2>1, SeqDef
  <2> QED
    BY <2>1, <2>2, LenProperties
<1>3. Beginning(list, 0) = <<>>
  <2>1. Beginning(list, 0) \in Seq(S) /\ Len(Beginning(list, 0)) = 0
    BY <1>1, <1>2
  <2> QED
    BY <2>1, EmptySeq
<1>4. Beginning(list, Len(list)) = list
  BY <1>1 DEF Beginning
<1>5. ASSUME NEW n \in 1 .. Len(list)
      PROVE  Beginning(list, n) = Append(Beginning(list, n - 1), list[n])
  <2> DEFINE longer == Beginning(list, n)
             shorter == Beginning(list, n - 1)
  <2>1. n \in Nat /\ n \in 0 .. Len(list) /\ n - 1 \in 0 .. Len(list) /\ list[n] \in S
    BY <1>1
  <2>2. longer \in Seq(S) /\ Len(longer) = n /\ shorter \in Seq(S) /\ Len(shorter) = n - 1
    BY <1>2, <2>1
  <2>3. /\ Append(shorter, list[n]) \in Seq(S)
        /\ Len(Append(shorter, list[n])) = n
        /\ \A i \in 1 .. n - 1 : Append(shorter, list[n])[i] = shorter[i]
        /\ Append(shorter, list[n])[n] = list[n]
    <3> HIDE DEF shorter
    <3> QED
      BY <2>1, <2>2, AppendProperties
  <2>4. \A i \in 1 .. n : longer[i] = Append(shorter, list[n])[i]
    <3>1. \A i \in 1 .. n : longer[i] = list[i]
      BY DEF Beginning
    <3>2. \A i \in 1 .. n - 1 : shorter[i] = list[i]
      BY DEF Beginning
    <3> QED
      BY <2>1, <2>3, <3>1, <3>2
  <2> HIDE DEF longer, shorter
  <2>5. longer = Append(shorter, list[n])
    BY <2>1, <2>2, <2>3, <2>4, SeqEqual
  <2> QED
    BY <2>5 DEF longer, shorter
<1> QED
  BY <1>2, <1>3, <1>4, <1>5

\* The loop over the elements of a list goes on by one element at a time.
LEMMA ElementsSteps ==
  ASSUME NEW from \in Nat, NEW sizes \in Seq(Nat)
  PROVE  /\ Elements(from, sizes)[0] = [offset |-> from, sizes |-> <<>>]
         /\ \A n \in 1 .. Len(sizes) :
              Elements(from, sizes)[n] = ReadElement(Elements(from, sizes)[n - 1], sizes[n])
<1> DEFINE V == [offset: Nat, sizes: Seq(Nat)]
           first == [offset |-> from, sizes |-> <<>>]
           m == Len(sizes)
           step == [n \in 1 .. m |-> [list \in V |-> ReadElement(list, sizes[n])]]
           Steps(g) == g = [n \in 0 .. m |-> IF n = 0 THEN first
                                             ELSE ReadElement(g[n - 1], sizes[n])]
<1>1. m \in Nat /\ \A n \in 1 .. m : sizes[n] \in Nat
  BY LenProperties
<1>2. first \in V
  BY EmptySeq
<1>3. ASSUME NEW list \in V, NEW n \in Nat PROVE ReadElement(list, n) \in V
  <2>1. list.offset \in Nat /\ list.sizes \in Seq(Nat)
    OBVIOUS
  <2>2. \A k \in {0, n} : PastSized(list.offset, k) \in Nat
    <3>1. ASSUME NEW k \in {0, n} PROVE PastSized(list.offset, k) \in Nat
      <4>1. list.offset + ArraySize + k \in Nat
        BY <2>1 DEF ArraySize
      <4>2. (list.offset + ArraySize + k) % Limit \in 0 .. Limit - 1
        BY <4>1, Wrapped
      <4> QED
        BY <4>2, LimitAssumption DEF PastSized
    <3> QED
      BY <3>1
  <2>3. \A k \in {0, n} : Append(list.sizes, k) \in Seq(Nat)
    BY <2>1, AppendProperties
  <2> QED
    BY <2>1, <2>2, <2>3 DEF ReadElement
<1>4. step \in [1 .. m -> [V -> V]]
  BY <1>1, <1>3
<1>5. \A n \in 1 .. m, list \in V : step[n][list] = ReadElement(list, sizes[n])
  OBVIOUS
<1> HIDE DEF step, m, V, first
<1>6. PICK g : Recursion(g, V, m, first, step)
  BY <1>1, <1>2, <1>4, FiniteRecursion
<1>7. Steps(g)
  <2>1. g = [n \in 0 .. m |-> g[n]]
    BY <1>6 DEF Recursion
  <2>2. ASSUME NEW n \in 0 .. m
        PROVE  g[n] = IF n = 0 THEN first ELSE ReadElement(g[n - 1], sizes[n])
    <3>1. CASE n = 0
      BY <1>6, <3>1 DEF Recursion
    <3>2. CASE n # 0
      <4>1. n \in 1 .. m /\ g[n - 1] \in V
        BY <1>1, <1>6, <3>2 DEF Recursion
      <4>2. g[n] = step[n][g[n - 1]]
        BY <1>6, <4>1 DEF Recursion
      <4> QED
        BY <1>5, <3>2, <4>1, <4>2
    <3> QED
      BY <3>1, <3>2
  <2> QED
    BY <2>1, <2>2
<1>8. Elements(from, sizes) = CHOOSE h : Steps(h)
  BY Zenon DEF Elements, m, first
<1> HIDE DEF Steps
<1>9. Steps(Elements(from, sizes))
  BY <1>7, <1>8, Zenon
<1> DEFINE h == Elements(from, sizes)
<1>10. h = [n \in 0 .. m |-> IF n = 0 THEN first ELSE ReadElement(h[n - 1], sizes[n])]
  BY <1>9 DEF Steps
<1> HIDE DEF h
<1>11. h[0] = first /\ \A n \in 1 .. m : h[n] = ReadElement(h[n - 1], sizes[n])
  BY <1>1, <1>10
<1> QED
  BY <1>11 DEF h, first, m

\* What has its size before it is read when all of it is there.
LEMMA SizedRead ==
  ASSUME NEW from \in Nat, NEW n \in Nat, size \in Nat, size < Limit,
         from + ArraySize + n <= size
  PROVE  SizedAvailable(from, n) /\ PastSized(from, n) = from + ArraySize + n
<1>1. from + ArraySize \in Nat /\ from + ArraySize + n \in Nat
  BY DEF ArraySize
<1>2. (from + ArraySize) % Limit = from + ArraySize
  <2>1. from + ArraySize < Limit
    BY LimitAssumption DEF ArraySize
  <2> QED
    BY <1>1, <2>1, Wrapped
<1>3. (from + ArraySize + n) % Limit = from + ArraySize + n
  <2>1. from + ArraySize + n < Limit
    BY <1>1, LimitAssumption
  <2> QED
    BY <1>1, <2>1, Wrapped
<1>4. from + ArraySize <= size
  BY DEF ArraySize
<1> QED
  BY <1>2, <1>3, <1>4 DEF SizedAvailable, PastSized, Available

\* So are the elements of a list, each from where the one before it ends.
LEMMA ElementsRead ==
  ASSUME NEW from \in Nat, NEW list \in Seq(Nat), size \in Nat, size < Limit,
         from + Totals(ElementBytes(list))[Len(list)] <= size
  PROVE  \A n \in 0 .. Len(list) :
           Elements(from, list)[n] =
             [offset |-> from + Totals(ElementBytes(list))[n], sizes |-> Beginning(list, n)]
<1> DEFINE t == Totals(ElementBytes(list))
           e == Elements(from, list)
           bad == {n \in 0 .. Len(list) :
                     e[n] # [offset |-> from + t[n], sizes |-> Beginning(list, n)]}
<1>1. /\ Len(list) \in Nat
      /\ \A n \in 1 .. Len(list) : list[n] \in Nat
  BY LenProperties
<1>2. /\ t \in [0 .. Len(list) -> Nat] /\ t[0] = 0
      /\ \A n \in 1 .. Len(list) : t[n] = t[n - 1] + (ArraySize + list[n])
  BY ElementTypes, TotalsSteps
<1>3. \A n \in 0 .. Len(list) : t[n] <= t[Len(list)]
  BY <1>1, ElementTypes, TotalsGrow
<1>4. /\ e[0] = [offset |-> from, sizes |-> <<>>]
      /\ \A n \in 1 .. Len(list) : e[n] = ReadElement(e[n - 1], list[n])
  BY ElementsSteps
<1>5. from + t[Len(list)] <= size
  OBVIOUS
<1> HIDE DEF t, e
<1>6. ASSUME bad # {} PROVE FALSE
  <2>1. PICK n \in bad : \A k \in bad : n <= k
    <3>1. bad \in SUBSET Nat
      BY <1>1
    <3> HIDE DEF bad
    <3> QED
      BY <1>6, <3>1, LeastNatural
  <2>2. CASE n = 0
    <3>1. Beginning(list, 0) = <<>>
      BY BeginningSteps
    <3>2. from + t[0] = from
      BY <1>2
    <3> QED
      BY <1>4, <2>1, <2>2, <3>1, <3>2
  <2>3. CASE n # 0
    <3>1. n \in 1 .. Len(list) /\ n - 1 \in 0 .. Len(list) /\ n - 1 \notin bad
      BY <1>1, <2>1, <2>3
    <3> DEFINE before == from + t[n - 1]
               next == list[n]
    <3>2. e[n - 1] = [offset |-> before, sizes |-> Beginning(list, n - 1)]
      BY <3>1
    <3>3. before \in Nat /\ next \in Nat /\ from + t[n] = before + ArraySize + next
      <4>1. /\ t[n - 1] \in Nat /\ next \in Nat
            /\ t[n] = t[n - 1] + (ArraySize + next)
        BY <1>1, <1>2, <3>1
      <4>2. \A i, j \in Nat : from + i \in Nat /\ from + (i + (2 + j)) = (from + i) + 2 + j
        OBVIOUS
      <4> HIDE DEF next, bad
      <4> QED
        BY <4>1, <4>2 DEF ArraySize
    <3>4. before + ArraySize + next <= size
      <4>1. t[n] \in Nat /\ t[Len(list)] \in Nat /\ t[n] <= t[Len(list)]
        <5>1. n \in 0 .. Len(list) /\ Len(list) \in 0 .. Len(list)
          BY <1>1, <3>1
        <5> HIDE DEF bad, next
        <5> QED
          BY <1>2, <1>3, <5>1
      <4> HIDE DEF before, next, bad
      <4> QED
        BY <1>5, <3>3, <4>1
    <3>5. Beginning(list, n) = Append(Beginning(list, n - 1), next)
      BY <3>1, BeginningSteps
    <3>6. e[n] = ReadElement(e[n - 1], next)
      BY <1>4, <3>1
    <3> HIDE DEF before, next
    <3>7. SizedAvailable(before, next) /\ PastSized(before, next) = from + t[n]
      BY <3>3, <3>4, SizedRead
    <3>8. e[n] = [offset |-> from + t[n], sizes |-> Beginning(list, n)]
      <4>1. e[n - 1].offset = before /\ e[n - 1].sizes = Beginning(list, n - 1)
        BY <3>2
      <4> HIDE DEF bad
      <4> QED
        BY <3>5, <3>6, <3>7, <4>1 DEF ReadElement
    <3> QED
      BY <2>1, <3>8
  <2> QED
    BY <2>2, <2>3
<1>7. \A n \in 0 .. Len(list) :
        e[n] = [offset |-> from + t[n], sizes |-> Beginning(list, n)]
  BY <1>6
<1> QED
  BY <1>7 DEF e, t

-----------------------------------------------------------------------------
(***************************************************************************)
(* The invariant.                                                          *)
(***************************************************************************)

TypeOK ==
  /\ type \in Types
  /\ fields \in Seq(Field) /\ read \in Seq(Field)
  /\ size \in 0 .. Limit - 1
  /\ onDisk \in Nat /\ offset \in Nat

\* A message that is written was measured exactly.
WrittenExactly ==
  status \in {"written", "reading"} =>
    size = Occupied(fields) /\ onDisk <= HeaderSize + size

Unread == status \in {"composed", "written"} => read = <<>> /\ offset = 0

\* The reader has read the first fields, and its offset is where they end.
ReadInOrder ==
  status = "reading" =>
    /\ onDisk = HeaderSize + size
    /\ Len(read) <= Len(fields)
    /\ read = Beginning(fields, Len(read))
    /\ offset = Totals(FieldBytes(fields))[Len(read)]

IInv ==
  /\ TypeOK /\ WrittenExactly /\ Unread /\ ReadInOrder
  /\ DeliveredWhole /\ WholeIsDelivered

\* The next field to be read is all there.
LEMMA NextField ==
  ASSUME IInv, status = "reading", Len(read) < Len(fields)
  PROVE  /\ Len(read) \in Nat /\ Len(read) + 1 \in 1 .. Len(fields)
         /\ fields[Len(read) + 1] \in Field
         /\ offset + BytesOf(fields[Len(read) + 1])
              = Totals(FieldBytes(fields))[Len(read) + 1]
         /\ offset + BytesOf(fields[Len(read) + 1]) <= size
         /\ BytesOf(fields[Len(read) + 1]) \in Nat
<1> DEFINE F == Field
           k == Len(read) + 1
           t == Totals(FieldBytes(fields))
<1>1. fields \in Seq(F) /\ read \in Seq(F)
  BY DEF IInv, TypeOK
<1> HIDE DEF F
<1>2. /\ Len(read) \in Nat /\ Len(fields) \in Nat /\ k \in 1 .. Len(fields)
      /\ k - 1 = Len(read) /\ fields[k] \in F
  BY <1>1, LenProperties
<1>3. /\ FieldBytes(fields) \in Seq(Nat) /\ Len(FieldBytes(fields)) = Len(fields)
      /\ FieldBytes(fields)[k] = BytesOf(fields[k])
      /\ Occupied(fields) = t[Len(fields)]
  BY <1>1, <1>2, MeasuredMessage DEF F
<1> HIDE DEF k
<1>4. t[k] = t[k - 1] + BytesOf(fields[k])
  BY <1>2, <1>3, TotalsSteps
<1>5. t[k] <= t[Len(fields)]
  <2>1. k \in 0 .. Len(fields) /\ Len(fields) \in 0 .. Len(fields) /\ k <= Len(fields)
    BY <1>2
  <2> QED
    BY <1>3, <2>1, TotalsGrow
<1>6. offset = t[k - 1] /\ size = t[Len(fields)]
  BY <1>2, <1>3 DEF IInv, ReadInOrder, WrittenExactly
<1>7. BytesOf(fields[k]) \in Nat
  BY <1>2, MeasuredField DEF F
<1> HIDE DEF t
<1>8. offset + BytesOf(fields[k]) = t[k] /\ offset + BytesOf(fields[k]) <= size
  BY <1>4, <1>5, <1>6
<1> QED
  BY <1>2, <1>7, <1>8 DEF F, k, t

\* It is read as it was written, and the offset moves past it.
LEMMA NextFieldRead ==
  ASSUME IInv, ReadField \/ ReadList
  PROVE  /\ read' = Append(read, fields[Len(read) + 1])
         /\ offset' = offset + BytesOf(fields[Len(read) + 1])
         /\ status = "reading" /\ Len(read) < Len(fields)
         /\ UNCHANGED <<type, fields, status, size, onDisk>>
<1> DEFINE field == fields[Len(read) + 1]
<1>1. status = "reading" /\ Len(read) < Len(fields)
  BY DEF ReadField, ReadList
<1>2. field \in Field /\ offset + BytesOf(field) <= size /\ BytesOf(field) \in Nat
  BY <1>1, NextField
<1>3. offset \in Nat /\ size \in Nat /\ size < Limit
  BY LimitAssumption DEF IInv, TypeOK
<1>4. CASE ReadField /\ field.kind = "int"
  <2>1. field.size \in Nat /\ BytesOf(field) = field.size
    BY <1>2, <1>4, FieldKinds DEF BytesOf
  <2>2. Available(offset, field.size) /\ (offset + field.size) % Limit = offset + field.size
    <3>1. offset + field.size \in Nat /\ offset + field.size < Limit
      BY <1>2, <1>3, <2>1, LimitAssumption
    <3> QED
      BY <1>2, <2>1, <3>1, Wrapped DEF Available
  <2> QED
    BY <1>1, <1>4, <2>1, <2>2 DEF ReadField
<1>5. CASE ReadField /\ field.kind # "int"
  <2>1. /\ field.kind \in {"string", "array"} /\ field.size \in Nat
        /\ BytesOf(field) = ArraySize + field.size
    BY <1>2, <1>5, FieldKinds DEF BytesOf, ReadField
  <2>2. offset + ArraySize + field.size <= size
    BY <1>2, <1>3, <2>1 DEF ArraySize
  <2>3. /\ SizedAvailable(offset, field.size)
        /\ PastSized(offset, field.size) = offset + BytesOf(field)
    <3>1. PastSized(offset, field.size) = offset + ArraySize + field.size
      BY <1>3, <2>1, <2>2, SizedRead
    <3> QED
      BY <1>3, <2>1, <2>2, <3>1, SizedRead DEF ArraySize
  <2> QED
    BY <1>1, <1>5, <2>3 DEF ReadField
<1>6. CASE ReadList
  <2> DEFINE list == field.sizes
             t == Totals(ElementBytes(list))
             from == offset + ArraySize
  <2>1. /\ field.kind = "list" /\ list \in Seq(Nat)
        /\ field = [kind |-> "list", sizes |-> list]
    BY <1>2, <1>6, FieldKinds DEF ReadList
  <2>2. BytesOf(field) = ArraySize + t[Len(list)]
    BY <2>1 DEF BytesOf
  <2>3. /\ Len(list) \in Nat /\ Len(list) <= t[Len(list)] /\ t[Len(list)] \in Nat
    <3> HIDE DEF list
    <3>1. Len(list) \in Nat /\ Len(list) \in 0 .. Len(list)
      BY <2>1, LenProperties
    <3>2. /\ ElementBytes(list) \in Seq(Nat) /\ Len(ElementBytes(list)) = Len(list)
          /\ \A i \in 1 .. Len(list) : ElementBytes(list)[i] # 0
      BY <2>1, ElementTypes DEF ArraySize
    <3>3. Len(list) <= t[Len(list)]
      BY <3>2, TotalsCount
    <3> QED
      BY <3>1, <3>2, <3>3, TotalsSteps
  <2> HIDE DEF list, t
  <2>4. from \in Nat /\ from + t[Len(list)] <= size /\ from + t[Len(list)] = offset + BytesOf(field)
    BY <1>2, <1>3, <2>2, <2>3 DEF ArraySize
  <2>5. SizedAvailable(offset, Len(list)) /\ PastSized(offset, 0) = from
    <3>1. offset + ArraySize + Len(list) <= size /\ offset + ArraySize + 0 <= size
      BY <1>3, <2>3, <2>4 DEF ArraySize
    <3>2. SizedAvailable(offset, Len(list))
      BY <1>3, <2>3, <3>1, SizedRead
    <3>3. PastSized(offset, 0) = offset + ArraySize + 0
      BY <1>3, <3>1, SizedRead
    <3> QED
      BY <1>3, <3>2, <3>3 DEF ArraySize
  <2> HIDE DEF from
  <2>6. Elements(from, list)[Len(list)] = [offset |-> from + t[Len(list)], sizes |-> list]
    <3>1. Len(list) \in 0 .. Len(list) /\ Beginning(list, Len(list)) = list
      BY <2>1, <2>3, BeginningSteps
    <3> QED
      BY <1>3, <2>1, <2>4, <3>1, ElementsRead DEF t
  <2>7. [field EXCEPT !.sizes = list] = field
    BY <2>1
  <2> QED
    BY <1>1, <1>6, <2>4, <2>5, <2>6, <2>7 DEF ReadList, list
<1> QED
  BY <1>4, <1>5, <1>6

\* Initially.
LEMMA InitialMessage == Init => IInv
<1> DEFINE F == Field
<1>1. <<>> \in Seq(F)
  BY EmptySeq
<1> HIDE DEF F
<1>2. Seq(F) = Seq(Field)
  BY DEF F
<1> QED
  BY <1>1, <1>2, LimitAssumption
  DEF Init, IInv, TypeOK, WrittenExactly, Unread, ReadInOrder, DeliveredWhole, WholeIsDelivered,
      HeaderSize

\* A message is composed, measured and written.
LEMMA WritingKeeps ==
  ASSUME IInv, AddField \/ Write
  PROVE  IInv'
<1>1. /\ type \in Types /\ fields \in Seq(Field) /\ read \in Seq(Field)
      /\ onDisk \in Nat /\ offset \in Nat /\ size \in 0 .. Limit - 1
      /\ read = <<>> /\ offset = 0
  BY DEF IInv, TypeOK, Unread, AddField, Write
<1>2. CASE AddField
  <2>1. fields' \in Seq(Field)
    <3> DEFINE F == Field
    <3>1. PICK field \in F : fields' = Append(fields, field)
      BY <1>2 DEF AddField
    <3>2. fields \in Seq(F)
      BY <1>1 DEF F
    <3> HIDE DEF F
    <3>3. fields' \in Seq(F)
      BY <3>1, <3>2, AppendProperties
    <3> QED
      BY <3>3 DEF F
  <2>2. status' = "composed" /\ UNCHANGED <<type, size, onDisk, offset, read>>
    BY <1>2 DEF AddField
  <2> QED
    BY <1>1, <2>1, <2>2
    DEF IInv, TypeOK, WrittenExactly, Unread, ReadInOrder, DeliveredWhole, WholeIsDelivered
<1>3. CASE Write
  <2> DEFINE required == Measured(fields)
  <2>1. required \in Nat /\ Occupied(fields) \in Nat /\ required <= Occupied(fields)
    BY <1>1, MeasuredMessage
  <2>2. /\ IF TooLarge(required) THEN size' = size /\ onDisk' = onDisk
           ELSE size' = required % Limit /\ onDisk' = HeaderSize + required
        /\ UNCHANGED <<type, fields, offset, read>>
        /\ status' = IF TooLarge(required) THEN "refused"
                     ELSE IF Occupied(fields) > required THEN "overrun"
                     ELSE "written"
    BY <1>3 DEF Write
  <2> HIDE DEF required
  <2>3. TypeOK'
    <3>1. size' \in 0 .. Limit - 1 /\ onDisk' \in Nat
      <4>1. required % Limit \in 0 .. Limit - 1 /\ HeaderSize + required \in Nat
        BY <2>1, Wrapped DEF HeaderSize
      <4> QED
        BY <1>1, <2>2, <4>1
    <3> QED
      BY <1>1, <2>2, <3>1 DEF TypeOK
  <2>4. status' \in {"refused", "overrun", "written"}
    BY <2>2
  <2>5. WrittenExactly'
    <3>1. SUFFICES ASSUME status' = "written"
                   PROVE  size' = Occupied(fields) /\ onDisk' <= HeaderSize + size'
      BY <2>2, <2>4 DEF WrittenExactly
    <3>2. /\ ~TooLarge(required) /\ ~(Occupied(fields) > required)
          /\ size' = required % Limit /\ onDisk' = HeaderSize + required
      BY <2>2, <3>1
    <3>3. required = Occupied(fields) /\ required < Limit
      BY <2>1, <3>2, LimitAssumption DEF TooLarge
    <3>4. required % Limit = required
      BY <2>1, <3>3, Wrapped
    <3> QED
      BY <2>1, <3>2, <3>3, <3>4 DEF HeaderSize
  <2> QED
    BY <1>1, <2>2, <2>3, <2>4, <2>5
    DEF IInv, Unread, ReadInOrder, DeliveredWhole, WholeIsDelivered
<1> QED
  BY <1>2, <1>3

\* The file is cut, or opened: what is rejected then is cut or unknown.
LEMMA OpeningKeeps ==
  ASSUME IInv, Cut \/ Open
  PROVE  IInv'
<1>1. /\ status = "written" /\ UNCHANGED <<type, fields, size, offset, read>>
      /\ TypeOK
  BY DEF IInv, Cut, Open
<1>2. /\ size = Occupied(fields) /\ onDisk <= HeaderSize + size
      /\ read = <<>> /\ offset = 0 /\ onDisk \in Nat /\ size \in Nat
  BY <1>1, LimitAssumption DEF IInv, TypeOK, WrittenExactly, Unread
<1>3. CASE Cut
  <2>1. onDisk' \in Nat /\ onDisk' <= HeaderSize + size /\ status' = "written"
    BY <1>1, <1>2, <1>3 DEF Cut, HeaderSize
  <2> QED
    BY <1>1, <1>2, <2>1
    DEF IInv, TypeOK, WrittenExactly, Unread, ReadInOrder, DeliveredWhole, WholeIsDelivered
<1>4. CASE Open
  <2>1. /\ onDisk' = onDisk
        /\ status' = IF onDisk < HeaderSize THEN "ignored"
                     ELSE IF onDisk < HeaderSize + size \/ ~IsKnown THEN "rejected"
                     ELSE "reading"
    BY <1>4 DEF Open
  <2>2. status' \in {"ignored", "rejected", "reading"} /\ TypeOK'
    BY <1>1, <2>1 DEF TypeOK
  <2>3. CASE status' # "reading"
    <3>1. status' = "rejected" => ~IsKnown' \/ onDisk' < HeaderSize + Occupied(fields')
      BY <1>1, <1>2, <2>1 DEF IsKnown
    <3> QED
      BY <2>2, <2>3, <3>1
      DEF IInv, WrittenExactly, Unread, ReadInOrder, DeliveredWhole, WholeIsDelivered
  <2>4. CASE status' = "reading"
    <3>1. onDisk = HeaderSize + size
      BY <1>2, <2>1, <2>4 DEF HeaderSize
    <3>2. Totals(FieldBytes(fields))[0] = 0
      BY <1>1, MeasuredMessage, TotalsSteps DEF TypeOK
    <3>3. Len(fields) \in Nat /\ Beginning(fields, 0) = <<>> /\ Len(<<>>) = 0
      <4> DEFINE F == Field
      <4>1. fields \in Seq(F)
        BY <1>1 DEF TypeOK
      <4> HIDE DEF F
      <4> QED
        BY <4>1, LenProperties, BeginningSteps, EmptySeq
    <3>4. ReadInOrder'
      BY <1>1, <1>2, <2>1, <3>1, <3>2, <3>3 DEF ReadInOrder
    <3>5. WrittenExactly'
      BY <1>1, <1>2, <2>1 DEF WrittenExactly
    <3> QED
      BY <2>2, <2>4, <3>4, <3>5 DEF IInv, Unread, DeliveredWhole, WholeIsDelivered
  <2> QED
    BY <2>3, <2>4
<1> QED
  BY <1>3, <1>4

\* Fields are read, and the message is delivered.
LEMMA ReadingKeeps ==
  ASSUME IInv, ReadField \/ ReadList \/ Deliver
  PROVE  IInv'
<1> DEFINE F == Field
           t == Totals(FieldBytes(fields))
<1>1. status = "reading" /\ UNCHANGED <<type, fields, size, onDisk>>
  BY NextFieldRead DEF Deliver
<1>2. /\ fields \in Seq(F) /\ read \in Seq(F) /\ onDisk = HeaderSize + size
      /\ size = Occupied(fields) /\ onDisk <= HeaderSize + size
      /\ Len(read) <= Len(fields) /\ read = Beginning(fields, Len(read))
      /\ offset = t[Len(read)]
      /\ TypeOK
  BY <1>1 DEF IInv, TypeOK, WrittenExactly, ReadInOrder
<1> HIDE DEF F
<1>3. CASE ReadField \/ ReadList
  <2> DEFINE n == Len(read)
             k == n + 1
  <2>1. /\ read' = Append(read, fields[k]) /\ offset' = offset + BytesOf(fields[k])
        /\ n < Len(fields) /\ status' = "reading"
    BY <1>1, <1>3, NextFieldRead
  <2>2. /\ n \in Nat /\ k \in 1 .. Len(fields) /\ fields[k] \in F
        /\ offset' = t[k] /\ BytesOf(fields[k]) \in Nat
    BY <1>1, <2>1, NextField DEF F
  <2>3. read' \in Seq(F) /\ Len(read') = k
    BY <1>2, <2>1, <2>2, AppendProperties
  <2>4. offset' \in Nat
    BY <1>2, <2>1, <2>2 DEF TypeOK
  <2>5. read' = Beginning(fields, k)
    <3>1. k - 1 = n
      BY <2>2
    <3>2. read = Beginning(fields, n)
      BY <1>2
    <3> HIDE DEF n, k
    <3>3. Beginning(fields, k) = Append(Beginning(fields, k - 1), fields[k])
      BY <1>2, <2>2, BeginningSteps
    <3> QED
      BY <2>1, <3>1, <3>2, <3>3
  <2>6. Len(fields) \in Nat /\ k <= Len(fields)
    BY <1>2, <2>2, LenProperties
  <2> HIDE DEF k, n, t
  <2>7. TypeOK'
    BY <1>1, <1>2, <2>3, <2>4 DEF TypeOK, F
  <2>8. ReadInOrder'
    BY <1>1, <1>2, <2>2, <2>3, <2>5, <2>6 DEF ReadInOrder, t
  <2>9. WrittenExactly'
    BY <1>1, <1>2, <2>1 DEF WrittenExactly
  <2> QED
    BY <2>1, <2>7, <2>8, <2>9 DEF IInv, Unread, DeliveredWhole, WholeIsDelivered
<1>4. CASE Deliver
  <2>1. Len(read) = Len(fields) /\ status' = "delivered" /\ UNCHANGED <<offset, read>>
    BY <1>4 DEF Deliver
  <2>2. read = fields
    BY <1>2, <2>1, BeginningSteps
  <2>3. offset = Occupied(fields)
    BY <1>2, <2>1, MeasuredMessage DEF F
  <2>4. DeliveredWhole'
    BY <1>1, <1>2, <2>1, <2>2, <2>3 DEF DeliveredWhole
  <2>5. TypeOK'
    BY <1>1, <1>2, <2>1 DEF TypeOK
  <2> QED
    BY <2>1, <2>4, <2>5 DEF IInv, WrittenExactly, Unread, ReadInOrder, WholeIsDelivered
<1> QED
  BY <1>3, <1>4

\* The invariant is inductive.
LEMMA MessageInvariant == IInv /\ [Next]_vars => IInv'
<1> SUFFICES ASSUME IInv, [Next]_vars PROVE IInv'
  OBVIOUS
<1>1. CASE AddField \/ Write
  BY <1>1, WritingKeeps
<1>2. CASE Cut \/ Open
  BY <1>2, OpeningKeeps
<1>3. CASE ReadField \/ ReadList \/ Deliver
  BY <1>3, ReadingKeeps
<1>4. CASE NextMessage
  <2> DEFINE F == Field
  <2>1. <<>> \in Seq(F)
    BY EmptySeq
  <2> HIDE DEF F
  <2>2. Seq(F) = Seq(Field)
    BY DEF F
  <2>3. /\ type' \in Types /\ fields' = <<>> /\ read' = <<>> /\ status' = "composed"
        /\ size' = 0 /\ onDisk' = 0 /\ offset' = 0
    BY <1>4 DEF NextMessage
  <2> QED
    BY <2>1, <2>2, <2>3, LimitAssumption
    DEF IInv, TypeOK, WrittenExactly, Unread, ReadInOrder, DeliveredWhole, WholeIsDelivered,
        HeaderSize
<1>5. CASE UNCHANGED vars
  <2>1. /\ type' = type /\ fields' = fields /\ status' = status /\ size' = size
        /\ onDisk' = onDisk /\ offset' = offset /\ read' = read
    BY <1>5 DEF vars
  <2> QED
    BY <2>1
    DEF IInv, TypeOK, WrittenExactly, Unread, ReadInOrder, DeliveredWhole, WholeIsDelivered, IsKnown
<1> QED
  BY <1>1, <1>2, <1>3, <1>4, <1>5 DEF Next

\* The types, and where the reader is in a message, whatever is read.
THEOREM MessagesInOrder == Spec => [](TypeOK /\ ReadInOrder)
<1>1. IInv => TypeOK /\ ReadInOrder
  BY DEF IInv
<1> QED
  BY <1>1, InitialMessage, MessageInvariant, PTL DEF Spec

\* A message is delivered with all its fields, as they were written, or not at
\* all, wherever its file was cut (Reader::Read and ProtocolRead).
THEOREM MessagesWhole == Spec => []DeliveredWhole
<1>1. IInv => DeliveredWhole
  BY DEF IInv
<1> QED
  BY <1>1, InitialMessage, MessageInvariant, PTL DEF Spec

\* The reader's assertions do not fail for a message that it knows and that is
\* all there: the fields have the sizes that Message::Write measured.
THEOREM WholeMessagesDelivered == Spec => []WholeIsDelivered
<1>1. IInv => WholeIsDelivered
  BY DEF IInv
<1> QED
  BY <1>1, InitialMessage, MessageInvariant, PTL DEF Spec

-----------------------------------------------------------------------------
(***************************************************************************)
(* Messages for which the buffer is too small.                             *)
(***************************************************************************)

\* Every other field is measured as it is written.
LEMMA MeasuredExactly ==
  ASSUME NEW field \in Field, ~HasLong(field)
  PROVE  BytesOf(field) <= GetSize(field)
<1>1. ASSUME NEW n \in Nat, ~IsLong(n) PROVE GetStringSize(n) = ArraySize + n
  <2>1. ArraySize + n \in Nat /\ ArraySize + n < Limit
    BY <1>1, LimitAssumption DEF IsLong, ArraySize
  <2> QED
    BY <2>1, Wrapped DEF GetStringSize
<1>2. CASE field.kind \in {"int", "array"}
  BY <1>2, FieldKinds DEF GetSize, BytesOf, ArraySize
<1>3. CASE field.kind = "string"
  <2>1. field.size \in Nat /\ ~IsLong(field.size)
    BY <1>3, FieldKinds DEF HasLong
  <2>2. GetSize(field) = ArraySize + field.size /\ BytesOf(field) = ArraySize + field.size
    BY <1>1, <1>3, <2>1 DEF GetSize, BytesOf
  <2> QED
    BY <2>1, <2>2 DEF ArraySize
<1>4. CASE field.kind = "list"
  <2> DEFINE list == field.sizes
             measured == [i \in DOMAIN list |-> GetStringSize(list[i])]
  <2>1. list \in Seq(Nat)
    BY <1>4, FieldKinds
  <2>2. /\ Len(list) \in Nat /\ DOMAIN list = 1 .. Len(list)
        /\ \A i \in 1 .. Len(list) : list[i] \in Nat /\ ~IsLong(list[i])
    BY <1>4, <2>1, LenProperties DEF HasLong
  <2>3. measured = ElementBytes(list)
    <3>1. \A i \in DOMAIN list : GetStringSize(list[i]) = ArraySize + list[i]
      BY <1>1, <2>2
    <3> HIDE DEF list
    <3> QED
      BY <3>1 DEF ElementBytes
  <2>4. GetSize(field) = ArraySize + Totals(measured)[Len(list)]
    BY <1>4 DEF GetSize
  <2>5. BytesOf(field) = ArraySize + Totals(ElementBytes(list))[Len(list)]
    BY <1>4 DEF BytesOf
  <2> HIDE DEF measured, list
  <2> QED
    BY <2>3, <2>4, <2>5, MeasuredField
<1> QED
  BY <1>2, <1>3, <1>4, FieldKinds

\* So is a message of such fields.
LEMMA MeasuredWhole ==
  ASSUME NEW message \in Seq(Field), \A i \in 1 .. Len(message) : ~HasLong(message[i])
  PROVE  Occupied(message) <= Measured(message)
<1> DEFINE measured == [i \in DOMAIN message |-> GetSize(message[i])]
           occupied == FieldBytes(message)
           F == Field
<1> HIDE DEF F
<1>1. /\ Len(message) \in Nat /\ DOMAIN message = 1 .. Len(message)
      /\ \A i \in 1 .. Len(message) : message[i] \in F
  <2>1. message \in Seq(F)
    BY DEF F
  <2> QED
    BY <2>1, LenProperties
<1>2. ASSUME NEW i \in 1 .. Len(message)
      PROVE  GetSize(message[i]) \in Nat /\ BytesOf(message[i]) <= GetSize(message[i])
  <2>1. message[i] \in Field /\ ~HasLong(message[i])
    BY <1>1 DEF F
  <2> QED
    BY <2>1, MeasuredField, MeasuredExactly
<1>3. measured \in [1 .. Len(message) -> Nat]
  BY <1>1, <1>2
<1>4. \A i \in 1 .. Len(message) : measured[i] = GetSize(message[i])
  BY <1>1
<1>5. Measured(message) = Totals(measured)[Len(message)]
  BY DEF Measured
<1> HIDE DEF measured
<1>6. measured \in Seq(Nat)
  BY <1>1, <1>3, SeqDef
<1>7. Len(measured) = Len(message)
  BY <1>1, <1>3, <1>6, LenProperties
<1>8. /\ occupied \in Seq(Nat) /\ Len(occupied) = Len(message)
      /\ \A i \in 1 .. Len(message) : occupied[i] = BytesOf(message[i])
      /\ Occupied(message) = Totals(occupied)[Len(message)]
  BY MeasuredMessage
<1> HIDE DEF occupied
<1>9. \A i \in 1 .. Len(occupied) : occupied[i] <= measured[i]
  BY <1>2, <1>4, <1>8
<1>10. Totals(occupied)[Len(message)] <= Totals(measured)[Len(message)]
  <2>1. Len(message) \in 0 .. Len(occupied)
    BY <1>1, <1>8
  <2> QED
    BY <1>6, <1>7, <1>8, <1>9, <2>1, TotalsCompare
<1> QED
  BY <1>5, <1>8, <1>10

\* Message::Write only writes over the end of its buffer when a string is so long
\* that its size, with the bytes before it, does not fit into SizeType.  The
\* assertion in ProtocolGetSize lets two such sizes through.
THEOREM OverrunByLongString == Spec => []OverrunIsLong
<1>1. Init => OverrunIsLong
  BY DEF Init, OverrunIsLong
<1>2. IInv /\ OverrunIsLong /\ [Next]_vars => OverrunIsLong'
  <2> SUFFICES ASSUME IInv, OverrunIsLong, [Next]_vars, status' = "overrun"
               PROVE  \E i \in 1 .. Len(fields') : HasLong(fields'[i])
    BY DEF OverrunIsLong
  <2>1. CASE Write
    <3>1. fields \in Seq(Field) /\ fields' = fields /\ Occupied(fields) > Measured(fields)
      BY <2>1 DEF Write, IInv, TypeOK
    <3>2. ~(Occupied(fields) <= Measured(fields))
      BY <3>1, MeasuredMessage
    <3> QED
      BY <3>1, <3>2, MeasuredWhole
  <2>2. CASE ~Write
    <3>1. UNCHANGED vars
      BY <2>2, NextFieldRead
      DEF Next, AddField, Cut, Open, ReadField, ReadList, Deliver, NextMessage
    <3> QED
      BY <3>1 DEF vars, OverrunIsLong
  <2> QED
    BY <2>1, <2>2
<1> QED
  BY <1>1, <1>2, InitialMessage, MessageInvariant, PTL DEF Spec

=============================================================================
