-------------------------- MODULE ShareListingProofs --------------------------
(***************************************************************************)
(* Proofs about listings of a directory that others change, for any number *)
(* of names and any sizes of blocks and buffers.                           *)
(***************************************************************************)
EXTENDS ShareListing, FiniteSetTheorems, SequenceTheorems, NaturalsInduction, TLAPS

\* The rows before an entry, which need not be there itself, and its place.
Before(e) == {d \in dir : d < e}
Rank(e) == Cardinality(Before(e))

ListingTypes ==
  /\ dir \subseteq Entries /\ stayed \subseteq dir
  /\ stage \in {"closed", "reading", "replying", "ended"}
  /\ offset \in Nat
  /\ buffer \in Seq([entry: Entries, offset: Nat]) /\ Len(buffer) <= Capacity
  /\ received \subseteq Entries /\ twice \subseteq Entries
  /\ came \in Nat /\ went \in Nat

\* A buffer's offsets rise up to the one that is read next.
OffsetsRise ==
  /\ \A i, j \in DOMAIN buffer : i < j => buffer[i].offset < buffer[j].offset
  /\ stage = "reading" => \A i \in DOMAIN buffer : buffer[i].offset < offset

\* As long as nothing before it has gone, an entry that has not been seen is
\* behind everything that was read.
UnseenAreAhead ==
  \A e \in stayed \ Seen : went >= e =>
    /\ stage = "reading" => offset <= Rank(e)
    /\ \A i \in DOMAIN buffer : buffer[i].offset < Rank(e)

\* As long as nothing before it has come, an entry that was received is before
\* everything that is read now, unless a buffer ended with it.
ReceivedAreBehind ==
  \A e \in received \ resumed : came >= e =>
    /\ stage = "reading" => Rank(e) < offset
    /\ \A i \in DOMAIN buffer : Rank(e) < buffer[i].offset

\* Likewise an entry in the buffer is where it was read or further before.
ReadIsBehind ==
  \A i \in DOMAIN buffer :
    came >= buffer[i].entry => Rank(buffer[i].entry) <= buffer[i].offset

\* Under these conditions the buffer holds nothing that was seen before.
BufferIsNew ==
  \A i \in DOMAIN buffer : came >= buffer[i].entry =>
    /\ buffer[i].entry \in resumed \/ buffer[i].entry \notin received
    /\ \A j \in DOMAIN buffer : j < i => buffer[j].entry # buffer[i].entry

ListingInv ==
  /\ ListingTypes /\ OffsetsRise /\ UnseenAreAhead /\ ReceivedAreBehind
  /\ ReadIsBehind /\ BufferIsNew
  /\ SkippedOnlyByRemoval /\ RepeatedOnlyByInsertion

-----------------------------------------------------------------------------
(***************************************************************************)
(* Places of entries.                                                      *)
(***************************************************************************)

\* A place is a number, at most that of all rows.
LEMMA RankType ==
  ASSUME dir \subseteq Entries, NEW e
  PROVE  /\ IsFiniteSet(dir) /\ Cardinality(dir) \in Nat
         /\ IsFiniteSet(Before(e)) /\ Rank(e) \in Nat /\ Rank(e) <= Cardinality(dir)
<1>1. IsFiniteSet(Entries)
  BY FS_Interval, SizesAssumption DEF Entries
<1>2. IsFiniteSet(dir)
  BY <1>1, FS_Subset
<1>3. Before(e) \in SUBSET dir
  BY DEF Before
<1>4. IsFiniteSet(Before(e)) /\ Cardinality(Before(e)) <= Cardinality(dir)
  BY <1>2, <1>3, FS_Subset
<1> QED
  BY <1>2, <1>4, FS_CardinalityType DEF Rank

\* A row counts for the places of those behind it.
LEMMA RankOrder ==
  ASSUME dir \subseteq Entries, NEW d \in dir, NEW e \in Int, d < e
  PROVE  Rank(d) < Rank(e)
<1>1. IsFiniteSet(Before(d)) /\ IsFiniteSet(Before(e)) /\ Rank(d) \in Nat /\ Rank(e) \in Nat
  BY RankType
<1>2. d \notin Before(d) /\ Before(d) \cup {d} \in SUBSET Before(e)
  <2>1. d \in Int /\ \A c \in dir : c \in Int
    BY SizesAssumption DEF Entries
  <2>2. \A c \in dir : c < d => c < e
    BY <2>1
  <2>3. ~(d < d)
    BY <2>1
  <2> QED
    BY <2>2, <2>3 DEF Before
<1>3. Cardinality(Before(d) \cup {d}) = Rank(d) + 1
  BY <1>1, <1>2, FS_AddElement DEF Rank
<1>4. Cardinality(Before(d) \cup {d}) <= Rank(e)
  BY <1>1, <1>2, FS_Subset DEF Rank
<1> QED
  BY <1>1, <1>3, <1>4

\* Two rows have two places.
LEMMA RankIsKey ==
  ASSUME dir \subseteq Entries, NEW d \in dir, NEW e \in dir, Rank(d) = Rank(e)
  PROVE  d = e
<1>1. d \in Int /\ e \in Int /\ Rank(d) \in Nat
  BY RankType, SizesAssumption DEF Entries
<1>2. ~(d < e) /\ ~(e < d)
  BY <1>1, RankOrder
<1> QED
  BY <1>1, <1>2

\* As long as nothing before an entry goes, it does not move up.
LEMMA RankGrows ==
  ASSUME dir \subseteq Entries, dir' \subseteq Entries, NEW e,
         \A d \in dir : d < e => d \in dir'
  PROVE  Rank(e) <= Rank(e)' /\ Rank(e)' \in Nat
<1>1. IsFiniteSet(Entries)
  BY FS_Interval, SizesAssumption DEF Entries
<1>2. IsFiniteSet(dir')
  BY <1>1, FS_Subset
<1>3. {d \in dir' : d < e} \in SUBSET dir'
  OBVIOUS
<1>4. IsFiniteSet({d \in dir' : d < e})
  BY <1>2, <1>3, FS_Subset
<1>5. Before(e) \in SUBSET {d \in dir' : d < e}
  BY DEF Before
<1> QED
  BY <1>4, <1>5, FS_Subset, FS_CardinalityType DEF Rank, Before

\* As long as nothing comes before it, it does not move down.
LEMMA RankShrinks ==
  ASSUME dir \subseteq Entries, NEW e,
         \A d \in dir' : d < e => d \in dir
  PROVE  Rank(e)' <= Rank(e) /\ Rank(e)' \in Nat
<1>1. IsFiniteSet(Before(e))
  BY RankType
<1>2. {d \in dir' : d < e} \in SUBSET Before(e)
  BY DEF Before
<1> QED
  BY <1>1, <1>2, FS_Subset, FS_CardinalityType DEF Rank, Before

\* There is a row with every number of rows before it, up to the number of all.
LEMMA RowAt ==
  ASSUME dir \subseteq Entries, NEW i \in Nat, i < Cardinality(dir)
  PROVE  Row(i) \in dir /\ Rank(Row(i)) = i
<1> DEFINE behind == {e \in 1 .. Never : i < Rank(e)}
           R == OpToRel(<, Nat)
<1>1. IsWellFoundedOn(R, Nat)
  BY NatLessThanWellFounded
<1>2. \A j, k \in Nat : <<j, k>> \in R <=> j < k
  BY DEF OpToRel
<1>3. Before(Never) = dir
  <2>1. \A d \in dir : d < Never
    BY SizesAssumption DEF Never, Entries
  <2> QED
    BY <2>1 DEF Before
<1>4. Never \in behind
  BY <1>3, SizesAssumption DEF Rank, Never
<1>5. behind \in SUBSET Nat
  BY SizesAssumption DEF Never
<1>6. PICK e \in behind : \A k \in behind : <<k, e>> \notin R
  <2> HIDE DEF R
  <2> QED
    BY <1>1, <1>4, <1>5, WFMin
<1>7. e \in 1 .. Never /\ i < Rank(e)
  BY <1>6
<1>8. e # 1
  <2>1. Before(1) = {}
    <3>1. \A d \in dir : ~(d < 1)
      BY SizesAssumption DEF Entries
    <3> QED
      BY <3>1 DEF Before
  <2> QED
    BY <1>7, <2>1, FS_EmptySet DEF Rank
<1>9. e - 1 \in 1 .. Never /\ e - 1 \notin behind
  <2>1. e - 1 \in 1 .. Never /\ e - 1 \in Nat /\ e \in Nat /\ e - 1 < e
    BY <1>7, <1>8, SizesAssumption DEF Never
  <2>2. <<e - 1, e>> \in R
    BY <1>2, <2>1
  <2> QED
    BY <1>6, <2>1, <2>2
<1>10. Rank(e - 1) \in Nat /\ Rank(e - 1) <= i /\ Rank(e) \in Nat
       /\ IsFiniteSet(Before(e - 1))
  BY <1>9, RankType
<1>11. Before(e) = Before(e - 1) \cup ({e - 1} \cap dir)
  <2>1. e \in Int /\ \A d \in dir : d \in Int
    BY <1>7, SizesAssumption DEF Entries, Never
  <2>2. \A d \in dir : d < e <=> d < e - 1 \/ d = e - 1
    BY <2>1
  <2> QED
    BY <2>2 DEF Before
<1>12. e - 1 \in dir
  BY <1>7, <1>10, <1>11 DEF Rank
<1>13. Rank(e) = Rank(e - 1) + 1
  <2>1. Before(e) = Before(e - 1) \cup {e - 1} /\ e - 1 \notin Before(e - 1)
    BY <1>7, <1>11, <1>12, SizesAssumption DEF Before, Never
  <2> QED
    BY <1>10, <2>1, FS_AddElement DEF Rank
<1>14. Rank(e - 1) = i
  BY <1>7, <1>10, <1>13
<1> QED
  BY <1>12, <1>14 DEF Row, Rank, Before

-----------------------------------------------------------------------------
(***************************************************************************)
(* The steps of a listing.                                                 *)
(***************************************************************************)

\* What a round of readdir's loop adds to the buffer: n rows, from the offset on
\* and in their places.
Filled(n) ==
  /\ n \in Nat
  /\ buffer' \in Seq([entry: Entries, offset: Nat])
  /\ Len(buffer') = Len(buffer) + n /\ Len(buffer') <= Capacity
  /\ \A i \in 1 .. Len(buffer) : buffer'[i] = buffer[i]
  /\ \A i \in Len(buffer) + 1 .. Len(buffer') :
       /\ buffer'[i].entry \in dir
       /\ Rank(buffer'[i].entry) = buffer'[i].offset
       /\ buffer'[i].offset = offset + i - Len(buffer) - 1
  /\ \/ stage' = "replying"
     \/ stage' = "reading" /\ offset' = offset + n

\* The lesser of two numbers.
LEMMA FirstIsLesser ==
  ASSUME NEW e \in Int, NEW f \in Int
  PROVE  First(e, f) \in {e, f} /\ First(e, f) <= e /\ First(e, f) <= f
BY DEF First

\* A function on the first n numbers is a sequence of n elements.
LEMMA ListOf ==
  ASSUME NEW n \in Nat, NEW S, NEW s \in [1 .. n -> S]
  PROVE  s \in Seq(S) /\ Len(s) = n
OBVIOUS

\* The entries of a buffer and their offsets.
LEMMA BufferItems ==
  ASSUME NEW b \in Seq([entry: Entries, offset: Nat])
  PROVE  /\ Len(b) \in Nat /\ DOMAIN b = 1 .. Len(b)
         /\ \A i \in 1 .. Len(b) : b[i].entry \in Entries /\ b[i].offset \in Nat
<1>1. Len(b) \in Nat /\ DOMAIN b = 1 .. Len(b)
  BY LenProperties
<1>2. ASSUME NEW i \in 1 .. Len(b) PROVE b[i] \in [entry: Entries, offset: Nat]
  BY ElementOfSeq
<1> QED
  BY <1>1, <1>2

\* A round of the loop fills the buffer in this way.
LEMMA BlockFills ==
  ASSUME ListingTypes, ReadBlock
  PROVE  \E n : Filled(n)
<1> DEFINE block == GetDirectory(offset, BlockCount)
           rows == First(BlockCount, Cardinality(dir) - offset)
           room == Capacity - Len(buffer)
           taken == First(Len(block), room)
           items == [i \in 1 .. taken |-> [entry |-> block[i], offset |-> OffsetOf(i)]]
<1>1. /\ dir \subseteq Entries /\ offset \in Nat /\ Cardinality(dir) \in Nat
      /\ buffer \in Seq([entry: Entries, offset: Nat])
      /\ Len(buffer) \in Nat /\ Len(buffer) <= Capacity
  BY RankType DEF ListingTypes
<1>2. rows \in Int /\ rows <= BlockCount /\ rows <= Cardinality(dir) - offset
  BY <1>1, FirstIsLesser, SizesAssumption
<1>3. block = [i \in 1 .. rows |-> Row(offset + i - 1)]
  BY DEF GetDirectory
<1> HIDE DEF block, rows
<1>4. /\ Len(block) \in Nat /\ (rows \in Nat => Len(block) = rows)
      /\ \A i \in 1 .. Len(block) : i <= rows /\ block[i] = Row(offset + i - 1)
  <2>1. CASE rows \in Nat
    <3> DEFINE V == {Row(offset + i - 1) : i \in 1 .. rows}
    <3>1. block \in [1 .. rows -> V] /\ DOMAIN block = 1 .. rows
      BY <1>3
    <3>2. Len(block) = rows
      <4> HIDE DEF V
      <4> QED
        BY <2>1, <3>1, ListOf
    <3> QED
      BY <1>3, <2>1, <3>2
  <2>2. CASE rows \notin Nat
    <3>1. block = <<>>
      BY <1>2, <1>3, <2>2
    <3> QED
      BY <2>2, <3>1
  <2> QED
    BY <2>1, <2>2
<1>5. /\ taken \in Nat /\ taken <= Len(block) /\ Len(buffer) + taken <= Capacity
  <2>1. room \in Nat /\ Len(buffer) + room = Capacity
    BY <1>1, SizesAssumption
  <2>2. taken \in {Len(block), room} /\ taken <= Len(block) /\ taken <= room
    <3> HIDE DEF room
    <3> QED
      BY <1>4, <2>1, FirstIsLesser
  <2> QED
    BY <1>1, <1>4, <2>1, <2>2
<1> HIDE DEF taken
<1>6. ASSUME NEW i \in 1 .. taken
      PROVE  /\ block[i] \in dir /\ block[i] \in Entries
             /\ Rank(block[i]) = offset + i - 1
             /\ OffsetOf(i) = offset + i - 1 /\ OffsetOf(i) \in Nat
  <2>1. i \in 1 .. Len(block) /\ i <= rows /\ offset + i - 1 \in Nat
        /\ offset + i - 1 < Cardinality(dir)
    BY <1>1, <1>2, <1>4, <1>5
  <2>2. block[i] = Row(offset + i - 1)
    BY <1>4, <2>1
  <2> QED
    BY <1>1, <2>1, <2>2, RowAt DEF OffsetOf
<1>7. /\ items \in Seq([entry: Entries, offset: Nat]) /\ Len(items) = taken
      /\ \A i \in 1 .. taken : items[i].entry = block[i] /\ items[i].offset = OffsetOf(i)
  BY <1>5, <1>6
<1> HIDE DEF items
<1>8. buffer' = buffer \o items
  BY DEF ReadBlock, taken, items, block, room
<1>9. /\ buffer' \in Seq([entry: Entries, offset: Nat])
      /\ Len(buffer') = Len(buffer) + taken
      /\ \A i \in 1 .. Len(buffer) : buffer'[i] = buffer[i]
      /\ \A i \in Len(buffer) + 1 .. Len(buffer') : buffer'[i] = items[i - Len(buffer)]
  <2> DEFINE Item == [entry: Entries, offset: Nat]
  <2> HIDE DEF Item
  <2>1. buffer \in Seq(Item) /\ items \in Seq(Item)
    BY <1>1, <1>7 DEF Item
  <2>2. /\ buffer' \in Seq(Item) /\ Len(buffer') = Len(buffer) + taken
        /\ \A i \in 1 .. Len(buffer) + taken : buffer'[i] =
             IF i <= Len(buffer) THEN buffer[i] ELSE items[i - Len(buffer)]
    BY <1>7, <1>8, <2>1, ConcatProperties
  <2>3. ASSUME NEW i \in 1 .. Len(buffer) PROVE buffer'[i] = buffer[i]
    BY <1>1, <1>5, <2>2
  <2>4. ASSUME NEW i \in Len(buffer) + 1 .. Len(buffer')
        PROVE  buffer'[i] = items[i - Len(buffer)]
    BY <1>1, <1>5, <2>2
  <2> QED
    BY <2>2, <2>3, <2>4 DEF Item
<1>10. ASSUME NEW i \in Len(buffer) + 1 .. Len(buffer')
       PROVE  /\ buffer'[i].entry \in dir
              /\ Rank(buffer'[i].entry) = buffer'[i].offset
              /\ buffer'[i].offset = offset + i - Len(buffer) - 1
  <2>1. i - Len(buffer) \in 1 .. taken
    BY <1>1, <1>5, <1>9
  <2>2. buffer'[i].entry = block[i - Len(buffer)]
        /\ buffer'[i].offset = OffsetOf(i - Len(buffer))
    BY <1>7, <1>9, <2>1
  <2>3. Rank(block[i - Len(buffer)]) = offset + (i - Len(buffer)) - 1
        /\ OffsetOf(i - Len(buffer)) = offset + (i - Len(buffer)) - 1
        /\ block[i - Len(buffer)] \in dir
    BY <1>6, <2>1
  <2>4. offset + (i - Len(buffer)) - 1 = offset + i - Len(buffer) - 1
    BY <1>1, <2>1
  <2> QED
    BY <2>2, <2>3, <2>4
<1>11. stage' = "replying" \/ (stage' = "reading" /\ offset' = offset + taken)
  <2>1. CASE LastBlock(block, taken)
    BY <2>1 DEF ReadBlock, block, taken, room
  <2>2. CASE ~LastBlock(block, taken)
    <3>1. stage' = "reading" /\ offset' = offset + BlockCount
      BY <2>2 DEF ReadBlock, block, taken, room, NextBlock
    <3>2. taken = BlockCount
      <4>1. Len(block) <= BlockCount
        BY <1>2, <1>4, SizesAssumption
      <4> QED
        BY <1>4, <1>5, <2>2, <4>1, SizesAssumption DEF LastBlock
    <3> QED
      BY <3>1, <3>2
  <2> QED
    BY <2>1, <2>2
<1> QED
  BY <1>5, <1>9, <1>10, <1>11 DEF Filled

\* The round keeps the invariant: what is read lies between what was received and
\* what has not been seen.
LEMMA ReadBlockKeeps ==
  ASSUME ListingInv, ReadBlock
  PROVE  ListingInv'
<1>1. PICK n : Filled(n)
  BY BlockFills DEF ListingInv
<1>2. /\ stage = "reading"
      /\ UNCHANGED <<dir, received, twice, resumed, stayed, came, went>>
  BY DEF ReadBlock
<1>3. /\ ListingTypes /\ Len(buffer) \in Nat
      /\ DOMAIN buffer = 1 .. Len(buffer) /\ DOMAIN buffer' = 1 .. Len(buffer')
      /\ \A i \in DOMAIN buffer : buffer[i].entry \in Entries /\ buffer[i].offset \in Nat
      /\ \A i \in DOMAIN buffer' : buffer'[i].entry \in Entries /\ buffer'[i].offset \in Nat
      /\ \A e : Rank(e) \in Nat /\ Rank(e)' = Rank(e)
  <2>1. ListingTypes /\ \A e : Rank(e) \in Nat
    BY RankType DEF ListingInv, ListingTypes
  <2>2. \A e : Rank(e)' = Rank(e)
    BY <1>2 DEF Rank, Before
  <2>3. buffer' \in Seq([entry: Entries, offset: Nat])
    BY <1>1 DEF Filled
  <2>4. /\ Len(buffer) \in Nat /\ DOMAIN buffer = 1 .. Len(buffer)
        /\ \A i \in DOMAIN buffer : buffer[i].entry \in Entries /\ buffer[i].offset \in Nat
    <3>1. buffer \in Seq([entry: Entries, offset: Nat])
      BY <2>1 DEF ListingTypes
    <3> QED
      BY <3>1, BufferItems
  <2>5. /\ DOMAIN buffer' = 1 .. Len(buffer')
        /\ \A i \in DOMAIN buffer' : buffer'[i].entry \in Entries /\ buffer'[i].offset \in Nat
    BY <2>3, BufferItems
  <2> QED
    BY <2>1, <2>2, <2>4, <2>5
<1>4. ASSUME NEW i \in DOMAIN buffer'
      PROVE  \/ i \in DOMAIN buffer /\ buffer'[i] = buffer[i]
             \/ /\ i > Len(buffer) /\ buffer'[i].entry \in dir
                /\ Rank(buffer'[i].entry) = buffer'[i].offset
                /\ buffer'[i].offset = offset + i - Len(buffer) - 1
                /\ offset <= buffer'[i].offset /\ buffer'[i].offset < offset + n
  <2>1. n \in Nat /\ offset \in Nat /\ Len(buffer') = Len(buffer) + n /\ i \in 1 .. Len(buffer')
    BY <1>1, <1>3 DEF Filled, ListingTypes
  <2>2. CASE i \in 1 .. Len(buffer)
    BY <1>1, <1>3, <2>2 DEF Filled
  <2>3. CASE i \in Len(buffer) + 1 .. Len(buffer')
    <3>1. /\ buffer'[i].entry \in dir
          /\ Rank(buffer'[i].entry) = buffer'[i].offset
          /\ buffer'[i].offset = offset + i - Len(buffer) - 1
      BY <1>1, <2>3 DEF Filled
    <3> QED
      BY <1>3, <2>1, <2>3, <3>1
  <2> QED
    BY <1>3, <2>1, <2>2, <2>3
<1>5. \A i \in DOMAIN buffer : i \in DOMAIN buffer' /\ buffer'[i] = buffer[i]
  BY <1>1, <1>3 DEF Filled
<1>6. n \in Nat /\ offset \in Nat /\ (stage' = "reading" => offset' = offset + n)
      /\ stage' \in {"reading", "replying"}
  BY <1>1, <1>3 DEF Filled, ListingTypes
<1>7. ListingTypes'
  <2>1. offset' \in Nat
    BY <1>3, SizesAssumption DEF ReadBlock, NextBlock, ListingTypes
  <2> QED
    BY <1>1, <1>2, <1>3, <1>6, <2>1 DEF Filled, ListingTypes
<1>8. OffsetsRise'
  <2>1. ASSUME NEW i \in DOMAIN buffer', NEW j \in DOMAIN buffer', i < j
        PROVE  buffer'[i].offset < buffer'[j].offset
    <3>1. CASE j \in DOMAIN buffer
      <4>1. i \in DOMAIN buffer /\ buffer'[i] = buffer[i] /\ buffer'[j] = buffer[j]
        BY <1>3, <1>5, <2>1, <3>1
      <4> QED
        BY <2>1, <3>1, <4>1 DEF ListingInv, OffsetsRise
    <3>2. CASE i \in DOMAIN buffer /\ j \notin DOMAIN buffer
      <4>1. buffer'[i].offset < offset
        BY <1>2, <1>5, <3>2 DEF ListingInv, OffsetsRise
      <4> QED
        BY <1>3, <1>4, <1>6, <3>2, <4>1
    <3>3. CASE i \notin DOMAIN buffer /\ j \notin DOMAIN buffer
      <4>1. /\ buffer'[i].offset = offset + i - Len(buffer) - 1
            /\ buffer'[j].offset = offset + j - Len(buffer) - 1
        BY <1>4, <3>3
      <4> QED
        BY <1>3, <1>6, <2>1, <4>1
    <3> QED
      BY <1>3, <2>1, <3>1, <3>2, <3>3
  <2>2. ASSUME NEW i \in DOMAIN buffer', stage' = "reading"
        PROVE  buffer'[i].offset < offset'
    BY <1>2, <1>3, <1>4, <1>6, <2>2 DEF ListingInv, OffsetsRise
  <2> QED
    BY <2>1, <2>2 DEF OffsetsRise
<1>9. ASSUME NEW e \in stayed, e \notin Seen', went >= e
      PROVE  offset + n <= Rank(e) /\ e \in stayed \ Seen
  <2>1. e \notin Seen /\ e \in dir
    BY <1>2, <1>3, <1>5, <1>9 DEF Seen, ListingTypes
  <2>2. offset <= Rank(e)
    BY <1>2, <1>9, <2>1 DEF ListingInv, UnseenAreAhead
  <2>3. ASSUME Rank(e) < offset + n PROVE FALSE
    <3> DEFINE i == Rank(e) - offset + Len(buffer) + 1
    <3>1. i \in Len(buffer) + 1 .. Len(buffer') /\ i \in DOMAIN buffer'
      BY <1>1, <1>3, <1>6, <2>2, <2>3 DEF Filled
    <3>2. offset + i - Len(buffer) - 1 = Rank(e)
      BY <1>3, <1>6
    <3>3. buffer'[i].entry \in dir /\ Rank(buffer'[i].entry) = Rank(e)
      <4> HIDE DEF i
      <4> QED
        BY <1>1, <3>1, <3>2 DEF Filled
    <3>4. buffer'[i].entry = e
      BY <1>3, <2>1, <3>3, RankIsKey DEF ListingTypes
    <3> QED
      BY <1>9, <3>1, <3>4 DEF Seen
  <2> QED
    BY <1>3, <1>6, <1>9, <2>1, <2>3
<1>10. UnseenAreAhead'
  <2> SUFFICES ASSUME NEW e \in stayed, e \notin Seen', went >= e
               PROVE  /\ stage' = "reading" => offset' <= Rank(e)
                      /\ \A i \in DOMAIN buffer' : buffer'[i].offset < Rank(e)
    BY <1>2, <1>3 DEF UnseenAreAhead
  <2>1. offset + n <= Rank(e) /\ e \in stayed \ Seen
    BY <1>9
  <2>2. ASSUME NEW i \in DOMAIN buffer' PROVE buffer'[i].offset < Rank(e)
    <3>1. CASE i \in DOMAIN buffer /\ buffer'[i] = buffer[i]
      BY <2>1, <3>1 DEF ListingInv, UnseenAreAhead
    <3>2. CASE buffer'[i].offset < offset + n
      BY <1>3, <1>6, <2>1, <3>2
    <3> QED
      BY <1>4, <3>1, <3>2
  <2> QED
    BY <1>6, <2>1, <2>2
<1>11. ReceivedAreBehind'
  <2> SUFFICES ASSUME NEW e \in received \ resumed, came >= e
               PROVE  /\ stage' = "reading" => Rank(e) < offset'
                      /\ \A i \in DOMAIN buffer' : Rank(e) < buffer'[i].offset
    BY <1>2, <1>3 DEF ReceivedAreBehind
  <2>1. Rank(e) < offset /\ \A i \in DOMAIN buffer : Rank(e) < buffer[i].offset
    BY <1>2 DEF ListingInv, ReceivedAreBehind
  <2>2. ASSUME NEW i \in DOMAIN buffer' PROVE Rank(e) < buffer'[i].offset
    BY <1>3, <1>4, <1>6, <2>1
  <2> QED
    BY <1>3, <1>6, <2>1, <2>2
<1>12. ReadIsBehind'
  <2> SUFFICES ASSUME NEW i \in DOMAIN buffer', came >= buffer'[i].entry
               PROVE  Rank(buffer'[i].entry) <= buffer'[i].offset
    BY <1>2, <1>3 DEF ReadIsBehind
  <2> QED
    BY <1>3, <1>4 DEF ListingInv, ReadIsBehind
<1>13. BufferIsNew'
  <2> SUFFICES ASSUME NEW i \in DOMAIN buffer', came >= buffer'[i].entry
               PROVE  /\ buffer'[i].entry \in resumed \/ buffer'[i].entry \notin received
                      /\ \A j \in DOMAIN buffer' : j < i => buffer'[j].entry # buffer'[i].entry
    BY <1>2 DEF BufferIsNew
  <2>1. CASE i \in DOMAIN buffer /\ buffer'[i] = buffer[i]
    <3>1. \A j \in DOMAIN buffer' : j < i => j \in DOMAIN buffer /\ buffer'[j] = buffer[j]
      BY <1>3, <1>5, <2>1
    <3> QED
      BY <2>1, <3>1 DEF ListingInv, BufferIsNew
  <2>2. CASE i > Len(buffer) /\ Rank(buffer'[i].entry) = buffer'[i].offset
             /\ offset <= buffer'[i].offset
    <3>1. buffer'[i].entry \in resumed \/ buffer'[i].entry \notin received
      <4>1. ASSUME buffer'[i].entry \in received \ resumed PROVE FALSE
        <5>1. Rank(buffer'[i].entry) < offset
          BY <1>2, <4>1 DEF ListingInv, ReceivedAreBehind
        <5> QED
          BY <1>3, <1>6, <2>2, <5>1
      <4> QED
        BY <4>1
    <3>2. ASSUME NEW j \in DOMAIN buffer', j < i, buffer'[j].entry = buffer'[i].entry
          PROVE  FALSE
      <4>1. Rank(buffer'[j].entry) <= buffer'[j].offset
        BY <1>2, <1>3, <1>12, <3>2 DEF ReadIsBehind
      <4>2. buffer'[j].offset < buffer'[i].offset
        BY <1>8, <3>2 DEF OffsetsRise
      <4> QED
        BY <1>3, <2>2, <3>2, <4>1, <4>2
    <3> QED
      BY <3>1, <3>2
  <2> QED
    BY <1>4, <2>1, <2>2
<1>14. SkippedOnlyByRemoval'
  <2> SUFFICES ASSUME NEW e \in stayed, e \notin Seen', NEW f \in Seen', e < f, ~(went < e)
               PROVE  FALSE
    BY <1>2 DEF SkippedOnlyByRemoval
  <2>1. went >= e /\ e \in Int /\ e \in dir
    BY <1>3, SizesAssumption DEF ListingTypes, Entries
  <2>2. offset + n <= Rank(e) /\ e \in stayed \ Seen
    BY <1>9, <2>1
  <2>3. f \notin Seen
    BY <2>1, <2>2 DEF ListingInv, SkippedOnlyByRemoval
  <2>4. PICK i \in DOMAIN buffer' : f = buffer'[i].entry
    BY <1>2, <2>3 DEF Seen
  <2>5. ~(i \in DOMAIN buffer /\ buffer'[i] = buffer[i])
    BY <2>3, <2>4 DEF Seen
  <2>6. f \in dir /\ Rank(f) < offset + n
    BY <1>4, <2>4, <2>5
  <2>7. Rank(e) < Rank(f)
    <3>1. dir \subseteq Entries
      BY <1>3 DEF ListingTypes
    <3>2. f \in Int
      BY <2>6, <3>1, SizesAssumption DEF Entries
    <3> QED
      BY <2>1, <3>1, <3>2, RankOrder
  <2> QED
    BY <1>3, <1>6, <2>2, <2>6, <2>7
<1>15. RepeatedOnlyByInsertion'
  BY <1>2 DEF ListingInv, RepeatedOnlyByInsertion
<1> QED
  BY <1>7, <1>8, <1>10, <1>11, <1>12, <1>13, <1>14, <1>15 DEF ListingInv

\* Handing a buffer on keeps the invariant: the next one begins with the offset of
\* the last entry, which is behind everything else that was received.
LEMMA ReplyKeeps ==
  ASSUME ListingInv, Reply
  PROVE  ListingInv'
<1> DEFINE Entry(i) == buffer[i].entry
<1>1. /\ stage = "replying" /\ buffer' = <<>>
      /\ UNCHANGED <<dir, stayed, came, went>>
      /\ received' = received \cup {Entry(i) : i \in DOMAIN buffer}
  BY DEF Reply
<1>2. \A e \in twice' : \/ e \in twice
                        \/ \E i \in DOMAIN buffer :
                             /\ e = Entry(i)
                             /\ Entry(i) \in received
                                  \/ \E j \in DOMAIN buffer : j < i /\ Entry(j) = Entry(i)
  BY DEF Reply
<1>3. /\ ListingTypes /\ Len(buffer) \in Nat /\ DOMAIN buffer = 1 .. Len(buffer)
      /\ \A i \in DOMAIN buffer : buffer[i].entry \in Entries /\ buffer[i].offset \in Nat
      /\ \A e : Rank(e) \in Nat /\ Rank(e)' = Rank(e)
  <2>1. ListingTypes /\ \A e : Rank(e) \in Nat
    BY RankType DEF ListingInv, ListingTypes
  <2>2. \A e : Rank(e)' = Rank(e)
    BY <1>1 DEF Rank, Before
  <2>3. buffer \in Seq([entry: Entries, offset: Nat])
    BY <2>1 DEF ListingTypes
  <2> QED
    BY <2>1, <2>2, <2>3, BufferItems
<1>4. \/ stage' = "ended" /\ UNCHANGED <<offset, resumed>>
      \/ /\ stage' = "reading" /\ Len(buffer) \in DOMAIN buffer
         /\ offset' = buffer[Len(buffer)].offset
         /\ resumed' = resumed \cup {Entry(Len(buffer))}
  <2>1. CASE buffer = <<>> \/ Last(buffer).offset = 0
    BY <2>1 DEF Reply
  <2>2. CASE ~(buffer = <<>> \/ Last(buffer).offset = 0)
    <3>1. Len(buffer) \in DOMAIN buffer
      BY <1>3, <2>2, EmptySeq DEF ListingTypes
    <3> QED
      BY <2>2, <3>1 DEF Reply, Last
  <2> QED
    BY <2>1, <2>2
<1>5. Seen' = Seen
  <2>1. DOMAIN buffer' = {}
    BY <1>1
  <2> QED
    BY <1>1, <2>1 DEF Seen
<1>6. resumed \subseteq resumed' /\ DOMAIN buffer' = {}
  BY <1>1, <1>4
<1> HIDE DEF Entry
<1>7. ListingTypes'
  <2>1. received' \subseteq Entries
    BY <1>1, <1>3 DEF Entry, ListingTypes
  <2>2. twice' \subseteq Entries
    BY <1>2, <1>3 DEF Entry, ListingTypes
  <2>3. offset' \in Nat
    BY <1>3, <1>4 DEF ListingTypes
  <2>4. buffer' \in Seq([entry: Entries, offset: Nat]) /\ Len(buffer') <= Capacity
    BY <1>1, SizesAssumption, EmptySeq
  <2> QED
    BY <1>1, <1>3, <1>4, <2>1, <2>2, <2>3, <2>4 DEF ListingTypes
<1>8. OffsetsRise' /\ ReadIsBehind' /\ BufferIsNew'
  BY <1>6 DEF OffsetsRise, ReadIsBehind, BufferIsNew
<1>9. UnseenAreAhead'
  <2> SUFFICES ASSUME NEW e \in stayed, e \notin Seen, went >= e, stage' = "reading"
               PROVE  offset' <= Rank(e)
    BY <1>1, <1>3, <1>5, <1>6 DEF UnseenAreAhead
  <2>1. buffer[Len(buffer)].offset < Rank(e)
    BY <1>4 DEF ListingInv, UnseenAreAhead
  <2> QED
    BY <1>3, <1>4, <2>1
<1>10. ReceivedAreBehind'
  <2> SUFFICES ASSUME NEW e \in received', e \notin resumed', came >= e, stage' = "reading"
               PROVE  Rank(e) < offset'
    BY <1>1, <1>3, <1>6 DEF ReceivedAreBehind
  <2>1. /\ Len(buffer) \in DOMAIN buffer
        /\ offset' = buffer[Len(buffer)].offset /\ e # Entry(Len(buffer))
    BY <1>4
  <2>2. CASE e \in received
    BY <1>6, <2>1, <2>2 DEF ListingInv, ReceivedAreBehind
  <2>3. CASE e \notin received
    <3>1. PICK i \in DOMAIN buffer : e = Entry(i)
      BY <1>1, <2>3
    <3>2. Rank(e) <= buffer[i].offset
      BY <3>1 DEF Entry, ListingInv, ReadIsBehind
    <3>3. i < Len(buffer)
      BY <1>3, <2>1, <3>1
    <3>4. buffer[i].offset < buffer[Len(buffer)].offset
      BY <2>1, <3>3 DEF ListingInv, OffsetsRise
    <3> QED
      BY <1>3, <2>1, <3>2, <3>4
  <2> QED
    BY <2>2, <2>3
<1>11. SkippedOnlyByRemoval'
  BY <1>1, <1>5 DEF ListingInv, SkippedOnlyByRemoval
<1>12. RepeatedOnlyByInsertion'
  <2> SUFFICES ASSUME NEW e \in twice', e \notin resumed', ~(came < e)
               PROVE  FALSE
    BY <1>1 DEF RepeatedOnlyByInsertion
  <2>1. e \notin resumed /\ came >= e
    BY <1>3, <1>6, <1>7, SizesAssumption DEF ListingTypes, Entries
  <2>2. e \notin twice
    BY <2>1 DEF ListingInv, RepeatedOnlyByInsertion
  <2> QED
    BY <1>2, <2>1, <2>2 DEF Entry, ListingInv, BufferIsNew
<1> QED
  BY <1>7, <1>8, <1>9, <1>10, <1>11, <1>12 DEF ListingInv

-----------------------------------------------------------------------------
(***************************************************************************)
(* The other steps, and the theorems.                                      *)
(***************************************************************************)

\* What others do to the directory: an entry that stays has all before it that it
\* had, unless one of them went, and no more, unless one of them came.
LEMMA ChangeKeeps ==
  ASSUME ListingInv, UNCHANGED listing, dir' \subseteq Entries,
         came' \in Nat, went' \in Nat, came' <= came, went' <= went,
         stayed' \subseteq stayed, stayed' \subseteq dir',
         \A d \in dir : d \in dir' \/ went' <= d,
         \A d \in dir' : d \in dir \/ came' <= d
  PROVE  ListingInv'
<1>1. /\ ListingTypes /\ dir \subseteq Entries /\ came \in Nat /\ went \in Nat
      /\ offset \in Nat /\ \A i \in DOMAIN buffer : buffer[i].offset \in Nat /\ buffer[i].entry \in Entries
  <2>1. ListingTypes /\ buffer \in Seq([entry: Entries, offset: Nat])
    BY DEF ListingInv, ListingTypes
  <2> QED
    BY <2>1, BufferItems DEF ListingTypes
<1>2. UNCHANGED <<stage, offset, buffer, received, twice, resumed>> /\ Seen' = Seen
  BY DEF listing, Seen
<1>3. \A e : Rank(e) \in Nat
  BY <1>1, RankType
<1>4. \A e \in Entries : e \in Int
  BY SizesAssumption DEF Entries
<1>5. ASSUME NEW e \in Entries, went' >= e
      PROVE  went >= e /\ Rank(e) <= Rank(e)' /\ Rank(e)' \in Nat
  <2>1. \A d \in dir : d < e => d \in dir'
    BY <1>1, <1>4, <1>5
  <2> QED
    BY <1>1, <1>4, <1>5, <2>1, RankGrows
<1>6. ASSUME NEW e \in Entries, came' >= e
      PROVE  came >= e /\ Rank(e)' <= Rank(e) /\ Rank(e)' \in Nat
  <2>1. \A d \in dir' : d < e => d \in dir
    BY <1>1, <1>4, <1>6
  <2> QED
    BY <1>1, <1>4, <1>6, <2>1, RankShrinks
<1>7. ListingTypes' /\ OffsetsRise'
  <2>1. ListingTypes'
    BY <1>1, <1>2 DEF ListingTypes
  <2>2. OffsetsRise'
    BY <1>2 DEF ListingInv, OffsetsRise
  <2> QED
    BY <2>1, <2>2
<1>8. UnseenAreAhead'
  <2> SUFFICES ASSUME NEW e \in stayed, e \notin Seen, went' >= e
               PROVE  /\ stage = "reading" => offset <= Rank(e)'
                      /\ \A i \in DOMAIN buffer : buffer[i].offset < Rank(e)'
    BY <1>2 DEF UnseenAreAhead
  <2>1. e \in Entries
    BY <1>1 DEF ListingTypes
  <2>2. went >= e /\ Rank(e) <= Rank(e)' /\ Rank(e)' \in Nat
    BY <1>5, <2>1
  <2>3. /\ stage = "reading" => offset <= Rank(e)
        /\ \A i \in DOMAIN buffer : buffer[i].offset < Rank(e)
    BY <2>2 DEF ListingInv, UnseenAreAhead
  <2> QED
    BY <1>1, <1>3, <2>2, <2>3
<1>9. ReceivedAreBehind'
  <2> SUFFICES ASSUME NEW e \in received, e \notin resumed, came' >= e
               PROVE  /\ stage = "reading" => Rank(e)' < offset
                      /\ \A i \in DOMAIN buffer : Rank(e)' < buffer[i].offset
    BY <1>2 DEF ReceivedAreBehind
  <2>1. e \in Entries
    BY <1>1 DEF ListingTypes
  <2>2. came >= e /\ Rank(e)' <= Rank(e) /\ Rank(e)' \in Nat
    BY <1>6, <2>1
  <2>3. /\ stage = "reading" => Rank(e) < offset
        /\ \A i \in DOMAIN buffer : Rank(e) < buffer[i].offset
    BY <2>2 DEF ListingInv, ReceivedAreBehind
  <2> QED
    BY <1>1, <1>3, <2>2, <2>3
<1>10. ReadIsBehind'
  <2> SUFFICES ASSUME NEW i \in DOMAIN buffer, came' >= buffer[i].entry
               PROVE  Rank(buffer[i].entry)' <= buffer[i].offset
    BY <1>2 DEF ReadIsBehind
  <2>1. /\ came >= buffer[i].entry /\ Rank(buffer[i].entry)' <= Rank(buffer[i].entry)
        /\ Rank(buffer[i].entry)' \in Nat
    BY <1>1, <1>2, <1>6
  <2>2. Rank(buffer[i].entry) <= buffer[i].offset
    BY <2>1 DEF ListingInv, ReadIsBehind
  <2> QED
    BY <1>1, <1>3, <2>1, <2>2
<1>11. BufferIsNew'
  <2>1. \A i \in DOMAIN buffer : came' >= buffer[i].entry => came >= buffer[i].entry
    BY <1>1, <1>6
  <2> QED
    BY <1>2, <2>1 DEF ListingInv, BufferIsNew
<1>12. SkippedOnlyByRemoval'
  <2> SUFFICES ASSUME NEW e \in stayed \ Seen, \E f \in Seen : e < f
               PROVE  went' < e
    BY <1>2 DEF SkippedOnlyByRemoval
  <2>1. went < e /\ e \in Int
    BY <1>1, <1>4 DEF ListingInv, SkippedOnlyByRemoval, ListingTypes
  <2> QED
    BY <1>1, <2>1
<1>13. RepeatedOnlyByInsertion'
  <2> SUFFICES ASSUME NEW e \in twice \ resumed PROVE came' < e
    BY <1>2 DEF RepeatedOnlyByInsertion
  <2>1. came < e /\ e \in Int
    BY <1>1, <1>4 DEF ListingInv, RepeatedOnlyByInsertion, ListingTypes
  <2> QED
    BY <1>1, <2>1
<1> QED
  BY <1>7, <1>8, <1>9, <1>10, <1>11, <1>12, <1>13 DEF ListingInv

\* An open directory has given out nothing.
LEMMA OpenKeeps ==
  ASSUME ListingTypes, Open
  PROVE  ListingInv'
<1>1. /\ stage' = "reading" /\ offset' = 0 /\ buffer' = <<>>
      /\ received' = {} /\ twice' = {} /\ stayed' = dir /\ dir' = dir
      /\ came' = Never /\ went' = Never
  BY DEF Open
<1>2. DOMAIN buffer' = {} /\ Seen' = {}
  BY <1>1 DEF Seen
<1>3. buffer' \in Seq([entry: Entries, offset: Nat]) /\ Len(buffer') <= Capacity
  BY <1>1, EmptySeq, SizesAssumption
<1>4. \A e : Rank(e)' \in Nat
  <2>1. \A e : Rank(e) \in Nat
    BY RankType DEF ListingTypes
  <2> QED
    BY <1>1, <2>1 DEF Rank, Before
<1>5. ListingTypes'
  BY <1>1, <1>3, SizesAssumption DEF ListingTypes, Never
<1>6. UnseenAreAhead'
  BY <1>1, <1>2, <1>4 DEF UnseenAreAhead
<1>7. OffsetsRise' /\ ReceivedAreBehind' /\ ReadIsBehind' /\ BufferIsNew'
  BY <1>1, <1>2 DEF OffsetsRise, ReceivedAreBehind, ReadIsBehind, BufferIsNew
<1>8. SkippedOnlyByRemoval' /\ RepeatedOnlyByInsertion'
  BY <1>1, <1>2 DEF SkippedOnlyByRemoval, RepeatedOnlyByInsertion
<1> QED
  BY <1>5, <1>6, <1>7, <1>8 DEF ListingInv

\* Closing it changes nothing of what was received.
LEMMA ReleaseKeeps ==
  ASSUME ListingInv, Release
  PROVE  ListingInv'
<1>1. /\ stage' = "closed"
      /\ UNCHANGED <<dir, offset, buffer, received, twice, resumed, stayed, came, went>>
  BY DEF Release
<1>2. Seen' = Seen /\ \A e : Rank(e)' = Rank(e)
  BY <1>1 DEF Seen, Rank, Before
<1>3. ListingTypes' /\ OffsetsRise' /\ BufferIsNew'
  BY <1>1 DEF ListingInv, ListingTypes, OffsetsRise, BufferIsNew
<1>4. UnseenAreAhead'
  BY <1>1, <1>2 DEF ListingInv, UnseenAreAhead
<1>5. ReceivedAreBehind' /\ ReadIsBehind'
  BY <1>1, <1>2 DEF ListingInv, ReceivedAreBehind, ReadIsBehind
<1>6. SkippedOnlyByRemoval' /\ RepeatedOnlyByInsertion'
  BY <1>1, <1>2 DEF ListingInv, SkippedOnlyByRemoval, RepeatedOnlyByInsertion
<1> QED
  BY <1>3, <1>4, <1>5, <1>6 DEF ListingInv

\* A directory that nobody has opened.
LEMMA ListingStarts == Init => ListingInv
<1> SUFFICES ASSUME Init PROVE ListingInv
  OBVIOUS
<1>1. buffer = <<>> /\ DOMAIN buffer = {} /\ Seen = {} /\ stayed = {}
  BY DEF Init, Seen
<1>2. ListingTypes
  BY <1>1, EmptySeq, SizesAssumption DEF Init, ListingTypes, Never
<1>3. OffsetsRise /\ UnseenAreAhead /\ ReceivedAreBehind /\ ReadIsBehind /\ BufferIsNew
  BY <1>1 DEF Init, OffsetsRise, UnseenAreAhead, ReceivedAreBehind, ReadIsBehind, BufferIsNew
<1>4. SkippedOnlyByRemoval /\ RepeatedOnlyByInsertion
  BY <1>1 DEF Init, SkippedOnlyByRemoval, RepeatedOnlyByInsertion
<1> QED
  BY <1>2, <1>3, <1>4 DEF ListingInv

\* Every step keeps the invariant.
LEMMA ListingNext == ListingInv /\ [Next]_vars => ListingInv'
<1> SUFFICES ASSUME ListingInv, [Next]_vars PROVE ListingInv'
  OBVIOUS
<1>1. /\ ListingTypes /\ dir \subseteq Entries /\ stayed \subseteq dir
      /\ came \in Nat /\ went \in Nat
  BY DEF ListingInv, ListingTypes
<1>2. \A e \in Entries : e \in Nat
  BY SizesAssumption DEF Entries
<1>3. \A m \in Nat, e \in Entries : First(m, e) \in Nat /\ First(m, e) <= m /\ First(m, e) <= e
  BY <1>2 DEF First
<1>4. ASSUME NEW e \in Entries, CreateEntry(e) PROVE ListingInv'
  <2>1. /\ dir' = dir \cup {e} /\ came' = First(came, e)
        /\ UNCHANGED listing /\ stayed' = stayed /\ went' = went
    BY <1>4 DEF CreateEntry
  <2> QED
    BY <1>1, <1>3, <2>1, ChangeKeeps
<1>5. ASSUME NEW e \in Entries, DeleteEntry(e) PROVE ListingInv'
  <2>1. /\ dir' = dir \ {e} /\ went' = First(went, e) /\ stayed' = stayed \ {e}
        /\ UNCHANGED listing /\ came' = came
    BY <1>5 DEF DeleteEntry
  <2> QED
    BY <1>1, <1>3, <2>1, ChangeKeeps
<1>6. ASSUME NEW e \in Entries, NEW f \in Entries, MoveEntry(e, f) PROVE ListingInv'
  <2>1. /\ dir' = (dir \ {e}) \cup {f}
        /\ went' = First(went, e) /\ stayed' = stayed \ {e}
        /\ came' = First(came, f) /\ UNCHANGED listing
    BY <1>6 DEF MoveEntry
  <2> QED
    BY <1>1, <1>3, <2>1, ChangeKeeps
<1>7. CASE UNCHANGED vars
  BY <1>1, <1>7, ChangeKeeps DEF vars
<1> QED
  BY <1>1, <1>4, <1>5, <1>6, <1>7, OpenKeeps, ReadBlockKeeps, ReplyKeeps, ReleaseKeeps
     DEF Next, Read

\* Where everything seen and unseen is, for any sizes of blocks and buffers and
\* any number of names.
THEOREM ListingInvariant == Spec => []ListingInv
  BY ListingStarts, ListingNext, PTL DEF Spec

\* readdir's blocks and the kernel's buffers leave no hole: an entry that stayed is
\* passed over only when one before it went.
THEOREM NoHoles == Spec => []SkippedOnlyByRemoval
<1>1. ListingInv => SkippedOnlyByRemoval
  BY DEF ListingInv
<1> QED
  BY <1>1, ListingInvariant, PTL

\* They repeat nothing but the last entry of a buffer, unless one came before it.
THEOREM NoRepetitions == Spec => []RepeatedOnlyByInsertion
<1>1. ListingInv => RepeatedOnlyByInsertion
  BY DEF ListingInv
<1> QED
  BY <1>1, ListingInvariant, PTL

=============================================================================
