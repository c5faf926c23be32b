----------------------------- MODULE GridProofs -----------------------------
(***************************************************************************)
(* Proofs about the grid, for any number of students, joins, pictures,     *)
(* names and columns.                                                      *)
(***************************************************************************)
EXTENDS StudentGrid, TLAPS, FiniteSetTheorems, SequenceTheorems, WellFoundedInduction

(* Rows.  A row of the list is never empty and never longer than a row of  *)
(* the window.                                                             *)
LEMMA Products ==
  ASSUME NEW a \in Int, NEW b \in Int, NEW c \in Nat, a <= b
  PROVE  a * c <= b * c
  BY Z3

LEMMA ItemCountBounds ==
  ASSUME NEW n \in Nat, NEW col \in Nat \ {0}
  PROVE  /\ ItemCount(n, col) \in Nat
         /\ n <= ItemCount(n, col) * col
         /\ ItemCount(n, col) * col <= n + col - 1
<1> DEFINE q == ItemCount(n, col)
<1>1. q = (n + col - 1) \div col
  BY DEF ItemCount
<1>2. q \in Int /\ q * col <= n + col - 1 /\ n + col - 1 < q * col + col
  BY <1>1, Z3
<1>3. q >= 0
  BY <1>1, Z3
<1>4. QED
  BY <1>2, <1>3

LEMMA RowLength ==
  ASSUME NEW S, NEW js \in Seq(S), NEW col \in Nat \ {0},
         NEW row \in 0 .. ItemCount(Len(js), col) - 1
  PROVE  /\ Row(js, row, col) \in Seq(S)
         /\ Len(Row(js, row, col)) \in 1 .. col
         /\ \A p \in 1 .. Len(Row(js, row, col)) : Row(js, row, col)[p] \in S
<1> DEFINE n == Len(js)
           start == RowStart(row, col)
           end == RowEnd(row, col, n)
<1>1. n \in Nat /\ ItemCount(n, col) \in Nat /\ ItemCount(n, col) * col <= n + col - 1
  BY ItemCountBounds
<1>2. (row + 1) * col <= ItemCount(n, col) * col
  BY <1>1, Products
<1>3. start \in Nat /\ (row + 1) * col = start + col
  BY DEF RowStart
<1>4. start < n
  BY <1>1, <1>2, <1>3
<1>5. n \in Nat /\ start \in Nat /\ end = IF start + col > n THEN n ELSE start + col
  BY <1>1, <1>3 DEF RowEnd
<1>6. \A i \in 1 .. n : js[i] \in S
  OBVIOUS
<1>7. Row(js, row, col) = SubSeq(js, start + 1, end)
  BY DEF Row
<1> HIDE DEF n, start, end
<1>8. end \in Nat /\ end - start \in 1 .. col /\ end <= n
  BY <1>4, <1>5
<1>9. \A i \in start + 1 .. end : js[i] \in S
  BY <1>5, <1>6, <1>8
<1>10. /\ Row(js, row, col) \in Seq(S)
       /\ Len(Row(js, row, col)) = end - start
  BY <1>5, <1>7, <1>8, <1>9, SubSeqProperties
<1>11. \A p \in 1 .. Len(Row(js, row, col)) : Row(js, row, col)[p] \in S
  BY <1>10
<1>12. QED
  BY <1>8, <1>10, <1>11

(* Every tile of the snapshot is in one row, and in one only.              *)
THEOREM RowsPartition ==
  ASSUME NEW n \in Nat, NEW col \in Nat \ {0}, NEW i \in 1 .. n
  PROVE  /\ \E row \in 0 .. ItemCount(n, col) - 1 :
              RowStart(row, col) < i /\ i <= RowEnd(row, col, n)
         /\ \A row, other \in 0 .. ItemCount(n, col) - 1 :
              /\ RowStart(row, col) < i /\ i <= RowEnd(row, col, n)
              /\ RowStart(other, col) < i /\ i <= RowEnd(other, col, n)
              => row = other
<1> DEFINE row0 == (i - 1) \div col
<1>1. row0 \in Nat /\ row0 * col <= i - 1 /\ i - 1 < row0 * col + col
  BY Z3
<1>2. ItemCount(n, col) \in Nat /\ n <= ItemCount(n, col) * col
  BY ItemCountBounds
<1>3. row0 < ItemCount(n, col)
  <2>1. SUFFICES ASSUME ItemCount(n, col) <= row0 PROVE FALSE
    BY <1>1, <1>2
  <2>2. ItemCount(n, col) * col <= row0 * col
    BY <1>1, <1>2, <2>1, Products
  <2>3. ItemCount(n, col) * col \in Int /\ row0 * col \in Int
    BY <1>1, <1>2
  <2>4. QED
    BY <1>1, <1>2, <2>2, <2>3
<1>4. RowStart(row0, col) < i /\ i <= RowEnd(row0, col, n)
  <2>1. row0 * col \in Int
    BY <1>1
  <2>2. QED
    BY <1>1, <2>1 DEF RowStart, RowEnd
<1>5. ASSUME NEW row \in 0 .. ItemCount(n, col) - 1, NEW other \in 0 .. ItemCount(n, col) - 1,
             RowStart(row, col) < i, i <= RowEnd(row, col, n),
             RowStart(other, col) < i, i <= RowEnd(other, col, n)
      PROVE  ~(row < other)
  <2>1. row * col \in Int /\ other * col \in Int /\ (row + 1) * col = row * col + col
    BY <1>2
  <2>2. SUFFICES ASSUME row + 1 <= other PROVE FALSE
    BY <1>2
  <2>3. row * col + col <= other * col
    BY <2>1, <2>2, <1>2, Products
  <2>4. QED
    BY <1>5, <2>1, <2>3 DEF RowStart, RowEnd
<1>6. QED
  <2>1. row0 \in 0 .. ItemCount(n, col) - 1
    BY <1>1, <1>2, <1>3
  <2>2. \A row, other \in 0 .. ItemCount(n, col) - 1 : row < other \/ other < row \/ row = other
    BY <1>2
  <2>3. QED
    BY <2>1, <2>2, <1>4, <1>5

(* What FlattenSeq makes of sequences, by the least index at which its     *)
(* recursive function could differ from another one with its equations.    *)

\* Induction without an operator parameter: the initial segments of T are
\* well-founded by inclusion.
LEMMA LeastIndex ==
  ASSUME NEW n \in Nat, NEW T \in SUBSET (1 .. n), T # {}
  PROVE  \E m \in T : \A k \in T : m <= k
<1> DEFINE R == StrictSubsetOrdering(1 .. n)
           Segments == {1 .. k : k \in T}
<1>1. IsWellFoundedOn(R, SUBSET (1 .. n))
  <2>1. IsFiniteSet(1 .. n)
    BY FS_Interval
  <2>2. FiniteSubsetsOf(1 .. n) = SUBSET (1 .. n)
    BY <2>1, FS_FiniteSubsetsOfFinite
  <2>3. QED
    BY <2>2, FS_StrictSubsetOrderingWellFounded
<1>2. \A k, m \in T : k < m => <<1 .. k, 1 .. m>> \in R
  <2>1. SUFFICES ASSUME NEW k \in T, NEW m \in T, k < m PROVE <<1 .. k, 1 .. m>> \in R
    OBVIOUS
  <2>2. /\ 1 .. k \in SUBSET (1 .. n) /\ 1 .. m \in SUBSET (1 .. n)
        /\ 1 .. k \subseteq 1 .. m /\ m \in 1 .. m /\ m \notin 1 .. k
    BY <2>1
  <2>3. QED
    BY <2>2, Zenon DEF StrictSubsetOrdering
<1>3. Segments \subseteq SUBSET (1 .. n) /\ Segments # {}
  <2>1. \A k \in T : 1 .. k \subseteq 1 .. n
    OBVIOUS
  <2>2. QED
    BY <2>1, Zenon
<1>4. PICK x \in Segments : \A y \in Segments : ~(<<y, x>> \in R)
  BY <1>1, <1>3, WFMin
<1>5. PICK m \in T : x = 1 .. m
  BY <1>4
<1>6. \A k \in T : ~(<<1 .. k, 1 .. m>> \in R)
  BY <1>4, <1>5
<1>7. \A k \in T : ~(k < m)
  BY <1>2, <1>6
<1>8. QED
  BY <1>7

\* g[i] is the first i of the sequences, joined.
Joins(g, seqs, n) ==
  /\ g = [i \in 1 .. n |-> g[i]]
  /\ g[1] = seqs[1]
  /\ \A i \in 2 .. n : g[i] = g[i - 1] \o seqs[i]

LEMMA FlattenIs ==
  ASSUME NEW seqs, NEW n \in Nat \ {0}, Len(seqs) = n,
         NEW g, Joins(g, seqs, n)
  PROVE  FlattenSeq(seqs) = g[n]
<1> DEFINE Of(f, i) == IF i = 1 THEN seqs[i] ELSE f[i - 1] \o seqs[i]
           flatten == CHOOSE f : f = [i \in 1 .. n |-> Of(f, i)]
<1>1. FlattenSeq(seqs) = flatten[n]
  BY DEF FlattenSeq
<1>2. \A i \in 1 .. n : g[i] = Of(g, i)
  <2>1. SUFFICES ASSUME NEW i \in 1 .. n PROVE g[i] = Of(g, i)
    OBVIOUS
  <2>2. i = 1 \/ i \in 2 .. n
    OBVIOUS
  <2>3. CASE i = 1
    BY <2>3 DEF Joins
  <2>4. CASE i # 1
    BY <2>2, <2>4, Zenon DEF Joins
  <2>5. QED
    BY <2>3, <2>4
<1>3. flatten = [i \in 1 .. n |-> Of(flatten, i)]
  <2>1. [i \in 1 .. n |-> g[i]] = [i \in 1 .. n |-> Of(g, i)]
    BY <1>2, Zenon
  <2>2. \E f : f = [i \in 1 .. n |-> Of(f, i)]
    <3>1. g = [i \in 1 .. n |-> Of(g, i)]
      BY <2>1, Zenon DEF Joins
    <3>2. QED
      BY <3>1, Zenon
  <2>3. QED
    BY <2>2, Zenon
<1> HIDE DEF flatten
<1>4. \A i \in 1 .. n : flatten[i] = Of(flatten, i)
  <2> HIDE DEF Of
  <2>1. QED
    BY <1>3, Zenon
<1>5. \A i \in 1 .. n : flatten[i] = g[i]
  <2> DEFINE T == {i \in 1 .. n : flatten[i] # g[i]}
  <2>1. SUFFICES ASSUME T # {} PROVE FALSE
    OBVIOUS
  <2>2. PICK m \in T : \A k \in T : m <= k
    BY <2>1, LeastIndex
  <2>3. m # 1 /\ m \in 1 .. n /\ m - 1 \in 1 .. n /\ m - 1 \notin T
    <3>1. m \in 1 .. n /\ 1 \in 1 .. n
      OBVIOUS
    <3>2. flatten[1] = g[1]
      BY <1>2, <1>4, <3>1, Zenon
    <3>3. m # 1
      BY <3>2
    <3>4. QED
      BY <2>2, <3>1, <3>3
  <2>4. flatten[m - 1] = g[m - 1]
    BY <2>3
  <2>5. flatten[m] = Of(flatten, m) /\ g[m] = Of(g, m)
    BY <1>2, <1>4, <2>3, Zenon
  <2>6. Of(flatten, m) = Of(g, m)
    BY <2>3, <2>4, Zenon
  <2>7. QED
    BY <2>2, <2>5, <2>6
<1>6. QED
  BY <1>1, <1>5

\* The rows of n tiles: each begins where the one before it ended, and the last
\* one ends with the last tile.
RowsMeet(n, col, rows) ==
  /\ rows \in Nat \ {0}
  /\ RowEnd(rows - 1, col, n) = n
  /\ RowStart(0, col) = 0
  /\ \A row \in 0 .. rows - 1 : RowEnd(row, col, n) \in 1 .. n
  /\ \A row \in 1 .. rows - 1 : /\ RowStart(row, col) = RowEnd(row - 1, col, n)
                               /\ RowStart(row, col) <= RowEnd(row, col, n)

LEMMA ItemCountMeets ==
  ASSUME NEW n \in Nat \ {0}, NEW col \in Nat \ {0}
  PROVE  RowsMeet(n, col, ItemCount(n, col))
<1> DEFINE N == ItemCount(n, col)
<1>1. N \in Nat /\ n <= N * col /\ N * col <= n + col - 1
  BY ItemCountBounds
<1>2. N # 0
  <2>1. SUFFICES ASSUME N = 0 PROVE FALSE
    OBVIOUS
  <2>2. N * col = 0
    BY <2>1
  <2>3. QED
    BY <1>1, <2>2
<1>3. (N - 1) * col + col = N * col /\ (N - 1) * col \in Int
  BY <1>1
<1>4. RowEnd(N - 1, col, n) = n
  BY <1>1, <1>3 DEF RowEnd, RowStart
<1>5. ASSUME NEW row \in 0 .. N - 1
      PROVE  row * col \in Nat /\ row * col < n
  <2>1. row * col <= (N - 1) * col
    BY <1>1, Products
  <2>2. row * col \in Nat /\ (N - 1) * col \in Int /\ N * col \in Int
    BY <1>1
  <2>3. QED
    BY <1>1, <1>3, <2>1, <2>2
<1>6. \A row \in 0 .. N - 1 : RowEnd(row, col, n) \in 1 .. n
  BY <1>5 DEF RowEnd, RowStart
<1>7. ASSUME NEW row \in 1 .. N - 1
      PROVE  /\ RowStart(row, col) = RowEnd(row - 1, col, n)
             /\ RowStart(row, col) <= RowEnd(row, col, n)
  <2>1. row \in 0 .. N - 1 /\ (row - 1) * col + col = row * col
    BY <1>1
  <2>2. row * col \in Nat /\ row * col < n
    BY <1>5, <2>1
  <2>3. QED
    BY <2>1, <2>2 DEF RowEnd, RowStart
<1>8. RowStart(0, col) = 0
  BY DEF RowStart
<1> HIDE DEF N
<1>9. RowsMeet(n, col, N)
  BY <1>1, <1>2, <1>4, <1>6, <1>7, <1>8 DEF RowsMeet
<1>10. QED
  BY <1>9 DEF N

LEMMA RowsJoin ==
  ASSUME NEW S, NEW js \in Seq(S), NEW n \in Nat \ {0}, n = Len(js),
         NEW col \in Nat \ {0}, NEW N, N = ItemCount(n, col),
         NEW rows, rows = [r \in 1 .. N |-> Row(js, r - 1, col)]
  PROVE  FlattenSeq(rows) = js
<1> DEFINE g == [i \in 1 .. N |-> SubSeq(js, 1, RowEnd(i - 1, col, n))]
<1>1. RowsMeet(n, col, N)
  BY ItemCountMeets
<1>2. Len(rows) = N
  BY <1>1, IsASeq DEF RowsMeet
<1>3. \A i \in 1 .. N : rows[i] = SubSeq(js, RowStart(i - 1, col) + 1, RowEnd(i - 1, col, n))
  BY Zenon DEF Row
<1>4. \A i \in 1 .. N : g[i] = SubSeq(js, 1, RowEnd(i - 1, col, n))
  BY Zenon
<1>5. g = [i \in 1 .. N |-> g[i]]
  BY Zenon
<1> HIDE DEF g
<1>6. g[1] = rows[1]
  <2>1. 1 \in 1 .. N /\ 1 - 1 = 0 /\ RowStart(1 - 1, col) + 1 = 1
    BY <1>1 DEF RowsMeet
  <2>2. rows[1] = SubSeq(js, 1, RowEnd(1 - 1, col, n))
    BY <1>3, <2>1, Zenon
  <2>3. QED
    BY <1>4, <2>1, <2>2, Zenon
<1>7. ASSUME NEW i \in 2 .. N
      PROVE  g[i] = g[i - 1] \o rows[i]
  <2> DEFINE k == RowEnd(i - 2, col, n)
             m == RowEnd(i - 1, col, n)
  <2>1. /\ i \in 1 .. N /\ i - 1 \in 1 .. N
        /\ i - 1 \in 1 .. N - 1 /\ i - 1 \in 0 .. N - 1 /\ i - 2 \in 0 .. N - 1
        /\ i - 1 - 1 = i - 2
    BY <1>1 DEF RowsMeet
  <2>2. k \in 1 .. n /\ m \in 1 .. n /\ k <= m /\ RowStart(i - 1, col) = k
    BY <1>1, <2>1 DEF RowsMeet
  <2>3. rows[i] = SubSeq(js, k + 1, m)
    BY <1>3, <2>1, <2>2
  <2>4. g[i] = SubSeq(js, 1, m) /\ g[i - 1] = SubSeq(js, 1, k)
    BY <1>4, <2>1
  <2> HIDE DEF k, m
  <2>5. 1 \in 1 .. Len(js) + 1 /\ k \in 1 - 1 .. Len(js) /\ m \in k .. Len(js)
    BY <2>2
  <2>6. SubSeq(js, 1, k) \o SubSeq(js, k + 1, m) = SubSeq(js, 1, m)
    BY <2>5, ConcatAdjacentSubSeq
  <2>7. QED
    BY <2>3, <2>4, <2>6
<1>8. g[N] = js
  <2>1. g[N] = SubSeq(js, 1, n)
    BY <1>1, <1>4 DEF RowsMeet
  <2>2. QED
    BY <2>1, SubSeqFull
<1>9. FlattenSeq(rows) = g[N]
  <2>1. N \in Nat \ {0}
    BY <1>1 DEF RowsMeet
  <2>2. \A i \in 2 .. N : g[i] = g[i - 1] \o rows[i]
    BY <1>7
  <2>3. Joins(g, rows, N)
    BY <2>2, <1>5, <1>6, Zenon DEF Joins
  <2>4. QED
    BY <2>1, <2>3, <1>2, FlattenIs
<1>10. QED
  BY <1>8, <1>9

(* Put one after the other, the rows that CreateStudentGrid cuts out of a  *)
(* list are that list: of any length, for any number of columns.           *)
THEOREM RowsRebuild ==
  ASSUME NEW S, NEW js \in Seq(S), NEW col \in Nat \ {0}
  PROVE  FlattenSeq([r \in 1 .. ItemCount(Len(js), col) |-> Row(js, r - 1, col)]) = js
<1>1. Len(js) \in Nat
  OBVIOUS
<1>2. CASE Len(js) = 0
  <2>1. ItemCount(0, col) = 0
    <3>1. (0 + col - 1) \div col = 0
      BY Z3
    <3>2. QED
      BY <3>1 DEF ItemCount
  <2>2. [r \in 1 .. ItemCount(Len(js), col) |-> Row(js, r - 1, col)] = << >>
    BY <1>2, <2>1
  <2>3. FlattenSeq(<< >>) = << >> /\ js = << >>
    BY <1>2 DEF FlattenSeq
  <2>4. QED
    BY <2>2, <2>3, Zenon
<1>3. CASE Len(js) # 0
  BY <1>1, <1>3, RowsJoin
<1>4. QED
  BY <1>2, <1>3
-----------------------------------------------------------------------------
(* Type correctness.  It needs where the UI thread is in its frame: at a   *)
(* tile of the frame's current row, as long as it draws.                   *)

InFrame ==
  ~Between =>
    /\ at.row \in 0 .. ItemCount(Len(frame), columns) - 1
    /\ at.place \in 1 .. Len(Row(frame, at.row, columns))

LEMMA TileAtIsTile ==
  ASSUME TypeOK, InFrame, ~Between
  PROVE  TileAt \in Join /\ Owner(TileAt) \in Student
<1>1. frame \in Seq(Join) /\ columns \in Nat \ {0}
  BY GridAssumption DEF TypeOK
<1>2. TileAt \in Join
  BY <1>1, RowLength DEF InFrame, TileAt
<1>3. QED
  BY <1>2, GridAssumption DEF Join, Student, Owner

LEMMA JoinOwner == \A j \in Join : Owner(j) \in Student
  BY GridAssumption DEF Join, Student, Owner

LEMMA NoJoinIsNone == NoJoin \notin Join
  BY DEF NoJoin, Join

LEMMA TilesAreJoins ==
  ASSUME TypeOK
  PROVE  Tiles \subseteq Join /\ IsFiniteSet(Tiles) /\ Cardinality(Tiles) \in Nat
<1> DEFINE T == {tile[s] : s \in Student}
<1>1. tile \in Surjection(Student, T)
  BY DEF TypeOK, Surjection
<1>2. IsFiniteSet(Student)
  BY GridAssumption, FS_Interval DEF Student
<1>3. IsFiniteSet(T)
  BY <1>1, <1>2, FS_Surjection
<1>4. IsFiniteSet(Tiles)
  BY <1>3, FS_RemoveElement DEF Tiles
<1>5. QED
  BY <1>4, FS_CardinalityType DEF TypeOK, Tiles

\* The start of a row of the frame.
LEMMA PlaceOne ==
  ASSUME NEW js \in Seq(Join), columns \in Nat \ {0},
         NEW row \in 0 .. ItemCount(Len(js), columns) - 1
  PROVE  1 \in 1 .. Len(Row(js, row, columns))
  BY RowLength

LEMMA GoOnStep ==
  ASSUME TypeOK, InFrame, ~Between, GoOn, columns' = columns
  PROVE  /\ InFrame'
         /\ at' \in [row : Nat, place : Nat]
         /\ frame' \in Seq(Join)
<1> DEFINE row == Row(frame, at.row, columns)
<1>1. /\ frame \in Seq(Join) /\ columns \in Nat \ {0}
      /\ at \in [row : Nat, place : Nat]
  BY GridAssumption DEF TypeOK
<1>2. Len(row) \in Nat
  BY <1>1, RowLength DEF InFrame
<1>3. CASE at.place < Len(row)
  <2>1. at' = [at EXCEPT !.place = @ + 1] /\ frame' = frame
    BY <1>3 DEF GoOn
  <2>2. /\ at'.row = at.row /\ at'.place = at.place + 1
        /\ at' \in [row : Nat, place : Nat]
    BY <1>1, <2>1
  <2>3. InFrame'
    BY <1>2, <1>3, <2>1, <2>2 DEF InFrame
  <2>4. QED
    BY <1>1, <2>1, <2>2, <2>3
<1>4. CASE ~(at.place < Len(row)) /\ at.row + 1 < ItemCount(Len(frame), columns)
  <2>1. at' = [row |-> at.row + 1, place |-> 1] /\ frame' = frame
    BY <1>4 DEF GoOn
  <2>2. at'.row = at.row + 1 /\ at'.place = 1 /\ at' \in [row : Nat, place : Nat]
    BY <1>1, <2>1
  <2>3. at'.row \in 0 .. ItemCount(Len(frame), columns) - 1
    <3>1. ItemCount(Len(frame), columns) \in Nat
      BY <1>1, ItemCountBounds
    <3>2. QED
      BY <1>1, <1>4, <2>2, <3>1
  <2>4. 1 \in 1 .. Len(Row(frame, at'.row, columns))
    BY <1>1, <2>3, PlaceOne
  <2>5. QED
    BY <1>1, <2>1, <2>2, <2>3, <2>4 DEF InFrame
<1>5. CASE ~(at.place < Len(row)) /\ ~(at.row + 1 < ItemCount(Len(frame), columns))
  <2>1. at' = Idle /\ frame' = <<>>
    BY <1>5 DEF GoOn
  <2>2. QED
    BY <2>1 DEF InFrame, Between, Idle
<1>6. QED
  BY <1>3, <1>4, <1>5

LEMMA GetSortedType ==
  ASSUME TypeOK, GetSorted
  PROVE  sorted' \in Seq(Join) /\ needsResort' \in BOOLEAN
<1>1. CASE ~needsResort /\ UNCHANGED <<needsResort, sorted>>
  BY <1>1 DEF TypeOK
<1>2. CASE needsResort' = FALSE /\ sorted' \in SetToSeqs(Tiles)
  <2>1. sorted' \in [1 .. Cardinality(Tiles) -> Tiles]
    BY <1>2 DEF SetToSeqs
  <2>2. sorted' \in Seq(Join)
    <3> DEFINE n == Cardinality(Tiles)
    <3>1. n \in Nat /\ Tiles \subseteq Join
      BY TilesAreJoins
    <3>2. sorted' \in [1 .. n -> Join]
      BY <2>1, <3>1
    <3> HIDE DEF n
    <3>3. QED
      BY <3>1, <3>2, SeqDef
  <2>3. QED
    BY <1>2, <2>2
<1>3. QED
  BY <1>1, <1>2 DEF GetSorted

\* What the UI thread has made belongs to the tile it stands at.
MadeFits == made # NoPicture => ~Between /\ made[1] = TileAt

LEMMA NoPictureIsNone == NoPicture \notin Picture
  BY DEF NoPicture, Picture

\* Steps that leave the frame, its tiles and the columns alone.
LEMMA FrameStays ==
  ASSUME UNCHANGED <<frame, at, columns>>
  PROVE  /\ InFrame => InFrame'
         /\ MadeFits /\ made' = made => MadeFits'
         /\ TileAt' = TileAt /\ (Between' <=> Between)
  BY DEF InFrame, MadeFits, TileAt, Between

LEMMA BeginFrameStep ==
  ASSUME TypeOK, BeginFrame
  PROVE  /\ InFrame'
         /\ at' \in [row : Nat, place : Nat] /\ frame' \in Seq(Join)
         /\ viewer' \in Student \cup {NoStudent}
         /\ sorted' \in Seq(Join) /\ needsResort' \in BOOLEAN
<1>1. sorted' \in Seq(Join) /\ needsResort' \in BOOLEAN
  BY GetSortedType DEF BeginFrame
<1>2. columns \in Nat \ {0} /\ columns' = columns
  BY GridAssumption DEF TypeOK, BeginFrame
<1>3. CASE viewer = NoStudent \/ tile[viewer] = NoJoin
  <2>1. viewer' = NoStudent
    BY <1>3 DEF BeginFrame
  <2>2. CASE at' = Idle /\ frame' = <<>>
    <3>1. InFrame' /\ at' \in [row : Nat, place : Nat] /\ frame' \in Seq(Join)
      BY <2>2 DEF InFrame, Between, Idle
    <3>2. QED
      BY <1>1, <2>1, <3>1
  <2>3. CASE frame' = sorted' /\ \E first \in 0 .. ItemCount(Len(sorted'), columns) - 1 :
                                   at' = [row |-> first, place |-> 1]
    <3>1. PICK first \in 0 .. ItemCount(Len(sorted'), columns) - 1 :
                 at' = [row |-> first, place |-> 1]
      BY <2>3
    <3>2. first \in Nat /\ at'.row = first /\ at'.place = 1
      <4>1. ItemCount(Len(sorted'), columns) \in Nat
        BY <1>1, <1>2, ItemCountBounds
      <4>2. QED
        BY <3>1, <4>1
    <3>3. 1 \in 1 .. Len(Row(sorted', first, columns))
      BY <1>1, <1>2, PlaceOne
    <3>4. InFrame'
      BY <1>2, <2>3, <3>1, <3>2, <3>3 DEF InFrame
    <3>5. at' \in [row : Nat, place : Nat]
      BY <3>1, <3>2
    <3>6. QED
      BY <1>1, <2>1, <2>3, <3>4, <3>5
  <2>4. QED
    BY <1>3, <2>2, <2>3 DEF BeginFrame
<1>4. CASE ~(viewer = NoStudent \/ tile[viewer] = NoJoin)
  <2>1. frame' = <<tile[viewer]>> /\ at' = [row |-> 0, place |-> 1] /\ viewer' = viewer
    BY <1>4 DEF BeginFrame, ViewerFrame
  <2>2. tile[viewer] \in Join /\ viewer \in Student
    BY <1>4 DEF TypeOK
  <2>3. frame' \in Seq(Join) /\ Len(frame') = 1
    BY <2>1, <2>2
  <2>4. at'.row = 0 /\ at'.place = 1 /\ at' \in [row : Nat, place : Nat]
    BY <2>1
  <2>5. ItemCount(1, columns) = 1
    <3>1. (1 + columns - 1) \div columns = 1
      BY <1>2, Z3
    <3>2. QED
      BY <3>1 DEF ItemCount
  <2>6. 0 \in 0 .. ItemCount(Len(frame'), columns) - 1
    BY <2>3, <2>5
  <2>7. 1 \in 1 .. Len(Row(frame', 0, columns))
    BY <1>2, <2>3, <2>6, PlaceOne
  <2>8. InFrame'
    BY <1>2, <2>4, <2>6, <2>7 DEF InFrame
  <2>9. QED
    BY <1>1, <2>1, <2>2, <2>3, <2>4, <2>8
<1>5. QED
  BY <1>3, <1>4

GridInv == TypeOK /\ InFrame /\ MadeFits

LEMMA GridInit == Init => GridInv
<1> SUFFICES ASSUME Init PROVE GridInv
  OBVIOUS
<1> USE GridAssumption
<1>1. /\ tile \in [Student -> Join \cup {NoJoin}] /\ name \in [Join -> 1 .. Names]
      /\ image \in [Join -> Nat] /\ stamp \in [Join -> Nat]
  BY DEF Init
<1>2. cache \in [Student -> (Picture \X Picture) \cup {<<>>}]
  BY DEF Init
<1>3. sorted \in Seq(Join) /\ frame \in Seq(Join)
  BY DEF Init
<1>4. columns \in 1 .. MaxColumns
  BY DEF Init
<1>5. at \in [row : Nat, place : Nat]
  BY DEF Init, Idle
<1>6. /\ up \in BOOLEAN /\ joined \subseteq Join /\ asc \in BOOLEAN /\ needsResort \in BOOLEAN
      /\ busy \in Join \cup {NoJoin} /\ removing \in Student \cup {NoStudent}
      /\ field \in {"name", "id"} /\ viewer \in Student \cup {NoStudent}
      /\ made \in Picture \cup {NoPicture}
  BY DEF Init
<1>7. InFrame /\ MadeFits
  BY DEF Init, InFrame, MadeFits, Between
<1>8. QED
  BY <1>1, <1>2, <1>3, <1>4, <1>5, <1>6, <1>7 DEF GridInv, TypeOK

\* The handlers and the buttons leave the frame alone.
LEMMA HandlersStep == GridInv /\ Handlers => GridInv'
<1> SUFFICES ASSUME TypeOK, InFrame, MadeFits, Handlers PROVE GridInv'
  BY DEF GridInv
<1> USE DEF tileVars, picVars, sortVars, drawVars
<1>1. UNCHANGED <<frame, at, columns, made>>
  BY DEF Handlers, PutImage, Add, UpdateName, PutStamp, RemoveTile, RemoveCached
<1>2. InFrame' /\ MadeFits'
  BY <1>1, FrameStays
<1>3. ASSUME NEW j \in Join, PutImage(j) PROVE TypeOK'
  <2>1. image' \in [Join -> Nat] /\ busy' \in Join \cup {NoJoin}
    <3>1. image' = [image EXCEPT ![j] = image[j] + 1] /\ busy' = j
      BY <1>3, Zenon DEF PutImage
    <3>2. image \in [Join -> Nat] /\ image[j] + 1 \in Nat
      BY DEF TypeOK
    <3>3. QED
      BY <3>1, <3>2
  <2>2. UNCHANGED <<up, joined, tile, name, stamp, removing, field, asc, needsResort,
                    sorted, frame, columns, viewer, cache, at, made>>
    BY <1>3 DEF PutImage, TypeOK
  <2>3. QED
    BY <2>1, <2>2, Zenon DEF TypeOK
<1>4. ASSUME NEW j \in Join, NEW n \in 1 .. Names, Add(j, n) PROVE TypeOK'
  BY <1>4, JoinOwner DEF Add, TypeOK
<1>5. ASSUME NEW j \in Join, NEW n \in 1 .. Names, UpdateName(j, n) PROVE TypeOK'
  BY <1>5 DEF UpdateName, TypeOK
<1>6. ASSUME PutStamp PROVE TypeOK'
  <2>1. stamp' \in [Join -> Nat] /\ busy' \in Join \cup {NoJoin}
    BY <1>6 DEF PutStamp, Free, TypeOK
  <2>2. UNCHANGED <<up, joined, tile, name, image, removing, field, asc, needsResort,
                    sorted, frame, columns, viewer, cache, at, made>>
    BY <1>6 DEF PutStamp, TypeOK
  <2>3. QED
    BY <2>1, <2>2, Zenon DEF TypeOK
<1>7. ASSUME NEW s \in Student, RemoveTile(s) PROVE TypeOK'
  BY <1>7 DEF RemoveTile, TypeOK
<1>8. ASSUME RemoveCached PROVE TypeOK'
  <2>1. /\ cache' \in [Student -> (Picture \X Picture) \cup {<<>>}]
        /\ removing' \in Student \cup {NoStudent}
    BY <1>8 DEF RemoveCached, TypeOK
  <2>2. UNCHANGED <<up, joined, tile, name, image, stamp, busy, field, asc, needsResort,
                    sorted, frame, columns, viewer, at, made>>
    BY <1>8 DEF RemoveCached, TypeOK
  <2>3. QED
    BY <2>1, <2>2, Zenon DEF TypeOK
<1> HIDE DEF tileVars, picVars, sortVars, drawVars
<1>9. QED
  BY <1>2, <1>3, <1>4, <1>5, <1>6, <1>7, <1>8 DEF Handlers, GridInv

LEMMA ButtonsStep == GridInv /\ Buttons => GridInv'
<1> SUFFICES ASSUME TypeOK, InFrame, MadeFits, Buttons PROVE GridInv'
  BY DEF GridInv
<1> USE DEF tileVars, picVars, sortVars, drawVars
<1>1. UNCHANGED <<frame, at, made>> /\ Between
  BY DEF Buttons, CloseRoom, ChangeColumns, ToggleSort, SwitchField, CloseViewer, View,
         ControlsShown
<1>2. InFrame' /\ MadeFits'
  BY <1>1 DEF InFrame, MadeFits, Between
<1>3. ASSUME CloseRoom PROVE TypeOK'
  <2>1. /\ tile' \in [Student -> Join \cup {NoJoin}]
        /\ cache' \in [Student -> (Picture \X Picture) \cup {<<>>}]
    BY <1>3 DEF CloseRoom, TypeOK
  <2>2. sorted' \in Seq(Join)
    BY <1>3 DEF CloseRoom, TypeOK
  <2>3. needsResort' \in BOOLEAN /\ viewer' \in Student \cup {NoStudent}
    BY <1>3 DEF CloseRoom, TypeOK
  <2>4. UNCHANGED <<up, joined, name, image, stamp, busy, removing, field, asc, frame, columns,
                    at, made>>
    BY <1>3 DEF CloseRoom, TypeOK
  <2>5. QED
    BY <2>1, <2>2, <2>3, <2>4, Zenon DEF TypeOK
<1>4. ASSUME ChangeColumns PROVE TypeOK'
  <2>1. columns' \in 1 .. MaxColumns
    BY <1>4 DEF ChangeColumns, TypeOK
  <2>2. UNCHANGED <<up, joined, tile, name, image, stamp, busy, removing, field, asc,
                    needsResort, sorted, frame, viewer, cache, at, made>>
    BY <1>4 DEF ChangeColumns, TypeOK
  <2>3. QED
    BY <2>1, <2>2, Zenon DEF TypeOK
<1>5. ASSUME ToggleSort PROVE TypeOK'
  <2>1. asc' \in BOOLEAN /\ needsResort' \in BOOLEAN
    BY <1>5 DEF ToggleSort, TypeOK
  <2>2. UNCHANGED <<up, joined, tile, name, image, stamp, busy, removing, field, sorted,
                    frame, columns, viewer, cache, at, made>>
    BY <1>5 DEF ToggleSort, TypeOK
  <2>3. QED
    BY <2>1, <2>2, Zenon DEF TypeOK
<1>6. ASSUME SwitchField PROVE TypeOK'
  <2>1. field' \in {"name", "id"} /\ needsResort' \in BOOLEAN
    BY <1>6 DEF SwitchField, TypeOK
  <2>2. UNCHANGED <<up, joined, tile, name, image, stamp, busy, removing, asc, sorted,
                    frame, columns, viewer, cache, at, made>>
    BY <1>6 DEF SwitchField, TypeOK
  <2>3. QED
    BY <2>1, <2>2, Zenon DEF TypeOK
<1>7. ASSUME CloseViewer PROVE TypeOK'
  <2>1. viewer' \in Student \cup {NoStudent}
    BY <1>7 DEF CloseViewer, TypeOK
  <2>2. UNCHANGED <<up, joined, tile, name, image, stamp, busy, removing, field, asc,
                    needsResort, sorted, frame, columns, cache, at, made>>
    BY <1>7 DEF CloseViewer, TypeOK
  <2>3. QED
    BY <2>1, <2>2, Zenon DEF TypeOK
<1>8. ASSUME NEW j \in Join, View(j) PROVE TypeOK'
  BY <1>8, JoinOwner DEF View, TypeOK
<1> HIDE DEF tileVars, picVars, sortVars, drawVars
<1>9. QED
  BY <1>2, <1>3, <1>4, <1>5, <1>6, <1>7, <1>8 DEF Buttons, GridInv

LEMMA FramesStep == GridInv /\ Frames => GridInv'
<1> SUFFICES ASSUME GridInv, Frames PROVE GridInv'
  OBVIOUS
<1>0. TypeOK /\ InFrame /\ MadeFits
  BY DEF GridInv
<1> USE <1>0 DEF tileVars, picVars, sortVars, drawVars
<1>1. CASE BeginFrame
  <2>1. TypeOK'
    BY <1>1, BeginFrameStep DEF BeginFrame, TypeOK
  <2>2. MadeFits'
    BY <1>1 DEF BeginFrame, MadeFits
  <2>3. QED
    BY <1>1, <2>1, <2>2, BeginFrameStep DEF GridInv
<1>2. CASE DrawOld
  <2>1. InFrame' /\ at' \in [row : Nat, place : Nat] /\ frame' \in Seq(Join)
    BY <1>2, GoOnStep DEF DrawOld, Drawing
  <2>2. TypeOK'
    BY <1>2, <2>1 DEF DrawOld, TypeOK
  <2>3. MadeFits'
    BY <1>2 DEF DrawOld, Drawing, MadeFits
  <2>4. QED
    BY <2>1, <2>2, <2>3 DEF GridInv
<1>3. CASE MakeOp
  <2>1. TileAt \in Join
    BY <1>3, TileAtIsTile DEF MakeOp, Drawing
  <2>2. made' \in Picture /\ made'[1] = TileAt
    BY <1>3, <2>1 DEF MakeOp, TypeOK, Picture
  <2>3. TypeOK'
    BY <1>3, <2>2 DEF MakeOp, TypeOK
  <2>4. UNCHANGED <<frame, at, columns>> /\ ~Between
    BY <1>3 DEF MakeOp, Drawing
  <2>5. InFrame' /\ TileAt' = TileAt /\ ~Between'
    BY <2>4, FrameStays
  <2>6. MadeFits'
    BY <2>2, <2>5 DEF MadeFits
  <2>7. QED
    BY <2>3, <2>5, <2>6 DEF GridInv
<1>4. CASE StoreOp
  <2>1. ~Between /\ made \in Picture
    BY <1>4 DEF StoreOp, MadeFits, TypeOK
  <2>2. TileAt \in Join /\ Owner(TileAt) \in Student
    BY <2>1, TileAtIsTile
  <2>3. <<TileAt, stamp[TileAt]>> \in Picture
    BY <2>2 DEF TypeOK, Picture
  <2>4. cache' \in [Student -> (Picture \X Picture) \cup {<<>>}]
    BY <1>4, <2>1, <2>2, <2>3 DEF StoreOp, TypeOK
  <2>5. InFrame' /\ at' \in [row : Nat, place : Nat] /\ frame' \in Seq(Join)
    BY <1>4, <2>1, GoOnStep DEF StoreOp
  <2>6. TypeOK'
    BY <1>4, <2>4, <2>5 DEF StoreOp, TypeOK
  <2>7. MadeFits'
    BY <1>4 DEF StoreOp, MadeFits
  <2>8. QED
    BY <2>5, <2>6, <2>7 DEF GridInv
<1>5. CASE EndFrame
  <2>1. at' = Idle /\ frame' = <<>> /\ made' = NoPicture
    BY <1>5 DEF EndFrame, Drawing
  <2>2. InFrame' /\ MadeFits'
    BY <2>1 DEF InFrame, MadeFits, Between
  <2>3. at' \in [row : Nat, place : Nat] /\ frame' \in Seq(Join)
    BY <2>1 DEF Idle
  <2>4. TypeOK'
    BY <1>5, <2>1, <2>3 DEF EndFrame, TypeOK
  <2>5. QED
    BY <2>2, <2>4 DEF GridInv
<1> HIDE <1>0 DEF tileVars, picVars, sortVars, drawVars
<1>6. QED
  BY <1>1, <1>2, <1>3, <1>4, <1>5 DEF Frames

LEMMA GridStep == GridInv /\ [Next]_vars => GridInv'
<1> SUFFICES ASSUME GridInv, [Next]_vars PROVE GridInv'
  OBVIOUS
<1>1. CASE Race \/ UNCHANGED vars
  <2>1. UNCHANGED <<tileVars, picVars, removing, sortVars, columns, viewer, cache, drawVars>>
        /\ up' \in BOOLEAN
    BY <1>1 DEF Race, vars, GridInv, TypeOK
  <2>2. InFrame' /\ MadeFits'
    BY <2>1, FrameStays DEF drawVars, GridInv
  <2>3. TypeOK'
    BY <2>1 DEF GridInv, TypeOK, tileVars, picVars, sortVars, drawVars
  <2>4. QED
    BY <2>2, <2>3 DEF GridInv
<1>2. QED
  BY <1>1, HandlersStep, ButtonsStep, FramesStep DEF Next

LEMMA GridInvAlways == Spec => []GridInv
  BY GridInit, GridStep, PTL DEF Spec

(* Every variable of the grid keeps to its type.                           *)
THEOREM GridTypeCorrect == Spec => []TypeOK
<1>1. GridInv => TypeOK
  BY DEF GridInv
<1>2. QED
  BY <1>1, GridInvAlways, PTL

(* Whatever the number of columns, the rows show every tile of the         *)
(* snapshot, in its order and once (layoutDashboard, CreateStudentGrid).   *)
THEOREM RowsShowAllAlways == Spec => []RowsShowAll
<1>1. TypeOK => RowsShowAll
  <2>1. SUFFICES ASSUME TypeOK PROVE RowsShowAll
    OBVIOUS
  <2>2. sorted \in Seq(Join) /\ columns \in Nat \ {0}
    BY <2>1, GridAssumption DEF TypeOK
  <2>3. QED
    BY <2>2, RowsRebuild DEF RowsShowAll
<1>2. QED
  BY <1>1, GridTypeCorrect, PTL
-----------------------------------------------------------------------------
(* The pictures.  Whatever is in the cache was made of the tile whose time *)
(* it carries, because the UI thread makes an operation and stores it      *)
(* while it stands at one tile.                                            *)

CacheAgrees == \A s \in Student : cache[s] # <<>> => cache[s][1][1] = cache[s][2][1]

LEMMA CacheStep == GridInv /\ CacheAgrees /\ [Next]_vars => CacheAgrees'
<1> SUFFICES ASSUME GridInv, CacheAgrees, [Next]_vars PROVE CacheAgrees'
  OBVIOUS
<1>0. TypeOK /\ InFrame /\ MadeFits
  BY DEF GridInv
<1>1. CASE cache' = cache
  BY <1>1, Zenon DEF CacheAgrees
<1>2. CASE RemoveCached
  <2>1. cache' = [cache EXCEPT ![removing] = <<>>]
    BY <1>2, Zenon DEF RemoveCached
  <2>2. QED
    BY <1>0, <2>1 DEF CacheAgrees, TypeOK
<1>3. CASE CloseRoom
  <2>1. cache' = [s \in Student |-> <<>>]
    BY <1>3, Zenon DEF CloseRoom
  <2>2. QED
    BY <2>1 DEF CacheAgrees
<1>4. CASE StoreOp
  <2>1. /\ made # NoPicture
        /\ cache' = [cache EXCEPT ![Owner(TileAt)] = <<made, <<TileAt, stamp[TileAt]>>>>]
    BY <1>4, Zenon DEF StoreOp
  <2>2. made[1] = TileAt
    BY <1>0, <2>1 DEF MadeFits
  <2> DEFINE new == <<made, <<TileAt, stamp[TileAt]>>>>
  <2>3. new[1][1] = new[2][1]
    BY <2>2
  <2>4. cache' = [cache EXCEPT ![Owner(TileAt)] = new]
    BY <2>1
  <2> HIDE DEF new
  <2>5. QED
    BY <1>0, <2>3, <2>4 DEF CacheAgrees, TypeOK
<1>5. cache' = cache \/ RemoveCached \/ CloseRoom \/ StoreOp
  BY Zenon DEF Next, vars, Race, Handlers, Buttons, Frames, PutImage, Add, UpdateName, PutStamp,
               RemoveTile, ChangeColumns, ToggleSort, SwitchField, CloseViewer, View, BeginFrame,
               DrawOld, MakeOp, EndFrame
<1>6. QED
  BY <1>1, <1>2, <1>3, <1>4, <1>5

(* A picture is drawn in the tile of the join that sent it (GetImageOp).   *)
THEOREM DrawnBelongsAlways == Spec => []DrawnBelongs
<1>1. Init => CacheAgrees
  BY DEF Init, CacheAgrees
<1>2. GridInv /\ CacheAgrees => DrawnBelongs
  <2>1. SUFFICES ASSUME GridInv, CacheAgrees, ~Between, Hit(TileAt)
                 PROVE  cache[Owner(TileAt)][1][1] = TileAt
    BY DEF DrawnBelongs
  <2>2. Owner(TileAt) \in Student
    BY <2>1, TileAtIsTile DEF GridInv
  <2>3. /\ cache[Owner(TileAt)] # <<>>
        /\ cache[Owner(TileAt)][2] = <<TileAt, stamp[TileAt]>>
    BY <2>1, Zenon DEF Hit
  <2>4. cache[Owner(TileAt)][1][1] = cache[Owner(TileAt)][2][1]
    BY <2>1, <2>2, <2>3 DEF CacheAgrees
  <2>5. QED
    BY <2>3, <2>4
<1>3. QED
  BY <1>1, <1>2, CacheStep, GridInvAlways, PTL DEF Spec
-----------------------------------------------------------------------------
(* The snapshot.  Every step that changes the tiles, their names, or the   *)
(* order asked for also asks for a new sort.                               *)

SortInv == ~needsResort => sorted \in SetToSeqs(Tiles) /\ Ordered(sorted)

LEMMA OrderStays ==
  ASSUME UNCHANGED <<tile, name, field, asc>>
  PROVE  Tiles' = Tiles /\ \A js : Ordered(js)' <=> Ordered(js)
  BY DEF Tiles, Ordered, Key

LEMMA SortStep == SortInv /\ [Next]_vars => SortInv'
<1> SUFFICES ASSUME SortInv, [Next]_vars PROVE SortInv'
  OBVIOUS
<1> USE DEF tileVars, sortVars
<1>1. CASE needsResort' = TRUE
  BY <1>1 DEF SortInv
<1>2. CASE UNCHANGED <<tile, name, field, asc, needsResort, sorted>>
  BY <1>2, Zenon DEF SortInv, Tiles, Ordered, Key
<1>3. CASE BeginFrame
  <2>1. GetSorted /\ UNCHANGED <<tile, name, field, asc>>
    BY <1>3, Zenon DEF BeginFrame
  <2>2. CASE UNCHANGED <<needsResort, sorted>>
    BY <2>1, <2>2, Zenon DEF SortInv, Tiles, Ordered, Key
  <2>3. CASE sorted' \in SetToSeqs(Tiles) /\ Ordered(sorted')
    BY <2>1, <2>3, Zenon DEF SortInv, Tiles, Ordered, Key
  <2>4. QED
    BY <2>1, <2>2, <2>3, Zenon DEF GetSorted
<1>4. \/ needsResort' = TRUE
      \/ UNCHANGED <<tile, name, field, asc, needsResort, sorted>>
      \/ BeginFrame
  <2>1. CASE UNCHANGED vars
    BY <2>1, Zenon DEF vars
  <2>2. CASE Race
    BY <2>2, Zenon DEF Race
  <2>3. CASE Handlers
    BY <2>3, Zenon DEF Handlers, PutImage, Add, UpdateName, PutStamp, RemoveTile, RemoveCached
  <2>4. CASE Buttons
    BY <2>4, Zenon DEF Buttons, CloseRoom, ChangeColumns, ToggleSort, SwitchField, CloseViewer, View
  <2>5. CASE Frames
    BY <2>5, Zenon DEF Frames, DrawOld, MakeOp, StoreOp, EndFrame
  <2>6. QED
    BY <2>1, <2>2, <2>3, <2>4, <2>5, Zenon DEF Next
<1>5. QED
  BY <1>1, <1>2, <1>3, <1>4

\* What SetToSeqs says of one of its members.
LEMMA SortedSet ==
  ASSUME NEW T, IsFiniteSet(T), NEW js \in SetToSeqs(T)
  PROVE  ToSet(js) = T /\ Len(js) = Cardinality(T)
<1> DEFINE n == Cardinality(T)
<1>1. n \in Nat
  BY FS_CardinalityType
<1>2. js \in [1 .. n -> T] /\ \A a, b \in 1 .. n : a # b => js[a] # js[b]
  BY DEF SetToSeqs
<1> HIDE DEF n
<1>3. \A a, b \in DOMAIN js : js[a] = js[b] => a = b
  BY <1>2
<1>4. Len(js) = n /\ js \in Seq(T) /\ DOMAIN js = 1 .. n
  BY <1>1, <1>2, SeqDef
<1>5. ToSet(js) \subseteq T
  BY <1>2, <1>4 DEF ToSet
<1>6. ExistsBijection(1 .. n, ToSet(js))
  <2>1. js \in Bijection(1 .. n, ToSet(js))
    BY <1>2, <1>3, <1>4 DEF ToSet, Bijection, Injection, Surjection, IsInjective
  <2>2. QED
    BY <2>1 DEF ExistsBijection
<1>7. IsFiniteSet(1 .. n) /\ Cardinality(1 .. n) = n
  BY <1>1, FS_Interval
<1>8. IsFiniteSet(ToSet(js)) /\ Cardinality(ToSet(js)) = n
  BY <1>6, <1>7, FS_Bijection
<1>9. ToSet(js) = T
  BY <1>5, <1>8, FS_Subset DEF n
<1>10. QED
  BY <1>4, <1>9 DEF n

(* A snapshot that is not to be sorted again is the tiles there are, in    *)
(* the order asked for (GetSorted).                                        *)
THEOREM SnapshotIsCurrentAlways == Spec => []SnapshotIsCurrent
<1>1. Init => SortInv
  BY DEF Init, SortInv
<1>2. GridInv /\ SortInv => SnapshotIsCurrent
  <2>1. SUFFICES ASSUME GridInv, sorted \in SetToSeqs(Tiles), Ordered(sorted)
                 PROVE  ToSet(sorted) = Tiles /\ Len(sorted) = Cardinality(Tiles)
    BY DEF SortInv, SnapshotIsCurrent
  <2>2. IsFiniteSet(Tiles)
    BY <2>1, TilesAreJoins DEF GridInv
  <2>3. QED
    BY <2>1, <2>2, SortedSet
<1>3. QED
  BY <1>1, <1>2, SortStep, GridInvAlways, PTL DEF Spec
=============================================================================
