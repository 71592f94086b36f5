-------------------------- MODULE ResultPagesProofs --------------------------
(***************************************************************************)
(* A page is a slice: whatever the sizes of the batches, the loop of       *)
(* InlineResultStore::page takes the rows that were asked for, and what is *)
(* written of them is what the client reads.                               *)
(***************************************************************************)
EXTENDS ResultEncoding, SequenceFacts

BatchesOf(V) == [rows : Seq(V), bytes : Nat]

-----------------------------------------------------------------------------
(* The sums and the rows, batch by batch. *)

\* Each sum is the one before and the next number.
LEMMA SumsGrow ==
    ASSUME NEW numbers \in Seq(Nat)
    PROVE  /\ SumsUpTo(numbers) \in [0..Len(numbers) -> Nat]
           /\ SumsUpTo(numbers)[0] = 0
           /\ \A n \in 1..Len(numbers) : SumsUpTo(numbers)[n] = SumsUpTo(numbers)[n - 1] + numbers[n]
<1>. DEFINE N == Len(numbers)
            S == Nat
            base == 0
            Is(g) == g = [n \in 0..N |-> IF n = 0 THEN base ELSE g[n - 1] + numbers[n]]
            step == [p \in (1..N) \X S |-> p[2] + numbers[p[1]]]
            all == SumsUpTo(numbers)
<1>1. N \in Nat /\ base \in S
  OBVIOUS
<1>2. all = CHOOSE g : Is(g)
  BY DEF SumsUpTo
<1>. HIDE DEF base, all
<1>3. step \in [(1..N) \X S -> S]
  <2>1. \A n \in 1..N : numbers[n] \in Nat
    OBVIOUS
  <2>. QED  BY <2>1
<1>4. \A v \in S, n \in 1..N : step[<<n, v>>] = v + numbers[n]
  OBVIOUS
<1>. HIDE DEF S, step
<1>5. PICK f \in [0..N -> S] : Recurses(f, N, base, step)
  <2>. HIDE DEF N
  <2>. QED  BY <1>1, <1>3, RecursionExists
<1>6. Is(f)
  <2>. DEFINE h == [n \in 0..N |-> IF n = 0 THEN base ELSE f[n - 1] + numbers[n]]
  <2>1. f[0] = h[0]
    BY <1>1, <1>5 DEF Recurses
  <2>2. ASSUME NEW n \in 1..N
        PROVE  f[n] = h[n]
    <3>1. n - 1 \in 0..N /\ n \in 0..N /\ n # 0
      BY <1>1
    <3>2. f[n] = step[<<n, f[n - 1]>>] /\ f[n - 1] \in S
      BY <1>5, <3>1 DEF Recurses
    <3>. QED  BY <1>4, <3>1, <3>2
  <2>3. \A n \in 0..N : f[n] = h[n]
    <3>. TAKE n \in 0..N
    <3>1. n = 0 \/ n \in 1..N
      BY <1>1
    <3>. HIDE DEF h
    <3>. QED  BY <2>1, <2>2, <3>1
  <2>4. DOMAIN f = 0..N /\ DOMAIN h = 0..N /\ f = [n \in 0..N |-> f[n]] /\ h = [n \in 0..N |-> h[n]]
    OBVIOUS
  <2>5. f = h
    <3>. HIDE DEF h
    <3>. QED  BY <2>3, <2>4
  <2>. QED  BY <2>5
<1>7. Is(all)
  <2>. HIDE DEF Is
  <2>. QED  BY <1>2, <1>6
<1>8. all = [n \in 0..N |-> all[n]]
  BY <1>7
<1>9. all[0] = base
  BY <1>1, <1>7
<1>10. \A n \in 1..N : all[n] = all[n - 1] + numbers[n]
  <2>. TAKE n \in 1..N
  <2>1. n \in 0..N /\ n # 0
    BY <1>1
  <2>. QED  BY <1>7, <2>1
<1>11. all \in [0..N -> S]
  <2>1. RecursesIn(S, all, N, base, step)
    BY <1>4, <1>9, <1>10 DEF RecursesIn
  <2>2. \A n \in 0..N : all[n] \in S
    <3>. HIDE DEF N
    <3>. QED  BY <1>1, <1>3, <2>1, RecursionType
  <2>. QED  BY <1>8, <2>2
<1>. QED  BY <1>9, <1>10, <1>11 DEF all, S, base

\* Each batch adds its rows.
LEMMA RowsGrow ==
    ASSUME NEW V, NEW batches \in Seq(BatchesOf(V))
    PROVE  /\ RowsUpTo(batches) \in [0..Len(batches) -> Seq(V)]
           /\ RowsUpTo(batches)[0] = <<>>
           /\ \A n \in 1..Len(batches) : RowsUpTo(batches)[n] = RowsUpTo(batches)[n - 1] \o batches[n].rows
<1>. DEFINE N == Len(batches)
            S == Seq(V)
            base == <<>>
            Is(g) == g = [n \in 0..N |-> IF n = 0 THEN base ELSE g[n - 1] \o batches[n].rows]
            step == [p \in (1..N) \X S |-> p[2] \o batches[p[1]].rows]
            all == RowsUpTo(batches)
<1>1. N \in Nat /\ base \in S
  BY EmptySeq
<1>2. all = CHOOSE g : Is(g)
  BY DEF RowsUpTo
<1>. HIDE DEF base, all
<1>3. step \in [(1..N) \X S -> S]
  <2>1. ASSUME NEW n \in 1..N
        PROVE  batches[n].rows \in Seq(V)
    <3>1. batches[n] \in BatchesOf(V)
      OBVIOUS
    <3>. QED  BY <3>1 DEF BatchesOf
  <2>. QED  BY <2>1
<1>4. \A v \in S, n \in 1..N : step[<<n, v>>] = v \o batches[n].rows
  OBVIOUS
<1>. HIDE DEF S, step
<1>5. PICK f \in [0..N -> S] : Recurses(f, N, base, step)
  <2>. HIDE DEF N
  <2>. QED  BY <1>1, <1>3, RecursionExists
<1>6. Is(f)
  <2>. DEFINE h == [n \in 0..N |-> IF n = 0 THEN base ELSE f[n - 1] \o batches[n].rows]
  <2>1. f[0] = h[0]
    BY <1>1, <1>5 DEF Recurses
  <2>2. ASSUME NEW n \in 1..N
        PROVE  f[n] = h[n]
    <3>1. n - 1 \in 0..N /\ n \in 0..N /\ n # 0
      BY <1>1
    <3>2. f[n] = step[<<n, f[n - 1]>>] /\ f[n - 1] \in S
      BY <1>5, <3>1 DEF Recurses
    <3>. QED  BY <1>4, <3>1, <3>2
  <2>3. \A n \in 0..N : f[n] = h[n]
    <3>. TAKE n \in 0..N
    <3>1. n = 0 \/ n \in 1..N
      BY <1>1
    <3>. HIDE DEF h
    <3>. QED  BY <2>1, <2>2, <3>1
  <2>4. DOMAIN f = 0..N /\ DOMAIN h = 0..N /\ f = [n \in 0..N |-> f[n]] /\ h = [n \in 0..N |-> h[n]]
    OBVIOUS
  <2>5. f = h
    <3>. HIDE DEF h
    <3>. QED  BY <2>3, <2>4
  <2>. QED  BY <2>5
<1>7. Is(all)
  <2>. HIDE DEF Is
  <2>. QED  BY <1>2, <1>6
<1>8. all = [n \in 0..N |-> all[n]]
  BY <1>7
<1>9. all[0] = base
  BY <1>1, <1>7
<1>10. \A n \in 1..N : all[n] = all[n - 1] \o batches[n].rows
  <2>. TAKE n \in 1..N
  <2>1. n \in 0..N /\ n # 0
    BY <1>1
  <2>. QED  BY <1>7, <2>1
<1>11. all \in [0..N -> S]
  <2>1. RecursesIn(S, all, N, base, step)
    BY <1>4, <1>9, <1>10 DEF RecursesIn
  <2>2. \A n \in 0..N : all[n] \in S
    <3>. HIDE DEF N
    <3>. QED  BY <1>1, <1>3, <2>1, RecursionType
  <2>. QED  BY <1>8, <2>2
<1>. QED  BY <1>9, <1>10, <1>11 DEF all, S, base

\* What the loop has: rows to skip, rows to take and the slices taken.
Loops(V) == [skip : Nat, take : Nat, batches : Seq(BatchesOf(V))]

\* The loop stays within these.
LEMMA TakeFromType ==
    ASSUME NEW V, NEW done \in Loops(V), NEW batch \in BatchesOf(V)
    PROVE  TakeFrom(done, batch) \in Loops(V)
<1>. DEFINE rows == Len(batch.rows)
            take == Smaller(rows - done.skip, done.take)
            slice == [batch EXCEPT !.rows = SubSeq(batch.rows, done.skip + 1, done.skip + take)]
<1>1. rows \in Nat /\ batch.rows \in Seq(V) /\ done.skip \in Nat /\ done.take \in Nat
      /\ done.batches \in Seq(BatchesOf(V))
  BY DEF BatchesOf, Loops
<1>2. CASE done.take = 0
  BY <1>2 DEF TakeFrom
<1>3. CASE done.take > 0 /\ done.skip >= rows
  <2>1. done.skip - rows \in Nat
    BY <1>1, <1>3
  <2>2. TakeFrom(done, batch) = [done EXCEPT !.skip = @ - rows]
    BY <1>1, <1>3 DEF TakeFrom
  <2>. QED  BY <2>1, <2>2 DEF Loops
<1>4. CASE done.take > 0 /\ done.skip < rows
  <2>1. take \in Nat /\ done.take - take \in Nat /\ done.skip + take <= rows
    BY <1>1, <1>4 DEF Smaller
  <2>2. SubSeq(batch.rows, done.skip + 1, done.skip + take) \in Seq(V)
    <3>1. done.skip \in 0..Len(batch.rows) /\ done.skip + take \in done.skip..Len(batch.rows)
      BY <1>1, <2>1
    <3>. HIDE DEF take
    <3>. QED  BY <1>1, <3>1, Slice
  <2>3. slice \in BatchesOf(V)
    BY <2>2 DEF BatchesOf
  <2>4. TakeFrom(done, batch) = [skip |-> 0, take |-> done.take - take,
                                 batches |-> Append(done.batches, slice)]
    BY <1>1, <1>4 DEF TakeFrom
  <2>. HIDE DEF slice, take
  <2>5. Append(done.batches, slice) \in Seq(BatchesOf(V))
    BY <1>1, <2>3
  <2>. QED  BY <2>1, <2>4, <2>5 DEF Loops
<1>. QED  BY <1>1, <1>2, <1>3, <1>4

\* The loop takes from one batch after the other.
LEMMA TakenGrow ==
    ASSUME NEW V, NEW batches \in Seq(BatchesOf(V)), NEW start \in Nat, NEW count \in Nat
    PROVE  /\ TakenUpTo(batches, start, count) \in [0..Len(batches) -> Loops(V)]
           /\ TakenUpTo(batches, start, count)[0] = [skip |-> start, take |-> count, batches |-> <<>>]
           /\ \A n \in 1..Len(batches) : TakenUpTo(batches, start, count)[n] = TakeFrom(TakenUpTo(batches, start, count)[n - 1], batches[n])
<1>. DEFINE N == Len(batches)
            S == Loops(V)
            base == [skip |-> start, take |-> count, batches |-> <<>>]
            Is(g) == g = [n \in 0..N |-> IF n = 0 THEN base ELSE TakeFrom(g[n - 1], batches[n])]
            step == [p \in (1..N) \X S |-> TakeFrom(p[2], batches[p[1]])]
            all == TakenUpTo(batches, start, count)
<1>1. N \in Nat /\ base \in S
  BY EmptySeq DEF Loops
<1>2. all = CHOOSE g : Is(g)
  BY DEF TakenUpTo
<1>. HIDE DEF base, all
<1>3. step \in [(1..N) \X S -> S]
  <2>1. \A n \in 1..N : batches[n] \in BatchesOf(V)
    OBVIOUS
  <2>. QED  BY <2>1, TakeFromType
<1>4. \A v \in S, n \in 1..N : step[<<n, v>>] = TakeFrom(v, batches[n])
  OBVIOUS
<1>. HIDE DEF S, step
<1>5. PICK f \in [0..N -> S] : Recurses(f, N, base, step)
  <2>. HIDE DEF N
  <2>. QED  BY <1>1, <1>3, RecursionExists
<1>6. Is(f)
  <2>. DEFINE h == [n \in 0..N |-> IF n = 0 THEN base ELSE TakeFrom(f[n - 1], batches[n])]
  <2>1. f[0] = h[0]
    BY <1>1, <1>5 DEF Recurses
  <2>2. ASSUME NEW n \in 1..N
        PROVE  f[n] = h[n]
    <3>1. n - 1 \in 0..N /\ n \in 0..N /\ n # 0
      BY <1>1
    <3>2. f[n] = step[<<n, f[n - 1]>>] /\ f[n - 1] \in S
      BY <1>5, <3>1 DEF Recurses
    <3>. QED  BY <1>4, <3>1, <3>2
  <2>3. \A n \in 0..N : f[n] = h[n]
    <3>. TAKE n \in 0..N
    <3>1. n = 0 \/ n \in 1..N
      BY <1>1
    <3>. HIDE DEF h
    <3>. QED  BY <2>1, <2>2, <3>1
  <2>4. DOMAIN f = 0..N /\ DOMAIN h = 0..N /\ f = [n \in 0..N |-> f[n]] /\ h = [n \in 0..N |-> h[n]]
    OBVIOUS
  <2>5. f = h
    <3>. HIDE DEF h
    <3>. QED  BY <2>3, <2>4
  <2>. QED  BY <2>5
<1>7. Is(all)
  <2>. HIDE DEF Is
  <2>. QED  BY <1>2, <1>6
<1>8. all = [n \in 0..N |-> all[n]]
  BY <1>7
<1>9. all[0] = base
  BY <1>1, <1>7
<1>10. \A n \in 1..N : all[n] = TakeFrom(all[n - 1], batches[n])
  <2>. TAKE n \in 1..N
  <2>1. n \in 0..N /\ n # 0
    BY <1>1
  <2>. QED  BY <1>7, <2>1
<1>11. all \in [0..N -> S]
  <2>1. RecursesIn(S, all, N, base, step)
    BY <1>4, <1>9, <1>10 DEF RecursesIn
  <2>2. \A n \in 0..N : all[n] \in S
    <3>. HIDE DEF N
    <3>. QED  BY <1>1, <1>3, <2>1, RecursionType
  <2>. QED  BY <1>8, <2>2
<1>. QED  BY <1>9, <1>10, <1>11 DEF all, S, base

-----------------------------------------------------------------------------
(* A batch more *)

\* A number more adds to the sum.
LEMMA SumOfAppend ==
    ASSUME NEW numbers \in Seq(Nat), NEW x \in Nat
    PROVE  SumsUpTo(Append(numbers, x))[Len(numbers) + 1] = SumsUpTo(numbers)[Len(numbers)] + x
<1>. DEFINE longer == Append(numbers, x)
            N == Len(numbers)
            T == {n \in 0..N : SumsUpTo(longer)[n] = SumsUpTo(numbers)[n]}
<1>1. N \in Nat /\ longer \in Seq(Nat) /\ Len(longer) = N + 1
      /\ (\A n \in 1..N : longer[n] = numbers[n]) /\ longer[N + 1] = x
  BY AppendProperties
<1>. HIDE DEF longer
<1>2. SumsUpTo(longer)[0] = 0
      /\ \A n \in 1..(N + 1) : SumsUpTo(longer)[n] = SumsUpTo(longer)[n - 1] + longer[n]
  BY <1>1, SumsGrow
<1>3. SumsUpTo(numbers)[0] = 0
      /\ \A n \in 1..N : SumsUpTo(numbers)[n] = SumsUpTo(numbers)[n - 1] + numbers[n]
  BY SumsGrow
<1>4. 0 \in T
  BY <1>1, <1>2, <1>3
<1>5. ASSUME NEW n \in 1..N, n - 1 \in T
      PROVE  n \in T
  <2>1. n \in 1..(N + 1) /\ n \in 0..N
    BY <1>1
  <2>. QED  BY <1>1, <1>2, <1>3, <1>5, <2>1
<1>6. \A n \in 0..N : n \in T
  <2>. HIDE DEF T, N
  <2>. QED  BY <1>1, <1>4, <1>5, Induction
<1>7. SumsUpTo(longer)[N] = SumsUpTo(numbers)[N]
  BY <1>1, <1>6
<1>8. SumsUpTo(longer)[N + 1] = SumsUpTo(longer)[N] + longer[N + 1]
  <2>. DEFINE m == N + 1
  <2>1. m \in 1..(N + 1) /\ m - 1 = N
    BY <1>1
  <2>2. SumsUpTo(longer)[m] = SumsUpTo(longer)[m - 1] + longer[m]
    <3>. HIDE DEF m
    <3>. QED  BY <1>2, <2>1
  <2>. QED  BY <2>1, <2>2
<1>. QED  BY <1>1, <1>7, <1>8 DEF longer

\* Without a batch there are no rows; a batch more brings its rows.
LEMMA RowsOfAppend ==
    ASSUME NEW V, NEW batches \in Seq(BatchesOf(V)), NEW batch \in BatchesOf(V)
    PROVE  AllRows(Append(batches, batch)) = AllRows(batches) \o batch.rows
<1>. DEFINE longer == Append(batches, batch)
            N == Len(batches)
            T == {n \in 0..N : RowsUpTo(longer)[n] = RowsUpTo(batches)[n]}
<1>1. N \in Nat /\ longer \in Seq(BatchesOf(V)) /\ Len(longer) = N + 1
      /\ (\A n \in 1..N : longer[n] = batches[n]) /\ longer[N + 1] = batch
  BY AppendProperties
<1>. HIDE DEF longer
<1>2. RowsUpTo(longer)[0] = <<>>
      /\ \A n \in 1..(N + 1) : RowsUpTo(longer)[n] = RowsUpTo(longer)[n - 1] \o longer[n].rows
  BY <1>1, RowsGrow
<1>3. RowsUpTo(batches)[0] = <<>>
      /\ \A n \in 1..N : RowsUpTo(batches)[n] = RowsUpTo(batches)[n - 1] \o batches[n].rows
  BY RowsGrow
<1>4. 0 \in T
  BY <1>1, <1>2, <1>3
<1>5. ASSUME NEW n \in 1..N, n - 1 \in T
      PROVE  n \in T
  <2>1. n \in 1..(N + 1) /\ n \in 0..N
    BY <1>1
  <2>. QED  BY <1>1, <1>2, <1>3, <1>5, <2>1
<1>6. \A n \in 0..N : n \in T
  <2>. HIDE DEF T, N
  <2>. QED  BY <1>1, <1>4, <1>5, Induction
<1>7. RowsUpTo(longer)[N] = RowsUpTo(batches)[N]
  BY <1>1, <1>6
<1>8. RowsUpTo(longer)[N + 1] = RowsUpTo(longer)[N] \o longer[N + 1].rows
  <2>. DEFINE m == N + 1
  <2>1. m \in 1..(N + 1) /\ m - 1 = N
    BY <1>1
  <2>2. RowsUpTo(longer)[m] = RowsUpTo(longer)[m - 1] \o longer[m].rows
    <3>. HIDE DEF m
    <3>. QED  BY <1>2, <2>1
  <2>. QED  BY <2>1, <2>2
<1>. QED  BY <1>1, <1>7, <1>8 DEF longer, AllRows

\* The rows of a result are as many as it counts.
LEMMA RowsAreCounted ==
    ASSUME NEW V, NEW batches \in Seq(BatchesOf(V))
    PROVE  /\ AllRows(batches) \in Seq(V)
           /\ Len(AllRows(batches)) = RowCount(batches)
           /\ RowCount(batches) \in Nat
           /\ batches = <<>> => RowCount(batches) = 0 /\ AllRows(batches) = <<>>
<1>. DEFINE N == Len(batches)
            numbers == [i \in DOMAIN batches |-> Len(batches[i].rows)]
            rows == RowsUpTo(batches)
            sums == SumsUpTo(numbers)
            T == {n \in 0..N : Len(rows[n]) = sums[n]}
<1>1. N \in Nat /\ DOMAIN batches = 1..N
  OBVIOUS
<1>2. \A n \in 1..N : batches[n].rows \in Seq(V) /\ Len(batches[n].rows) \in Nat
  <2>. TAKE n \in 1..N
  <2>1. batches[n] \in BatchesOf(V)
    OBVIOUS
  <2>. QED  BY <2>1 DEF BatchesOf
<1>3. numbers \in Seq(Nat) /\ Len(numbers) = N /\ \A n \in 1..N : numbers[n] = Len(batches[n].rows)
  BY <1>1, <1>2
<1>4. sums \in [0..N -> Nat] /\ sums[0] = 0 /\ \A n \in 1..N : sums[n] = sums[n - 1] + numbers[n]
  <2>. HIDE DEF numbers
  <2>. QED  BY <1>3, SumsGrow
<1>5. rows \in [0..N -> Seq(V)] /\ rows[0] = <<>> /\ \A n \in 1..N : rows[n] = rows[n - 1] \o batches[n].rows
  BY RowsGrow
<1>. HIDE DEF numbers, sums, rows
<1>6. 0 \in T
  BY <1>1, <1>4, <1>5, EmptySeq
<1>7. ASSUME NEW n \in 1..N, n - 1 \in T
      PROVE  n \in T
  <2>1. n - 1 \in 0..N /\ n \in 0..N
    BY <1>1
  <2>2. rows[n - 1] \in Seq(V) /\ batches[n].rows \in Seq(V)
    BY <1>2, <1>5, <2>1
  <2>3. Len(rows[n]) = Len(rows[n - 1]) + Len(batches[n].rows)
    BY <1>5, <2>2, ConcatProperties
  <2>. QED  BY <1>3, <1>4, <1>7, <2>1, <2>3
<1>8. \A n \in 0..N : n \in T
  <2>. HIDE DEF T, N
  <2>. QED  BY <1>1, <1>6, <1>7, Induction
<1>9. rows[N] \in Seq(V) /\ Len(rows[N]) = sums[N] /\ sums[N] \in Nat
  BY <1>1, <1>4, <1>5, <1>8
<1>10. RowCount(batches) = sums[N] /\ AllRows(batches) = rows[N]
  BY DEF RowCount, AllRows, sums, numbers, rows
<1>11. batches = <<>> => N = 0
  BY EmptySeq
<1>. QED  BY <1>4, <1>5, <1>9, <1>10, <1>11

-----------------------------------------------------------------------------
(* InlineResultStore::page *)

\* Where the loop is once it has seen the rows of some batches: at none of the rows
\* it is to take, or among them, or there are none to take.
LoopInv(seen, done, start, count) ==
    LET taken == Smaller(count, Len(seen) - start)
    IN \/ count = 0 /\ done.take = 0 /\ done.batches = <<>>
       \/ /\ count > 0 /\ Len(seen) <= start
          /\ done.skip = start - Len(seen) /\ done.take = count /\ done.batches = <<>>
       \/ /\ count > 0 /\ Len(seen) > start
          /\ done.skip = 0 /\ done.take = count - taken
          /\ AllRows(done.batches) = SubSeq(seen, start + 1, start + taken)

\* One batch keeps that.
LEMMA LoopStep ==
    ASSUME NEW V, NEW seen \in Seq(V), NEW done \in Loops(V), NEW batch \in BatchesOf(V),
           NEW start \in Nat, NEW count \in Nat, LoopInv(seen, done, start, count)
    PROVE  LoopInv(seen \o batch.rows, TakeFrom(done, batch), start, count)
<1>. DEFINE rows == batch.rows
            next == TakeFrom(done, batch)
            take == Smaller(Len(rows) - done.skip, done.take)
            slice == SubSeq(rows, done.skip + 1, done.skip + take)
            added == [batch EXCEPT !.rows = slice]
            both == seen \o rows
<1>1. /\ rows \in Seq(V) /\ Len(rows) \in Nat /\ Len(seen) \in Nat
      /\ done.skip \in Nat /\ done.take \in Nat /\ done.batches \in Seq(BatchesOf(V))
  BY DEF BatchesOf, Loops
<1>2. both \in Seq(V) /\ Len(both) = Len(seen) + Len(rows)
  BY <1>1, ConcatProperties
<1>3. done.take = 0 => next = done
  BY DEF TakeFrom
<1>4. done.take > 0 /\ done.skip >= Len(rows) =>
        next = [done EXCEPT !.skip = done.skip - Len(rows)]
  BY <1>1 DEF TakeFrom
<1>5. ASSUME done.take > 0, done.skip < Len(rows)
      PROVE  /\ next = [skip |-> 0, take |-> done.take - take, batches |-> Append(done.batches, added)]
             /\ take \in Nat /\ take <= done.take /\ done.skip + take <= Len(rows)
             /\ AllRows(next.batches) = AllRows(done.batches) \o slice
  <2>1. next = [skip |-> 0, take |-> done.take - take, batches |-> Append(done.batches, added)]
    BY <1>1, <1>5 DEF TakeFrom
  <2>2. take \in Nat /\ take <= done.take /\ done.skip + take <= Len(rows)
    BY <1>1, <1>5 DEF Smaller
  <2>3. slice \in Seq(V)
    <3>1. done.skip \in 0..Len(rows) /\ done.skip + take \in done.skip..Len(rows)
      BY <1>1, <2>2
    <3>. HIDE DEF take, rows
    <3>. QED  BY <1>1, <3>1, Slice
  <2>4. added \in BatchesOf(V) /\ added.rows = slice
    <3>. HIDE DEF slice
    <3>. QED  BY <2>3 DEF BatchesOf
  <2>5. AllRows(Append(done.batches, added)) = AllRows(done.batches) \o added.rows
    <3>. HIDE DEF added
    <3>. QED  BY <1>1, <2>4, RowsOfAppend
  <2>. HIDE DEF added, slice, take, next
  <2>. QED  BY <2>1, <2>2, <2>4, <2>5
<1>. HIDE DEF next, both, rows
<1>6. CASE count = 0
  BY <1>1, <1>3, <1>6 DEF LoopInv, next
<1>7. CASE count > 0 /\ Len(seen) <= start /\ Len(both) <= start
  <2>1. done.skip = start - Len(seen) /\ done.take = count /\ done.batches = <<>>
    BY <1>1, <1>7 DEF LoopInv
  <2>2. done.take > 0 /\ done.skip >= Len(rows)
    BY <1>1, <1>2, <1>7, <2>1
  <2>3. next = [done EXCEPT !.skip = done.skip - Len(rows)]
    BY <1>4, <2>2
  <2>4. next.skip = done.skip - Len(rows) /\ next.take = count /\ next.batches = <<>>
    BY <2>1, <2>3 DEF Loops
  <2>5. next.skip = start - Len(both)
    BY <1>1, <1>2, <2>1, <2>4
  <2>. QED  BY <1>7, <2>4, <2>5 DEF LoopInv, next, both, rows
<1>8. CASE count > 0 /\ Len(seen) <= start /\ Len(both) > start
  <2>1. done.skip = start - Len(seen) /\ done.take = count /\ done.batches = <<>>
    BY <1>1, <1>8 DEF LoopInv
  <2>2. done.take > 0 /\ done.skip < Len(rows)
    BY <1>1, <1>2, <1>8, <2>1
  <2>3. take = Smaller(count, Len(both) - start)
    BY <1>1, <1>2, <2>1, <2>2 DEF Smaller
  <2>4. next.skip = 0 /\ next.take = count - take /\ AllRows(next.batches) = AllRows(done.batches) \o slice
        /\ take \in Nat /\ done.skip + take <= Len(rows)
    <3>. HIDE DEF take, slice, added
    <3>. QED  BY <1>5, <2>1, <2>2
  <2>5. AllRows(done.batches) = <<>>
    BY <1>1, <2>1, RowsAreCounted
  <2>6. slice \in Seq(V) /\ slice = SubSeq(both, start + 1, start + take)
    <3>1. done.skip \in 0..Len(rows) /\ done.skip + take \in done.skip..Len(rows)
      BY <1>1, <2>2, <2>4
    <3>. DEFINE b == done.skip + take
    <3>2. slice \in Seq(V)
      <4>. HIDE DEF take
      <4>. QED  BY <1>1, <3>1, Slice
    <3>3. SubSeq(both, Len(seen) + done.skip + 1, Len(seen) + b) = SubSeq(rows, done.skip + 1, b)
      <4>. HIDE DEF take, b
      <4>. QED  BY <1>1, <3>1, SliceInSecond DEF both, b
    <3>4. Len(seen) + done.skip + 1 = start + 1 /\ Len(seen) + b = start + take
      <4>1. Len(seen) + done.skip = start
        BY <1>1, <2>1
      <4>2. Len(seen) + b = (Len(seen) + done.skip) + take
        <5>. HIDE DEF take
        <5>. QED  BY <1>1, <2>4
      <4>. QED  BY <4>1, <4>2
    <3>. QED  BY <3>2, <3>3, <3>4
  <2>7. AllRows(next.batches) = SubSeq(both, start + 1, start + take)
    <3>. HIDE DEF slice, take
    <3>. QED  BY <2>4, <2>5, <2>6, ConcatEmptySeq
  <2>. HIDE DEF take, slice
  <2>. QED  BY <1>8, <2>3, <2>4, <2>7 DEF LoopInv, next, both, rows
<1>9. CASE count > 0 /\ Len(seen) > start
  <2>. DEFINE taken == Smaller(count, Len(seen) - start)
  <2>1. done.skip = 0 /\ done.take = count - taken
        /\ AllRows(done.batches) = SubSeq(seen, start + 1, start + taken)
    BY <1>1, <1>9 DEF LoopInv
  <2>2. taken \in Nat /\ taken <= count /\ start + taken <= Len(seen) /\ Len(both) > start
    BY <1>1, <1>2, <1>9 DEF Smaller
  <2>3. CASE done.take = 0
    <3>1. taken = count /\ Smaller(count, Len(both) - start) = count
      <4>1. taken = count
        <5>. HIDE DEF taken
        <5>. QED  BY <2>1, <2>2, <2>3
      <4>2. count <= Len(seen) - start
        BY <1>1, <2>2, <4>1
      <4>3. count <= Len(both) - start
        BY <1>1, <1>2, <4>2
      <4>4. ~(Len(both) - start < count) /\ Len(both) - start \in Int
        BY <1>1, <1>2, <4>3
      <4>. QED  BY <4>1, <4>4 DEF Smaller
    <3>2. SubSeq(both, start + 1, start + taken) = SubSeq(seen, start + 1, start + taken)
      <4>1. start \in 0..Len(seen) /\ start + taken \in start..Len(seen)
        BY <1>1, <1>9, <2>2
      <4>. HIDE DEF taken
      <4>. QED  BY <1>1, <4>1, SliceInFirst DEF both
    <3>. HIDE DEF taken
    <3>. QED  BY <1>3, <1>9, <2>1, <2>2, <2>3, <3>1, <3>2 DEF LoopInv, next, both, rows
  <2>4. CASE done.take > 0
    <3>1. taken = Len(seen) - start /\ start + taken = Len(seen)
      BY <1>1, <1>9, <2>1, <2>4 DEF Smaller
    <3>2. CASE Len(rows) = 0
      <4>1. next = [done EXCEPT !.skip = done.skip - Len(rows)] /\ done.skip - Len(rows) = 0
        BY <1>4, <2>1, <2>4, <3>2
      <4>2. next.skip = 0 /\ next.take = done.take /\ next.batches = done.batches
        BY <4>1 DEF Loops
      <4>3. both = seen
        <5>1. rows = <<>>
          BY <1>1, <3>2, EmptySeq
        <5>. QED  BY <5>1, ConcatEmptySeq DEF both
      <4>. QED  BY <1>9, <2>1, <4>2, <4>3 DEF LoopInv, next, both, rows
    <3>3. CASE Len(rows) > 0
      <4>1. done.skip < Len(rows)
        BY <2>1, <3>3
      <4>2. next.skip = 0 /\ next.take = done.take - take
            /\ AllRows(next.batches) = AllRows(done.batches) \o slice
            /\ take \in Nat /\ take <= Len(rows) /\ take <= done.take
        <5>1. /\ next = [skip |-> 0, take |-> done.take - take, batches |-> Append(done.batches, added)]
              /\ take \in Nat /\ take <= done.take /\ done.skip + take <= Len(rows)
              /\ AllRows(next.batches) = AllRows(done.batches) \o slice
          BY <1>5, <2>4, <4>1
        <5>. HIDE DEF take, slice, added
        <5>2. take <= Len(rows)
          BY <1>1, <2>1, <5>1
        <5>3. next.skip = 0 /\ next.take = done.take - take
          BY <5>1
        <5>. QED  BY <5>1, <5>2, <5>3
      <4>3. Smaller(count, Len(both) - start) = taken + take
        <5>1. take = Smaller(Len(rows), count - taken)
          BY <1>1, <2>1
        <5>2. Len(both) - start = taken + Len(rows)
          BY <1>1, <1>2, <3>1
        <5>. DEFINE n == Len(rows)
        <5>3. n \in Nat /\ taken \in Nat /\ taken <= count
          BY <1>1, <2>2
        <5>. HIDE DEF taken, take, n
        <5>4. CASE n < count - taken
          <6>1. take = n /\ ~(count < taken + n)
            BY <5>1, <5>3, <5>4 DEF Smaller, n
          <6>. QED  BY <5>2, <6>1 DEF Smaller, n
        <5>5. CASE ~(n < count - taken)
          <6>1. take = count - taken /\ (count < taken + n \/ count = taken + n) /\ taken + take = count
            BY <5>1, <5>3, <5>5 DEF Smaller, n
          <6>. QED  BY <5>2, <6>1 DEF Smaller, n
        <5>. QED  BY <5>4, <5>5
      <4>4. slice = SubSeq(rows, 1, take)
        <5>1. done.skip + 1 = 1 /\ done.skip + take = take
          <6>. HIDE DEF take
          <6>. QED  BY <2>1, <4>2
        <5>. QED  BY <5>1
      <4>5. SubSeq(both, start + 1, Len(seen) + take) =
              SubSeq(seen, start + 1, Len(seen)) \o SubSeq(rows, 1, take)
        <5>1. start \in 0..Len(seen) /\ take \in 0..Len(rows)
          <6>. HIDE DEF take
          <6>. QED  BY <1>1, <1>9, <4>2
        <5>. HIDE DEF take
        <5>. QED  BY <1>1, <5>1, SliceOverBoth DEF both
      <4>6. start + (taken + take) = Len(seen) + take /\ done.take - take = count - (taken + take)
        <5>. HIDE DEF take, taken
        <5>. QED  BY <1>1, <2>1, <2>2, <3>1, <4>2
      <4>7. AllRows(next.batches) = SubSeq(both, start + 1, start + (taken + take))
        <5>. HIDE DEF take, taken, slice
        <5>. QED  BY <2>1, <3>1, <4>2, <4>4, <4>5, <4>6
      <4>. HIDE DEF take, taken, slice
      <4>. QED  BY <1>9, <2>2, <4>2, <4>3, <4>6, <4>7 DEF LoopInv, next, both, rows
    <3>. QED  BY <1>1, <3>2, <3>3
  <2>. QED  BY <1>1, <2>3, <2>4
<1>. QED  BY <1>1, <1>2, <1>6, <1>7, <1>8, <1>9

\* The page that is taken is the slice of the rows that begins after the first ones
\* and has as many as are to be taken.
LEMMA TakenIsSlice ==
    ASSUME NEW V, NEW batches \in Seq(BatchesOf(V)), NEW start \in Nat, NEW count \in Nat,
           start + count <= Len(AllRows(batches))
    PROVE  /\ TakenUpTo(batches, start, count)[Len(batches)].batches \in Seq(BatchesOf(V))
           /\ AllRows(TakenUpTo(batches, start, count)[Len(batches)].batches) =
                SubSeq(AllRows(batches), start + 1, start + count)
<1>. DEFINE N == Len(batches)
            rows == RowsUpTo(batches)
            loop == TakenUpTo(batches, start, count)
            T == {n \in 0..N : LoopInv(rows[n], loop[n], start, count)}
<1>1. N \in Nat /\ \A n \in 1..N : batches[n] \in BatchesOf(V)
  OBVIOUS
<1>2. rows \in [0..N -> Seq(V)] /\ rows[0] = <<>> /\ \A n \in 1..N : rows[n] = rows[n - 1] \o batches[n].rows
  BY RowsGrow
<1>3. /\ loop \in [0..N -> Loops(V)]
      /\ loop[0] = [skip |-> start, take |-> count, batches |-> <<>>]
      /\ \A n \in 1..N : loop[n] = TakeFrom(loop[n - 1], batches[n])
  BY TakenGrow
<1>4. AllRows(batches) = rows[N]
  BY DEF AllRows
<1>. HIDE DEF rows, loop
<1>5. 0 \in T
  <2>1. Len(rows[0]) = 0
    BY <1>2, EmptySeq
  <2>2. LoopInv(rows[0], loop[0], start, count)
    BY <1>3, <2>1 DEF LoopInv
  <2>. QED  BY <1>1, <2>2
<1>6. ASSUME NEW n \in 1..N, n - 1 \in T
      PROVE  n \in T
  <2>1. n - 1 \in 0..N /\ n \in 0..N
    BY <1>1
  <2>2. rows[n - 1] \in Seq(V) /\ loop[n - 1] \in Loops(V) /\ batches[n] \in BatchesOf(V)
    BY <1>1, <1>2, <1>3, <2>1
  <2>3. LoopInv(rows[n - 1], loop[n - 1], start, count)
    BY <1>6
  <2>4. LoopInv(rows[n - 1] \o batches[n].rows, TakeFrom(loop[n - 1], batches[n]), start, count)
    BY <2>2, <2>3, LoopStep
  <2>5. LoopInv(rows[n], loop[n], start, count)
    BY <1>2, <1>3, <2>4
  <2>. QED  BY <2>1, <2>5
<1>7. \A n \in 0..N : n \in T
  <2>. HIDE DEF T, N
  <2>. QED  BY <1>1, <1>5, <1>6, Induction
<1>. DEFINE all == rows[N]
            end == loop[N]
<1>8. LoopInv(all, end, start, count) /\ all \in Seq(V) /\ end \in Loops(V)
  BY <1>1, <1>2, <1>3, <1>7
<1>9. start + count <= Len(all)
  BY <1>4
<1>10. end.batches \in Seq(BatchesOf(V))
  BY <1>8 DEF Loops
<1>. HIDE DEF all, end
<1>11. Len(all) \in Nat
  BY <1>8
<1>12. AllRows(end.batches) = SubSeq(all, start + 1, start + count)
  <2>1. CASE count = 0
    <3>1. end.batches = <<>>
      BY <1>8, <2>1 DEF LoopInv
    <3>2. AllRows(end.batches) = <<>>
      BY <1>10, <3>1, RowsAreCounted
    <3>3. SubSeq(all, start + 1, start + count) = <<>>
      <4>1. start + 1 \in Int /\ start + count \in Int /\ start + count < start + 1
        BY <2>1
      <4>. QED  BY <4>1, SubSeqEmpty
    <3>. QED  BY <3>2, <3>3
  <2>2. CASE count # 0
    <3>1. Smaller(count, Len(all) - start) = count
      BY <1>9, <1>11 DEF Smaller
    <3>2. Len(all) > start
      BY <1>9, <1>11, <2>2
    <3>. QED  BY <1>8, <1>11, <2>2, <3>1, <3>2 DEF LoopInv
  <2>. QED  BY <2>1, <2>2
<1>. QED  BY <1>4, <1>10, <1>12 DEF all, end, loop

\* The row a page begins after, and the one it ends with.
FirstRow(rows, offset) == Smaller(IF offset < 0 THEN 0 ELSE offset, Len(rows))
LastRow(rows, offset, limit) == Smaller(FirstRow(rows, offset) + limit, Len(rows))

\* A page has the rows from its offset on, at most as many as its limit; it says
\* where it begins, and whether there are rows after it.
LEMMA PageOfRows ==
    ASSUME NEW V, NEW batches \in Seq(BatchesOf(V)), RowCount(batches) <= MaxUsize,
           NEW offset \in Int, NEW limit \in Nat
    PROVE  /\ FirstRow(AllRows(batches), offset) \in 0..Len(AllRows(batches))
           /\ LastRow(AllRows(batches), offset, limit) \in
                FirstRow(AllRows(batches), offset)..Len(AllRows(batches))
           /\ Page(batches, offset, limit).batches \in Seq(BatchesOf(V))
           /\ AllRows(Page(batches, offset, limit).batches) =
                SubSeq(AllRows(batches), FirstRow(AllRows(batches), offset) + 1,
                       LastRow(AllRows(batches), offset, limit))
           /\ Page(batches, offset, limit).start_row_offset = FirstRow(AllRows(batches), offset)
           /\ Page(batches, offset, limit).has_more_rows =
                (LastRow(AllRows(batches), offset, limit) < Len(AllRows(batches)))
<1>. DEFINE rows == AllRows(batches)
            n == RowCount(batches)
            start == Smaller(IF offset < 0 THEN 0 ELSE offset, n)
            end == Smaller(SaturatingAdd(start, limit), n)
            count == SaturatingSub(end, start)
            page == Page(batches, offset, limit)
<1>1. rows \in Seq(V) /\ Len(rows) = n /\ n \in Nat
  BY RowsAreCounted
<1>2. page = [batches |-> TakenUpTo(batches, start, count)[Len(batches)].batches,
              start_row_offset |-> start, row_count |-> count, has_more_rows |-> HasMoreRows(end, n)]
  BY DEF Page
<1>. HIDE DEF rows, n, page
<1>3. start \in Nat /\ start <= n /\ FirstRow(rows, offset) = start
  BY <1>1 DEF Smaller, FirstRow
<1>. HIDE DEF start
<1>4. end = Smaller(start + limit, n)
  BY <1>1, <1>3, FetchAssumption DEF Smaller, SaturatingAdd, n
<1>5. LastRow(rows, offset, limit) = end
  BY <1>1, <1>3, <1>4 DEF LastRow
<1>6. end \in Nat /\ start <= end /\ end <= n
  BY <1>1, <1>3, <1>4 DEF Smaller
<1>. HIDE DEF end
<1>7. count \in Nat /\ start + count = end
  BY <1>3, <1>6 DEF SaturatingSub
<1>. HIDE DEF count
<1>8. start + count <= Len(AllRows(batches))
  BY <1>1, <1>6, <1>7 DEF rows
<1>9. /\ TakenUpTo(batches, start, count)[Len(batches)].batches \in Seq(BatchesOf(V))
      /\ AllRows(TakenUpTo(batches, start, count)[Len(batches)].batches) =
           SubSeq(AllRows(batches), start + 1, start + count)
  BY <1>3, <1>7, <1>8, TakenIsSlice
<1>10. page.batches \in Seq(BatchesOf(V)) /\ AllRows(page.batches) = SubSeq(rows, start + 1, end)
       /\ page.start_row_offset = start /\ page.has_more_rows = (end < n)
  BY <1>2, <1>7, <1>9 DEF rows, HasMoreRows
<1>. QED  BY <1>1, <1>3, <1>5, <1>6, <1>10 DEF rows, page

\* A limit is a number that a usize can hold.
LEMMA LimitIsSmall ==
    ASSUME NEW max_rows, max_rows = None \/ max_rows \in Int
    PROVE  RequestedRowLimit(max_rows) \in 0..MaxUsize
BY FetchAssumption DEF RequestedRowLimit, Smaller

-----------------------------------------------------------------------------
(* What is written is what is read *)

\* Values that can all be written are written one after the other.
LEMMA CollectedValues ==
    ASSUME NEW n \in Nat, NEW results, results = [i \in 1..n |-> results[i]], Collected(results).ok
    PROVE  Collected(results).value = [i \in 1..n |-> results[i].value]
<1>. DEFINE S == {results[i] : i \in 1..n}
            values == [i \in 1..n |-> results[i].value]
            U == {values[i] : i \in 1..n}
<1>1. results \in Seq(S) /\ DOMAIN results = 1..n
  OBVIOUS
<1>2. Vector(results) = results
  <2>. HIDE DEF S
  <2>. QED  BY <1>1, ConcatEmptySeq DEF Vector
<1>3. values \in Seq(U)
  OBVIOUS
<1>4. Vector(values) = values
  <2>. HIDE DEF U, values
  <2>. QED  BY <1>3, ConcatEmptySeq DEF Vector
<1>5. Collected(results) = IF \E i \in 1..n : ~results[i].ok THEN EncodeError ELSE Encoded(Vector(values))
  BY <1>1, <1>2 DEF Collected
<1>. HIDE DEF values
<1>6. Collected(results) = Encoded(values)
  <2>1. ~EncodeError.ok
    BY DEF EncodeError
  <2>. QED  BY <1>4, <1>5, <2>1
<1>7. Collected(results).value = values
  BY <1>6 DEF Encoded
<1>. QED  BY <1>7 DEF values

\* A page that is sent has a column for each type, a value for each row, and a bit
\* for each NULL.
LEMMA ColumnsOfPage ==
    ASSUME NEW V, NEW X, NEW types \in Seq(X), NEW page, page.batches \in Seq(BatchesOf(V)),
           FetchResponse(page, types).status = "success"
    PROVE  /\ FetchResponse(page, types).has_more_rows = page.has_more_rows
           /\ FetchResponse(page, types).start = page.start_row_offset
           /\ FetchResponse(page, types).columns = [c \in DOMAIN types |->
                [values |-> [i \in 1..Len(AllRows(page.batches)) |->
                               EncodeValue(types[c], AllRows(page.batches)[i][c]).value],
                 nulls |-> NullBitset(page.batches, c)]]
<1>. DEFINE rows == AllRows(page.batches)
            n == Len(rows)
            Values(c) == Collected([i \in 1..n |-> EncodeValue(types[c], rows[i][c])])
            written == [c \in DOMAIN types |-> WriteColumn(page, types[c], c)]
            response == FetchResponse(page, types)
            Sent(c) == [values |-> [i \in 1..n |-> EncodeValue(types[c], rows[i][c]).value],
                        nulls |-> NullBitset(page.batches, c)]
<1>1. rows \in Seq(V) /\ n \in Nat /\ DOMAIN rows = 1..n
  BY RowsAreCounted
<1>2. DOMAIN types = 1..Len(types) /\ Len(types) \in Nat
  OBVIOUS
<1>3. /\ WriteRowSet(page, types).ok
      /\ response = [status |-> "success", has_more_rows |-> page.has_more_rows,
                     start |-> page.start_row_offset, columns |-> WriteRowSet(page, types).value]
  <2>1. FetchFailed(page, types).status # "success"
    BY DEF FetchFailed
  <2>. QED  BY <2>1 DEF FetchResponse
<1>4. WriteRowSet(page, types) = Collected(written)
  BY DEF WriteRowSet
<1>5. written = [c \in 1..Len(types) |-> written[c]]
  BY <1>2
<1>6. Collected(written).value = [c \in 1..Len(types) |-> written[c].value]
  <2>. HIDE DEF written
  <2>. QED  BY <1>2, <1>3, <1>4, <1>5, CollectedValues
<1>7. \A c \in 1..Len(types) : written[c].ok
  <2>. DEFINE all == Vector(written)
              S == {written[c] : c \in 1..Len(types)}
  <2>1. written \in Seq(S)
    BY <1>2
  <2>2. all = written
    <3>. HIDE DEF written, S
    <3>. QED  BY <2>1, ConcatEmptySeq DEF Vector
  <2>3. DOMAIN written = 1..Len(types)
    BY <1>2
  <2>. HIDE DEF written
  <2>4. ~EncodeError.ok
    BY DEF EncodeError
  <2>. QED  BY <1>3, <1>4, <2>2, <2>3, <2>4 DEF Collected
<1>8. ASSUME NEW c \in 1..Len(types)
      PROVE  written[c].value = Sent(c)
  <2>. DEFINE results == [i \in 1..n |-> EncodeValue(types[c], rows[i][c])]
  <2>1. written[c] = IF ~Values(c).ok THEN EncodeError
                     ELSE Encoded([values |-> Values(c).value, nulls |-> NullBitset(page.batches, c)])
    BY <1>1, <1>2 DEF WriteColumn
  <2>2. Values(c).ok
    <3>1. ~EncodeError.ok
      BY DEF EncodeError
    <3>2. written[c].ok
      BY <1>7
    <3>. HIDE DEF written, Values
    <3>. QED  BY <2>1, <3>1, <3>2
  <2>3. results = [i \in 1..n |-> results[i]] /\ Collected(results).ok
    BY <2>2
  <2>4. Collected(results).value = [i \in 1..n |-> results[i].value]
    <3>. HIDE DEF results, n
    <3>. QED  BY <1>1, <2>3, CollectedValues
  <2>5. Values(c).value = [i \in 1..n |-> EncodeValue(types[c], rows[i][c]).value]
    BY <2>4
  <2>6. written[c].value = [values |-> Values(c).value, nulls |-> NullBitset(page.batches, c)]
    <3>. HIDE DEF written, Values
    <3>. QED  BY <2>1, <2>2 DEF Encoded
  <2>. HIDE DEF Values, written
  <2>. QED  BY <2>5, <2>6
<1>9. Collected(written).value = [c \in DOMAIN types |-> Sent(c)]
  <2>. HIDE DEF written, Sent
  <2>. QED  BY <1>2, <1>6, <1>8
<1>. HIDE DEF written, response
<1>. QED  BY <1>3, <1>4, <1>9 DEF response
=============================================================================
