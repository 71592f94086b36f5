----------------------------- MODULE ResultPages -----------------------------
(***************************************************************************)
(* A query's result and its pages: materialize_stream of                   *)
(* src/engine/results.rs, InlineResultStore of src/engine.rs and the row   *)
(* limits of src/thrift/result_encoding.rs.  A batch is [rows, bytes].     *)
(***************************************************************************)
EXTENDS RustStd, Integers

CONSTANTS
    MaxUsize,           \* usize::MAX
    MaxResultRows,      \* HARBORSQL_MAX_RESULT_ROWS, or None
    MaxResultBytes,     \* HARBORSQL_MAX_RESULT_BYTES, or None
    DefaultFetchRows,   \* DEFAULT_FETCH_ROWS
    MaxFetchRows        \* MAX_FETCH_ROWS

ASSUME FetchAssumption ==
    /\ MaxUsize \in Nat /\ MaxFetchRows \in 1..MaxUsize /\ DefaultFetchRows \in 1..MaxUsize
    /\ MaxResultRows \in (0..MaxUsize) \cup {None} /\ MaxResultBytes \in (0..MaxUsize) \cup {None}

Smaller(m, n) == IF m < n THEN m ELSE n
SaturatingAdd(m, n) == Smaller(m + n, MaxUsize)
SaturatingSub(m, n) == IF m < n THEN 0 ELSE m - n

Exceeds(count, limit) == limit # None /\ count > limit

\* The sum of the first n numbers, by n.
SumsUpTo(numbers) ==
    LET sum[n \in 0..Len(numbers)] == IF n = 0 THEN 0 ELSE sum[n - 1] + numbers[n]
    IN sum

\* The rows of the first n batches, by n.
RowsUpTo(batches) ==
    LET rows[n \in 0..Len(batches)] == IF n = 0 THEN <<>> ELSE rows[n - 1] \o batches[n].rows
    IN rows

\* Sum over the batches: InlineResultStore::new.
RowCount(batches) == SumsUpTo([i \in DOMAIN batches |-> Len(batches[i].rows)])[Len(batches)]
AllRows(batches) == RowsUpTo(batches)[Len(batches)]

RequestedRowLimit(max_rows) ==
    CASE max_rows = None -> DefaultFetchRows
      [] max_rows # None /\ max_rows <= 0 -> 0
      [] OTHER -> Smaller(max_rows, MaxFetchRows)

\* Faulty variant of TakeFrom: what was skipped in one batch is skipped again in
\* the next.
SkipsEveryBatch(done, batch) ==
    LET rows == Len(batch.rows)
        take == Smaller(rows - done.skip, done.take)
    IN CASE done.take = 0 -> done
         [] done.take > 0 /\ done.skip >= rows -> [done EXCEPT !.skip = @ - rows]
         [] OTHER -> [skip |-> done.skip, take |-> done.take - take,
                      batches |-> Append(done.batches,
                                    [batch EXCEPT !.rows = SubSeq(@, done.skip + 1, done.skip + take)])]

\* What the loop over the batches does with one of them: the batch is skipped,
\* or the slice of it that the page takes is added.
TakeFrom(done, batch) ==
    LET rows == Len(batch.rows)
        take == Smaller(rows - done.skip, done.take)
    IN CASE done.take = 0 -> done
         [] done.take > 0 /\ done.skip >= rows -> [done EXCEPT !.skip = @ - rows]
         [] OTHER -> [skip |-> 0, take |-> done.take - take,
                      batches |-> Append(done.batches,
                                    [batch EXCEPT !.rows = SubSeq(@, done.skip + 1, done.skip + take)])]

\* The loop over the batches: what it has after n of them, by n.
TakenUpTo(batches, start, count) ==
    LET taken[n \in 0..Len(batches)] ==
          IF n = 0 THEN [skip |-> start, take |-> count, batches |-> <<>>]
          ELSE TakeFrom(taken[n - 1], batches[n])
    IN taken

\* Faulty variant of HasMoreRows: there is more after the last row.
HasMoreAtEnd(end, count) == end <= count

HasMoreRows(end, count) == end < count

Page(batches, start_row_offset, limit) ==
    LET count == RowCount(batches)
        start == Smaller(IF start_row_offset < 0 THEN 0 ELSE start_row_offset, count)
        end == Smaller(SaturatingAdd(start, limit), count)
        taken == TakenUpTo(batches, start, SaturatingSub(end, start))
    IN [batches |-> taken[Len(batches)].batches, start_row_offset |-> start,
        row_count |-> SaturatingSub(end, start), has_more_rows |-> HasMoreRows(end, count)]

RowPage(batches, start_row_offset, max_rows) ==
    Page(batches, start_row_offset, RequestedRowLimit(max_rows))
=============================================================================
