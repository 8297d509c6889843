---------------------------- MODULE IndexBuilder ----------------------------
(***************************************************************************)
(* The life of an index builder: tenann/builder/faiss_index_builder.cc     *)
(* (HNSW: rows go to the faiss index at once) and                          *)
(* faiss_index_builder_with_buffer.cc (IVF-PQ: rows are kept until the     *)
(* first Flush trains the index).  A builder is used by one thread.        *)
(*                                                                         *)
(* Rows are numbered in the order in which clients make them; row r has    *)
(* vector r, and row id r when custom row ids are enabled.  The faiss      *)
(* index is the sequence of <<vector, row id>> it was given.  A call that  *)
(* fails a check throws before it changes anything and is not a step.      *)
(***************************************************************************)
EXTENDS Naturals, Sequences

CONSTANTS
    Buffered,     \* kinds of builder; TRUE: FaissIndexBuilderWithBuffer
    Live,         \* values clients give to inputs_live_longer_than_this
    NullFlags,    \* TRUE: clients may pass null_flags
    MinTrain,     \* faiss refuses to train on fewer rows
    BatchSizes,   \* rows in one Add
    MaxRows,      \* bound: rows made
    MaxOpens,     \* bound: calls of Open
    Nil,          \* the null pointer, and the file that does not exist
    Torn          \* a file of which only a part was written

ASSUME IndexBuilderAssumption ==
    /\ Buffered \subseteq BOOLEAN
    /\ NullFlags \in BOOLEAN
    /\ Live \subseteq BOOLEAN
    /\ MinTrain \in Nat /\ MaxRows \in Nat /\ MaxOpens \in Nat
    /\ BatchSizes \subseteq Nat
    /\ Nil \notin Seq(1..MaxRows)

VARIABLES
    with_buffer,           \* the kind of this builder
    is_opened, is_closed, use_custom_row_id, memory_only,
    is_trained, index,     \* the faiss index of index_ref_
    data_buffer,           \* data_buffer_
    id_buffer,             \* id_buffer_
    input_row_iterator,    \* input_row_iterator_, the rows it spans, or Nil
    row_id,                \* what row_id_ points to, or Nil
    file,                  \* what the index file holds, Nil or Torn
    crashed,               \* a null pointer was dereferenced
    nrows, nopens,         \* rows made, calls of Open
    accepted,              \* rows accepted by Add since Open, without the nulls
    promised,              \* what accepted was at the last Flush that succeeded
    given,                 \* live flags given so far; null flags count as FALSE
    late                   \* null flags were given to a trained index

vars == <<with_buffer, is_opened, is_closed, use_custom_row_id, memory_only,
          is_trained, index, data_buffer, id_buffer, input_row_iterator,
          row_id, file, crashed, nrows, nopens, accepted, promised, given, late>>

\* The life of the builder, its buffers, and what only the properties and the
\* bounds look at.
mode == <<with_buffer, is_opened, is_closed, use_custom_row_id, memory_only>>
buffers == <<data_buffer, id_buffer, input_row_iterator, row_id>>
history == <<nrows, nopens, accepted, promised, given, late>>

Init ==
    /\ with_buffer \in Buffered
    /\ is_opened = FALSE
    /\ is_closed = FALSE
    /\ use_custom_row_id = FALSE
    /\ memory_only = FALSE
    /\ is_trained = FALSE
    /\ index = <<>>
    /\ data_buffer = <<>>
    /\ id_buffer = <<>>
    /\ input_row_iterator = Nil
    /\ row_id = Nil
    /\ file = Nil
    /\ crashed = FALSE
    /\ nrows = 0
    /\ nopens = 0
    /\ accepted = <<>>
    /\ promised = <<>>
    /\ given = {}
    /\ late = FALSE

-----------------------------------------------------------------------------
\* EnableCustomRowId, refused while the builder is open.
EnableCustomRowId ==
    /\ ~crashed /\ ~is_opened
    /\ use_custom_row_id' = TRUE
    /\ UNCHANGED <<buffers, history, with_buffer, is_opened, is_closed,
                   memory_only, is_trained, index, file, crashed>>

\* Mutant of Open: the index of the last build is taken up again.
OpenKeepsIndex(in_memory) ==
    /\ ~crashed /\ ~is_opened
    /\ nopens < MaxOpens
    /\ nopens' = nopens + 1
    /\ memory_only' = in_memory
    /\ is_trained' = ~with_buffer
    /\ is_opened' = TRUE
    /\ is_closed' = FALSE
    /\ accepted' = <<>>
    /\ UNCHANGED <<buffers, with_buffer, use_custom_row_id, index, file,
                   crashed, nrows, promised, given, late>>

\* Open() and Open(path): InitIndex makes an empty index, which HNSW need not
\* train.
Open(in_memory) ==
    /\ ~crashed /\ ~is_opened
    /\ nopens < MaxOpens
    /\ nopens' = nopens + 1
    /\ memory_only' = in_memory
    /\ index' = <<>>
    /\ is_trained' = ~with_buffer
    /\ is_opened' = TRUE
    /\ is_closed' = FALSE
    /\ accepted' = <<>>
    /\ UNCHANGED <<buffers, with_buffer, use_custom_row_id, file, crashed,
                   nrows, promised, given, late>>

Close ==
    /\ ~crashed /\ is_opened
    /\ is_opened' = FALSE
    /\ is_closed' = TRUE
    /\ UNCHANGED <<buffers, history, with_buffer, use_custom_row_id,
                   memory_only, is_trained, index, file, crashed>>

-----------------------------------------------------------------------------
\* An id read behind the end of an array: never one that a client gave.
Garbage == MaxRows + 1

\* faiss add_with_ids, and add, which numbers the rows from ntotal.
AddWithIds(idx, rows, ids) ==
    idx \o [i \in 1..Len(rows) |->
              <<rows[i], IF i <= Len(ids) THEN ids[i] ELSE Garbage>>]
AddPlain(idx, rows) ==
    idx \o [i \in 1..Len(rows) |-> <<rows[i], Len(idx) + i - 1>>]
AddBatch(idx, rows) ==
    IF use_custom_row_id THEN AddWithIds(idx, rows, rows) ELSE AddPlain(idx, rows)

\* The ids that come with a batch.
RowIds(batch) == IF use_custom_row_id THEN batch ELSE <<>>

\* Merge: copy the batch, or refer to it if it is the first that lives on.  A
\* batch kept by an earlier build without row ids has none to copy.
Merge(batch, live) ==
    \/ /\ ~live
       /\ data_buffer' = data_buffer \o batch
       /\ id_buffer' = id_buffer \o RowIds(batch)
       /\ UNCHANGED <<input_row_iterator, row_id, crashed>>
    \/ /\ live /\ input_row_iterator = Nil
       /\ input_row_iterator' = batch
       /\ row_id' = IF use_custom_row_id THEN batch ELSE row_id
       /\ UNCHANGED <<data_buffer, id_buffer, crashed>>
    \/ /\ live /\ input_row_iterator # Nil /\ data_buffer = <<>>
       /\ data_buffer' = input_row_iterator \o batch
       /\ \/ /\ ~use_custom_row_id
             /\ UNCHANGED <<id_buffer, crashed>>
          \/ /\ use_custom_row_id /\ row_id # Nil
             /\ id_buffer' = row_id \o batch
             /\ UNCHANGED crashed
          \/ /\ use_custom_row_id /\ row_id = Nil
             /\ input_row_iterator = <<>>
             /\ id_buffer' = batch
             /\ UNCHANGED crashed
          \/ /\ use_custom_row_id /\ row_id = Nil
             /\ input_row_iterator # <<>>
             /\ crashed' = TRUE
             /\ UNCHANGED id_buffer
       /\ UNCHANGED <<input_row_iterator, row_id>>
    \/ /\ live /\ input_row_iterator # Nil /\ data_buffer # <<>>
       /\ data_buffer' = data_buffer \o batch
       /\ id_buffer' = id_buffer \o RowIds(batch)
       /\ UNCHANGED <<input_row_iterator, row_id, crashed>>

\* The next rows a client makes.
Batch(n) == [i \in 1..n |-> nrows + i]

\* The state in which Add accepts a batch of n rows.
CanAdd(n) == ~crashed /\ is_opened /\ ~is_closed /\ nrows + n <= MaxRows

\* AddRaw and AddWithRowIds: to the index if it is trained, else to the buffers.
AddWithRowIds(batch, live) ==
    \/ /\ is_trained
       /\ index' = AddBatch(index, batch)
       /\ UNCHANGED <<buffers, crashed>>
    \/ /\ ~is_trained
       /\ Merge(batch, live)
       /\ UNCHANGED index

\* Add without null flags.
Add(n, live) ==
    /\ CanAdd(n)
    /\ AddWithRowIds(Batch(n), live)
    /\ nrows' = nrows + n
    /\ accepted' = accepted \o Batch(n)
    /\ given' = given \cup {live}
    /\ UNCHANGED <<mode, is_trained, file, nopens, promised, late>>

\* The rows of a batch without the nulls, as the loop over the flags pushes them.
NotNull(n, nulls) ==
    LET pushed[i \in 0..n] ==
          IF i = 0 THEN <<>>
          ELSE IF i \in nulls THEN pushed[i - 1]
          ELSE Append(pushed[i - 1], nrows + i)
    IN  pushed[n]

\* Add with null flags, which needs row ids: AddWithRowIdsAndNullFlags.  nulls
\* are the positions whose flag is set.
AddNullable(n, nulls) ==
    LET rows == NotNull(n, nulls)
    IN  /\ CanAdd(n)
        /\ use_custom_row_id
        /\ nrows' = nrows + n
        /\ accepted' = accepted \o rows
        /\ given' = given \cup {FALSE}
        /\ late' = (late \/ is_trained)
        /\ \/ /\ with_buffer
              /\ data_buffer' = data_buffer \o rows
              /\ id_buffer' = id_buffer \o rows
              /\ UNCHANGED index
           \/ /\ ~with_buffer
              /\ index' = AddWithIds(index, rows, rows)
              /\ UNCHANGED <<data_buffer, id_buffer>>
        /\ UNCHANGED <<mode, is_trained, input_row_iterator, row_id, file,
                       crashed, nopens, promised>>

-----------------------------------------------------------------------------
\* WriteIndex without write_index_cache: an index in memory is ready as it is;
\* the file is written, cannot be opened, or is left half written.
WriteIndex(rows) ==
    \/ UNCHANGED <<file, promised>>
    \/ /\ ~memory_only
       /\ file' = rows
       /\ promised' = accepted
    \/ /\ ~memory_only
       /\ file' = Torn
       /\ UNCHANGED promised

FlushTrained ==
    /\ ~crashed /\ is_opened /\ ~is_closed
    /\ is_trained
    /\ WriteIndex(index)
    /\ UNCHANGED <<mode, buffers, is_trained, index, crashed, nrows, nopens,
                   accepted, given, late>>

\* Mutant of TrainingRows: the batch kept by reference, if there is one.
TrainingRowsKept ==
    IF input_row_iterator # Nil THEN input_row_iterator
    ELSE IF data_buffer # <<>> THEN data_buffer ELSE Nil

\* What the first Flush trains with and then adds: the buffer if there is one.
TrainingRows == IF data_buffer # <<>> THEN data_buffer ELSE input_row_iterator

\* row_id_ after Flush has let it point to the id buffer.
FlushRowId == IF id_buffer # <<>> THEN id_buffer ELSE row_id

\* Mutant of FlushUntrained: the next Flush trains and adds again.
FlushRetrains ==
    /\ ~crashed /\ is_opened
    /\ ~is_trained
    /\ TrainingRows # Nil
    /\ row_id' = FlushRowId
    /\ Len(TrainingRows) >= MinTrain
    /\ index' = IF FlushRowId # Nil
                THEN AddWithIds(index, TrainingRows, FlushRowId)
                ELSE AddPlain(index, TrainingRows)
    /\ WriteIndex(index')
    /\ UNCHANGED <<mode, is_trained, data_buffer, id_buffer,
                   input_row_iterator, crashed, nrows, nopens, accepted,
                   given, late>>

\* Flush of an untrained index; faiss may refuse to train on too few rows.
FlushUntrained ==
    /\ ~crashed /\ is_opened
    /\ ~is_trained
    /\ TrainingRows # Nil
    /\ row_id' = FlushRowId
    /\ \/ /\ Len(TrainingRows) < MinTrain
          /\ UNCHANGED <<is_trained, index, file, promised>>
       \/ /\ Len(TrainingRows) >= MinTrain
          /\ is_trained' = TRUE
          /\ index' = IF FlushRowId # Nil
                      THEN AddWithIds(index, TrainingRows, FlushRowId)
                      ELSE AddPlain(index, TrainingRows)
          /\ WriteIndex(index')
    /\ UNCHANGED <<mode, data_buffer, id_buffer, input_row_iterator, crashed,
                   nrows, nopens, accepted, given, late>>

\* Flush with nothing to train on goes through the null iterator.
FlushNothing ==
    /\ ~crashed /\ is_opened
    /\ ~is_trained
    /\ TrainingRows = Nil
    /\ crashed' = TRUE
    /\ UNCHANGED <<mode, buffers, history, is_trained, index, file>>

-----------------------------------------------------------------------------
Next ==
    \/ EnableCustomRowId \/ Close
    \/ \E in_memory \in BOOLEAN : Open(in_memory)
    \/ \E n \in BatchSizes, live \in Live : Add(n, live)
    \/ \E n \in BatchSizes : \E nulls \in SUBSET (1..n) :
         NullFlags /\ AddNullable(n, nulls)
    \/ FlushTrained \/ FlushUntrained \/ FlushNothing

Spec == Init /\ [][Next]_vars

-----------------------------------------------------------------------------
(***************************************************************************)
(* Properties                                                              *)
(***************************************************************************)

\* What a client of the buffering builder must keep to: one build, the same
\* inputs_live_longer_than_this in every Add, null flags only with copied batches
\* and before the first Flush that trains.  A client of the HNSW builder is free.
Careful == with_buffer => nopens <= 1 /\ given # BOOLEAN /\ ~late

Row == 1..MaxRows
Pairs == Seq(Row \X (IF Careful THEN 0..MaxRows ELSE 0..Garbage))

\* The variables have the types of the members; in particular a careful client
\* never makes Flush read row ids behind the end of their array.
TypeOK ==
    /\ with_buffer \in Buffered
    /\ given \subseteq BOOLEAN /\ late \in BOOLEAN
    /\ {is_opened, is_closed, use_custom_row_id, memory_only, is_trained,
        crashed} \subseteq BOOLEAN
    /\ index \in Pairs
    /\ data_buffer \in Seq(Row) /\ id_buffer \in Seq(Row)
    /\ input_row_iterator = Nil \/ input_row_iterator \in Seq(Row)
    /\ row_id = Nil \/ row_id \in Seq(Row)
    /\ file \in {Nil, Torn} \/ file \in Pairs
    /\ nrows \in 0..MaxRows /\ nopens \in 0..MaxOpens
    /\ accepted \in Seq(Row) /\ promised \in Seq(Row)

\* The index that rows added in this order make: each under its own row id.
IndexOf(rows) ==
    [i \in 1..Len(rows) |->
       <<rows[i], IF use_custom_row_id THEN rows[i] ELSE i - 1>>]

\* Once the index is trained it holds exactly the rows that Add has accepted
\* since Open, in order, each once and under its own row id ("by default, the
\* row number is used as the row ID"), however Add and Flush alternate and
\* whichever Flush failed.
IndexIsComplete ==
    is_opened /\ is_trained /\ ~crashed => index = IndexOf(accepted)

\* A file that a Flush finished writing holds every row accepted until then,
\* and rows of no other build.
FlushedIsComplete ==
    file \notin {Nil, Torn} => [i \in 1..Len(file) |-> file[i][1]] = promised

\* For a careful client the index of a builder is complete: kept, copied and
\* merged batches, training that fails for want of rows and is tried again, and
\* rows added before and after training all end up in it, under their ids.
CarefulIndexIsComplete == Careful => IndexIsComplete

\* For a careful client every file that Flush finished is complete, whatever
\* other writes failed before and after it.
CarefulFlushIsComplete == Careful => FlushedIsComplete

\* However clients mix the ways to add, fail, retry and open again, no row is
\* in the index twice.
NoRowTwice ==
    \A i, j \in 1..Len(index) : index[i][1] = index[j][1] => i = j

=============================================================================
