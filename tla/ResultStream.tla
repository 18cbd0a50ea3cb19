---------------------------- MODULE ResultStream ------------------------------
(***************************************************************************)
(* One QueryStream after StreamingQuery::Open: the loop that fetches the   *)
(* result, cuts it into chunks, writes them, and leaves through Close,     *)
(* Abort or the catch block, whatever the client and PostgreSQL do         *)
(* meanwhile.  Module ShardService has the connection's side of it.        *)
(*                                                                         *)
(* A chunk is the range of the rows it carries; its payload is             *)
(* EncodeRawPgBatch of them.  Chunks, PGresults and the local transaction  *)
(* are state, texts are not.                                               *)
(***************************************************************************)
EXTENDS RawBatch

CONSTANTS
    Tables,      \* results: columns and rows of cells
    FetchSizes,  \* values of MTDD_PG_FETCH_ROWS as an int
    BatchSizes   \* values of MTDD_PG_WIRE_BATCH_ROWS as an int

ASSUME ResultAssumption ==
    /\ \A tb \in Tables : /\ tb.columns \in Nat /\ tb.columns <= INT_MAX
                          /\ tb.rows \in Seq([1..tb.columns -> Cell])
    /\ FetchSizes \subseteq Int
    /\ \A n \in BatchSizes : n \in Int /\ n <= INT_MAX

VARIABLES
    request,           \* what is executed, and whether Open began a transaction
    config,            \* pg_fetch_rows and pg_wire_batch_rows
    cancelled,         \* the client has cancelled: context->IsCancelled()
    pc,                \* where QueryStream is
    position,          \* rows the cursor has moved past
    immediate_result_, \* StreamingQuery's PGresult, 0 when it has none
    last_result,       \* QueryStream's PGresult
    results,           \* PGresults not cleared yet, by number
    schema_open, batch_sent, total_rows, row_begin,
    schema_meta,       \* format of the columns as announced
    chunks,            \* chunks written
    txn                \* the transaction Open began

pgVars == <<position, immediate_result_, last_result, results>>
batchVars == <<schema_open, schema_meta, batch_sent, total_rows, row_begin>>
serverVars == <<request, config, pc, pgVars, batchVars, chunks, txn>>
resultVars == <<serverVars, cancelled>>
fixed == <<request, config, cancelled>>

\* How the statement runs and what its result is: through a cursor, or at once
\* with rows, with a count, or with nothing (an empty statement).
Shapes == {"cursor", "tuples", "command", "empty"}

Requests ==
    {r \in [shape : Shapes, table : Tables, local : BOOLEAN] :
        /\ r.local => r.shape = "cursor"
        /\ r.shape \in {"command", "empty"} => r.table.columns = 0
        /\ r.shape = "empty" => Len(r.table.rows) = 0}

use_cursor_ == request.shape = "cursor"
RowCount == Len(request.table.rows)
num_fields == request.table.columns

fetch_rows == IF config.fetch > 0 THEN config.fetch ELSE 10000
wire_batch_rows == IF config.batch > 0 THEN config.batch ELSE 1000

Least(a, b) == IF a <= b THEN a ELSE b

\* A PGresult: its number (two suffice, as one is cleared when the next is
\* there), the rows before it, its rows (PQntuples), whether
\* its status is one QueryStream takes, and the format of its cells.
Result(i, f, n, ok, fmt) == [id |-> i, from |-> f, rows |-> n, ok |-> ok, format |-> fmt]
NoResult == Result(0, 0, 0, TRUE, 0)

ResultInit ==
    /\ request \in Requests
    /\ config \in [fetch : FetchSizes, batch : BatchSizes]
    /\ cancelled = FALSE
    /\ pc = "loop"
    /\ position = 0
    /\ immediate_result_ = (IF use_cursor_ THEN 0 ELSE 1)
    /\ last_result = NoResult
    /\ results = (IF use_cursor_ THEN {} ELSE {1})
    /\ schema_open = FALSE
    /\ batch_sent = FALSE
    /\ total_rows = 0
    /\ row_begin = 0
    /\ schema_meta = 0
    /\ chunks = <<>>
    /\ txn = (IF request.local THEN "open" ELSE "none")

-----------------------------------------------------------------------------
(***************************************************************************)
(* Writing.  ServerWriter::Write (external) succeeds as long as the call   *)
(* is not cancelled; afterwards it may fail.                               *)
(***************************************************************************)
Chunk(k, a, b) == [kind |-> k, from |-> a, to |-> b]

Written(c) == chunks' = Append(chunks, c)
WriteFails == cancelled /\ UNCHANGED chunks

\* WriteErrorChunk ignores the result of Write.
WriteErrorChunk == Written(Chunk("ERROR", 0, 0)) \/ WriteFails

\* The client cancels the call or goes away.
ClientCancels ==
    /\ ~cancelled /\ pc # "done"
    /\ cancelled' = TRUE
    /\ UNCHANGED serverVars

-----------------------------------------------------------------------------
(***************************************************************************)
(* The loop.                                                               *)
(***************************************************************************)
LoopTest ==
    /\ pc = "loop"
    /\ pc' = IF cancelled THEN "abort" ELSE "fetch"
    /\ UNCHANGED <<fixed, pgVars, batchVars, chunks, txn>>

\* Rows of the next FETCH.
FetchSize == Least(fetch_rows, RowCount - position)

\* What StreamingQuery::Fetch returns.  FETCH runs through PQexec on a cursor
\* that was not declared BINARY, so its cells are text (0); PQexecParams asks
\* for binary (1).
Fetched ==
    IF use_cursor_
    THEN Result(IF last_result.id = 1 THEN 2 ELSE 1, position, FetchSize, TRUE, 0)
    ELSE Result(1, 0, IF request.shape = "tuples" THEN RowCount ELSE 0,
                request.shape # "empty", 1)

\* Mutant of ClearPrevious: the previous result is not cleared.
KeepPrevious == results

\* The results alive once the previous one is cleared.
ClearPrevious == results \ {last_result.id}

\* Fetch returns a result, which takes the place of the previous one.
Fetch ==
    /\ pc = "fetch"
    /\ use_cursor_ \/ immediate_result_ # 0
    /\ last_result' = Fetched
    /\ results' = ClearPrevious \cup {Fetched.id}
    /\ position' = Fetched.from + Fetched.rows
    /\ immediate_result_' = 0
    /\ pc' = "examine"
    /\ UNCHANGED <<fixed, batchVars, chunks, txn>>

\* FETCH fails: null and an error.
FetchFails ==
    /\ pc = "fetch" /\ use_cursor_
    /\ WriteErrorChunk
    /\ pc' = "abort"
    /\ UNCHANGED <<fixed, pgVars, batchVars, txn>>

\* The immediate result has been handed out: null and no error.
FetchNothing ==
    /\ pc = "fetch" /\ ~use_cursor_ /\ immediate_result_ = 0
    /\ pc' = "finish"
    /\ UNCHANGED <<fixed, pgVars, batchVars, chunks, txn>>

\* A status that is neither TUPLES_OK nor COMMAND_OK: an empty statement.
BadStatus ==
    /\ pc = "examine" /\ ~last_result.ok
    /\ WriteErrorChunk
    /\ pc' = "abort"
    /\ UNCHANGED <<fixed, pgVars, batchVars, txn>>

\* Mutant of WriteTrailer: the result of Write is ignored.
WriteTrailerUnchecked(n) ==
    /\ Written(Chunk("TRAILER", 0, n)) \/ WriteFails
    /\ results' = results \ {last_result.id}
    /\ last_result' = NoResult
    /\ pc' = "close"

\* A TRAILER with count n.  Once it is written the result is cleared and Close
\* comes next; if it cannot be, Abort.
WriteTrailer(n) ==
    \/ /\ Written(Chunk("TRAILER", 0, n))
       /\ results' = results \ {last_result.id}
       /\ last_result' = NoResult
       /\ pc' = "close"
    \/ /\ WriteFails
       /\ pc' = "abort"
       /\ UNCHANGED <<results, last_result>>

\* Mutant of CommandCount: PQntuples of a command.
CountOfTuples == last_result.rows

\* The count of BuildCommandTrailer: PQcmdTuples of a command, else PQntuples.
CommandCount == IF request.shape = "command" THEN RowCount ELSE last_result.rows

\* A result without columns: its TRAILER ends the stream.
CommandTrailer ==
    /\ pc = "examine" /\ last_result.ok /\ num_fields = 0
    /\ WriteTrailer(CommandCount)
    /\ UNCHANGED <<fixed, position, immediate_result_, batchVars, txn>>

\* The format of the columns, PQfformat.
BuildSchemaMeta == last_result.format

\* Mutant of AfterResult: an empty result never ends the loop.
AfterResultRunsOn == IF last_result.rows > 0 THEN "send" ELSE "loop"

\* Rows go to the batches; an empty result ends the loop unless it is the first.
AfterResult ==
    IF last_result.rows > 0 THEN "send" ELSE IF schema_open THEN "finish" ELSE "loop"

\* A result with columns; the first one gives the schema.
Examine ==
    /\ pc = "examine" /\ last_result.ok /\ num_fields > 0
    /\ schema_open' = TRUE
    /\ schema_meta' = IF schema_open THEN schema_meta ELSE BuildSchemaMeta
    /\ row_begin' = 0
    /\ pc' = AfterResult
    /\ UNCHANGED <<fixed, pgVars, batch_sent, total_rows, chunks, txn>>

row_end == Least(row_begin + wire_batch_rows, last_result.rows)

\* Mutant of NextBatch: a row is skipped between two batches.
NextBatchSkips == row_begin + wire_batch_rows + 1

NextBatch == row_begin + wire_batch_rows

\* SendBatchChunk gives up when the client has cancelled.  Its first chunk is
\* the SCHEMA.
SendBatchChunk(a, b, next) ==
    \/ /\ cancelled
       /\ pc' = "abort"
       /\ UNCHANGED <<chunks, batch_sent>>
    \/ /\ ~cancelled
       /\ Written(Chunk(IF batch_sent THEN "BATCH" ELSE "SCHEMA", a, b))
       /\ batch_sent' = TRUE
       /\ pc' = next

\* One turn of the batch loop; the rows are counted before they are sent.
SendBatch ==
    /\ pc = "send"
    /\ total_rows' = total_rows + (row_end - row_begin)
    /\ row_begin' = NextBatch
    /\ SendBatchChunk(last_result.from + row_begin, last_result.from + row_end,
                      IF NextBatch < last_result.rows THEN "send" ELSE "loop")
    /\ UNCHANGED <<fixed, pgVars, schema_open, schema_meta, txn>>

-----------------------------------------------------------------------------
(***************************************************************************)
(* After the loop.                                                         *)
(***************************************************************************)

\* There were columns and no rows: a SCHEMA chunk with an empty batch.
SendEmptySchema ==
    /\ pc = "finish" /\ schema_open /\ ~batch_sent
    /\ SendBatchChunk(0, 0, "finish")
    /\ UNCHANGED <<fixed, pgVars, schema_open, schema_meta, total_rows, row_begin, txn>>

\* The loop ends with the schema known, so the TRAILER has total_rows.
SendTrailer ==
    /\ pc = "finish" /\ (schema_open => batch_sent)
    /\ WriteTrailer(total_rows)
    /\ UNCHANGED <<fixed, position, immediate_result_, batchVars, txn>>

\* Building the schema, encoding a batch or a trailer throws (a negative cell
\* length, no memory): the catch block is next.
Throws ==
    /\ pc \in {"examine", "send", "finish"}
    /\ pc' = "caught"
    /\ UNCHANGED <<fixed, pgVars, batchVars, chunks, txn>>

\* EndTransaction, then the end of the RPC; "cleared" are PGresults it clears.
Leave(outcomes, cleared) ==
    /\ txn' \in (IF txn = "open" THEN outcomes ELSE {txn})
    /\ results' = results \ cleared
    /\ immediate_result_' = 0
    /\ pc' = "done"
    /\ UNCHANGED <<fixed, position, last_result, batchVars>>

\* COMMIT may fail, or PostgreSQL may have failed the transaction before it;
\* nobody looks at exec_error after Close.
Close ==
    /\ pc = "close"
    /\ Leave({"committed", "lost"}, {immediate_result_})
    /\ UNCHANGED chunks

\* ROLLBACK.  QueryStream returns without clearing last_result.
Abort ==
    /\ pc = "abort"
    /\ Leave({"rolledback"}, {immediate_result_})
    /\ UNCHANGED chunks

\* The catch block: PQclear, Abort, ERROR.
Caught ==
    /\ pc = "caught"
    /\ Leave({"rolledback"}, {last_result.id, immediate_result_})
    /\ WriteErrorChunk

-----------------------------------------------------------------------------
ServerStep ==
    \/ LoopTest \/ Fetch \/ FetchFails \/ FetchNothing
    \/ BadStatus \/ CommandTrailer \/ Examine
    \/ SendBatch \/ SendEmptySchema \/ SendTrailer \/ Throws
    \/ Close \/ Abort \/ Caught

ResultNext == ServerStep \/ ClientCancels

ResultSpec == ResultInit /\ [][ResultNext]_resultVars

\* The handler's thread runs on: PostgreSQL answers each statement and Write
\* returns (the client reads, or its call is cancelled).
ResultFairSpec == ResultSpec /\ WF_resultVars(ServerStep)

-----------------------------------------------------------------------------
\* Type invariant of a stream.
ResultTypeOK ==
    /\ request \in Requests
    /\ config \in [fetch : FetchSizes, batch : BatchSizes]
    /\ cancelled \in BOOLEAN
    /\ pc \in {"loop", "fetch", "examine", "send", "finish", "close", "abort", "caught", "done"}
    /\ position \in 0..RowCount
    /\ immediate_result_ \in {0, 1}
    /\ last_result \in [id : 0..2, from : Nat, rows : Nat, ok : BOOLEAN, format : {0, 1}]
    /\ results \in SUBSET (1..2)
    /\ schema_open \in BOOLEAN /\ batch_sent \in BOOLEAN
    /\ total_rows \in Nat /\ row_begin \in Nat
    /\ schema_meta \in {0, 1}
    /\ chunks \in Seq([kind : {"SCHEMA", "BATCH", "TRAILER", "ERROR"}, from : Nat, to : Nat])
    /\ txn \in {"none", "open", "committed", "lost", "rolledback"}

HasTrailer == chunks # <<>> /\ chunks[Len(chunks)].kind = "TRAILER"

\* What the client reads out of a chunk's payload.
RowsOf(c) ==
    IF c.kind \in {"SCHEMA", "BATCH"}
    THEN DecodedRows(EncodeRawPgBatch(request.table.rows, num_fields, c.from, c.to))
    ELSE <<>>

ReadChunks == [i \in DOMAIN chunks |-> RowsOf(chunks[i])]

\* What the client reads out of the payloads, chunk after chunk, is the
\* beginning of the result, cell for cell (NULL and the empty string apart), in
\* pieces of at most MTDD_PG_WIRE_BATCH_ROWS rows; before a TRAILER of a result
\* with columns it is all of it.  EncodeRawPgBatch and the loop around it.
RowsReadBack ==
    LET all == Flatten(ReadChunks) IN
    /\ \A i \in DOMAIN ReadChunks : Len(ReadChunks[i]) <= wire_batch_rows
    /\ \E n \in 0..RowCount : all = SubSeq(request.table.rows, 1, n)
    /\ HasTrailer /\ num_fields > 0 => all = request.table.rows

\* The number of rows a TRAILER reports is the size of the result, except for a
\* cursor without columns (SELECT FROM t): the first FETCH ends that stream, so
\* no more than MTDD_PG_FETCH_ROWS rows are counted (the num_fields == 0 branch).
TrailerCounts ==
    HasTrailer =>
        chunks[Len(chunks)].to =
            IF use_cursor_ /\ num_fields = 0 THEN Least(fetch_rows, RowCount) ELSE RowCount

\* "Tuple results are streamed as **raw libpq binary cells**"
\* (docs/OPERATIONS.md:67), "Text results are rejected by the server"
\* (proto/mtdd.proto:74): the columns a stream announces and the rows it sends
\* are binary, whether they come through a cursor or at once.
BinaryCells ==
    batch_sent => /\ schema_meta = 1
                  /\ last_result.id # 0 => last_result.format = 1

\* The transaction Open began gets a COMMIT only after the TRAILER was written
\* and a ROLLBACK only if it was not, and none is left open: a client that got
\* an ERROR never finds its statement's effects.  A client that cancels once the
\* TRAILER is written still has it committed, and the COMMIT may be lost.
CommitFollowsTrailer ==
    /\ txn \in {"committed", "lost"} => HasTrailer
    /\ txn = "rolledback" => ~HasTrailer
    /\ pc = "done" => txn # "open"

\* PQclear: QueryStream never holds a result that was cleared, never has more
\* than one alive besides the stream's own, and leaves none behind when it ends
\* with a TRAILER.  (The early returns of the loop leave last_result.)
ResultsCleared ==
    /\ results \subseteq {last_result.id, immediate_result_} \ {0}
    /\ pc # "done" /\ last_result.id # 0 => last_result.id \in results
    /\ pc = "done" /\ HasTrailer => results = {}

\* A stream comes to an end whatever the sizes of fetches and batches.
StreamEnds == <>(pc = "done")

Promise == INSTANCE ResultProtocol WITH
    result <- [columns |-> num_fields, rows |-> RowCount]

\* The chunks are those ResultProtocol allows (docs/OPERATIONS.md:74).
KeepsResultProtocol == Promise!Spec
=============================================================================
