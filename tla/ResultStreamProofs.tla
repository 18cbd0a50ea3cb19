-------------------------- MODULE ResultStreamProofs ---------------------------
(***************************************************************************)
(* Proofs about ResultStream, for any results and any sizes of fetches and *)
(* batches.                                                                *)
(***************************************************************************)
EXTENDS ResultStream, WellFoundedInduction, TLAPS

Ended == Promise!Ended(chunks)
Sent == Promise!Sent(chunks)

\* QueryStream is in its loop or on its way to the TRAILER.
Running == pc \in {"loop", "fetch", "examine", "send", "finish"}

\* Where the row counters, the cursor and the chunks agree.
Accounting ==
    /\ pc \in {"loop", "fetch"} => Sent = position /\ total_rows = position
    /\ pc = "examine" =>
        /\ Sent = last_result.from /\ total_rows = last_result.from
        /\ position = last_result.from + last_result.rows
    /\ pc = "send" =>
        /\ Sent = last_result.from + row_begin /\ total_rows = last_result.from + row_begin
        /\ row_begin < last_result.rows
        /\ position = last_result.from + last_result.rows
    /\ pc = "finish" => Sent = RowCount /\ total_rows = RowCount

\* What has been announced: SCHEMA comes first, and only with columns.
Announced ==
    /\ Running => ~Ended /\ (batch_sent <=> chunks # <<>>) /\ (chunks # <<>> => schema_open)
    /\ pc \in {"send", "finish"} => schema_open
    /\ schema_open => num_fields > 0

\* The rows of the result in hand.
InHand ==
    /\ use_cursor_ => immediate_result_ = 0
    /\ immediate_result_ # 0 => last_result.id = 0
    /\ pc = "examine" => last_result.id # 0
    /\ pc = "examine" /\ use_cursor_ =>
        last_result.rows = Least(fetch_rows, RowCount - last_result.from)
    /\ pc = "examine" /\ ~use_cursor_ =>
        /\ last_result.from = 0 /\ ~schema_open /\ immediate_result_ = 0
        /\ last_result.rows = IF request.shape = "tuples" THEN RowCount ELSE 0
    /\ pc \in {"loop", "fetch"} /\ ~use_cursor_ =>
        IF immediate_result_ = 0 THEN position = RowCount /\ schema_open
                                 ELSE position = 0 /\ ~schema_open
    /\ pc = "send" /\ ~use_cursor_ => position = RowCount /\ immediate_result_ = 0

\* How the stream ends.
Leaving ==
    /\ pc = "caught" => ~Ended
    /\ pc = "abort" => ~HasTrailer
    /\ pc = "close" => HasTrailer /\ last_result.id = 0
    /\ pc # "done" => txn \in {"none", "open"}

\* The inductive invariant.
ResultInv ==
    /\ ResultTypeOK
    /\ Accounting /\ Announced /\ InHand /\ Leaving
    /\ TrailerCounts /\ CommitFollowsTrailer /\ ResultsCleared

ChunkType == [kind : {"SCHEMA", "BATCH", "TRAILER", "ERROR"}, from : Nat, to : Nat]

\* Lemma: what PostgreSQL's ints bound.
LEMMA TableRows ==
  ASSUME ResultTypeOK
  PROVE  /\ request.table.rows \in Seq([1..num_fields -> Cell])
         /\ RowCount = Len(request.table.rows) /\ RowCount \in Nat
         /\ num_fields \in Nat /\ num_fields <= INT_MAX
         /\ wire_batch_rows <= INT_MAX
<1>1. request.table \in Tables /\ config.batch \in BatchSizes
  BY DEF ResultTypeOK, Requests
<1>2. /\ request.table.rows \in Seq([1..num_fields -> Cell])
      /\ num_fields \in Nat /\ num_fields <= INT_MAX
  BY Zenon, <1>1, ResultAssumption DEF num_fields
<1>3. config.batch \in Int /\ config.batch <= INT_MAX
  BY Zenon, <1>1, ResultAssumption
<1>4. wire_batch_rows <= INT_MAX
  BY SMT, <1>3 DEF wire_batch_rows, INT_MAX
<1>5. Len(request.table.rows) \in Nat
  BY SMT, <1>2
<1>6. QED
  BY Zenon, <1>2, <1>4, <1>5 DEF RowCount

\* Lemma: the sizes are numbers, those of fetches and batches positive.
LEMMA Sizes ==
  ASSUME ResultTypeOK
  PROVE  /\ RowCount \in Nat /\ num_fields \in Nat
         /\ fetch_rows \in Nat \ {0} /\ wire_batch_rows \in Nat \ {0}
         /\ ~use_cursor_ /\ num_fields > 0 => request.shape = "tuples"
         /\ request.shape = "empty" => RowCount = 0
<1>1. request.table \in Tables /\ request.shape \in Shapes
  BY DEF ResultTypeOK, Requests
<1>2. request.shape \in {"command", "empty"} => request.table.columns = 0
  BY DEF ResultTypeOK, Requests
<1>3. request.shape = "empty" => RowCount = 0
  BY DEF ResultTypeOK, Requests, RowCount
<1>4. config.fetch \in Int /\ config.batch \in Int
  BY Zenon, ResultAssumption DEF ResultTypeOK
<1>5. RowCount \in Nat /\ num_fields \in Nat
  BY TableRows
<1>6. QED
  BY <1>1, <1>2, <1>3, <1>4, <1>5
     DEF num_fields, fetch_rows, wire_batch_rows, use_cursor_, Shapes

\* Lemma: what a written chunk changes.
LEMMA WriteFacts ==
  ASSUME ResultTypeOK, NEW c \in ChunkType, Written(c)
  PROVE  /\ chunks' \in Seq(ChunkType) /\ chunks' # <<>>
         /\ chunks'[Len(chunks')] = c
BY DEF ResultTypeOK, Written, ChunkType
\* Lemma: an ERROR chunk, written or not, leaves a stream without TRAILER.
LEMMA ErrorWritten ==
  ASSUME ResultTypeOK, ~Ended, WriteErrorChunk
  PROVE  chunks' \in Seq(ChunkType) /\ ~HasTrailer'
<1>1. Chunk("ERROR", 0, 0) \in ChunkType
  BY DEF Chunk, ChunkType
<1>2. CASE Written(Chunk("ERROR", 0, 0))
  BY <1>1, <1>2, WriteFacts DEF HasTrailer, Chunk
<1>3. CASE WriteFails
  BY <1>3 DEF WriteFails, ResultTypeOK, ChunkType, Ended, Promise!Ended, HasTrailer
<1>4. QED
  BY <1>2, <1>3 DEF WriteErrorChunk

\* Lemma: the steps that write nothing, or an ERROR, keep the invariant.
LEMMA QuietStep ==
  ASSUME ResultInv,
         \/ LoopTest \/ FetchFails \/ FetchNothing \/ BadStatus \/ Throws
         \/ Close \/ Abort \/ ClientCancels \/ UNCHANGED resultVars
  PROVE  ResultInv'
<1> DEFINE Goal == ResultInv'
<1> SUFFICES Goal
  OBVIOUS
<1> HIDE DEF Goal
<1> USE Sizes DEF ResultInv, pgVars, batchVars, serverVars, resultVars, fixed, Accounting,
        Announced, InHand, Leaving, TrailerCounts, CommitFollowsTrailer,
        ResultsCleared, Running, Sent, Ended, Promise!Sent, Promise!Ended, HasTrailer,
        ChunkType, use_cursor_, RowCount, num_fields, fetch_rows, wire_batch_rows,
        ResultTypeOK
<1>1. CASE LoopTest
  BY SMTT(30), <1>1 DEF LoopTest, Goal
<1>2. CASE FetchFails
  <2>1. chunks' \in Seq(ChunkType) /\ ~HasTrailer'
    BY <1>2, ErrorWritten DEF FetchFails
  <2>2. QED
    BY <1>2, <2>1 DEF FetchFails, Goal
<1>3. CASE FetchNothing
  BY SMTT(30), <1>3 DEF FetchNothing, Goal
<1>4. CASE BadStatus
  <2>1. chunks' \in Seq(ChunkType) /\ ~HasTrailer'
    BY <1>4, ErrorWritten DEF BadStatus
  <2>2. QED
    BY <1>4, <2>1 DEF BadStatus, Goal
<1>5. CASE Throws
  BY SMTT(30), <1>5 DEF Throws, Goal
<1>6. CASE Close
  BY SMTT(30), <1>6 DEF Close, Leave, Goal
<1>7. CASE Abort
  BY SMTT(30), <1>7 DEF Abort, Leave, Goal
<1>8. CASE ClientCancels
  BY SMTT(30), <1>8 DEF ClientCancels, Goal
<1>9. CASE UNCHANGED resultVars
  BY <1>9 DEF Goal
<1>10. QED
  BY <1>1, <1>2, <1>3, <1>4, <1>5, <1>6, <1>7, <1>8, <1>9

\* Lemma: a TRAILER keeps the invariant if its count is the one TrailerCounts
\* names.
LEMMA TrailerStep ==
  ASSUME ResultInv, Running, NEW n \in Nat, WriteTrailer(n),
         n = (IF use_cursor_ /\ num_fields = 0 THEN Least(fetch_rows, RowCount) ELSE RowCount),
         UNCHANGED <<fixed, position, immediate_result_, batchVars, txn>>
  PROVE  ResultInv'
<1> DEFINE Goal == ResultInv'
<1> SUFFICES Goal
  OBVIOUS
<1> HIDE DEF Goal
<1>1. Chunk("TRAILER", 0, n) \in ChunkType
  BY DEF Chunk, ChunkType
<1>2. CASE Written(Chunk("TRAILER", 0, n)) /\ pc' = "close"
           /\ results' = results \ {last_result.id} /\ last_result' = NoResult
  <2>1. chunks' \in Seq(ChunkType) /\ HasTrailer' /\ chunks'[Len(chunks')].to = n
    BY <1>1, <1>2, WriteFacts DEF ResultInv, HasTrailer, Chunk
  <2>2. UNCHANGED <<use_cursor_, RowCount, num_fields, fetch_rows>>
    BY DEF fixed, use_cursor_, RowCount, num_fields, fetch_rows
  <2>3. NoResult \in [id : 0..2, from : Nat, rows : Nat, ok : BOOLEAN, format : {0, 1}]
        /\ NoResult.id = 0
    BY DEF NoResult, Result
  <2>4. ResultTypeOK'
    BY ZenonT(30), <1>2, <2>1, <2>2, <2>3 DEF ResultInv, ResultTypeOK, ChunkType, fixed, batchVars
  <2>5. Accounting' /\ Announced' /\ InHand' /\ Leaving'
    BY SMTT(30), <1>2, <2>1, <2>2, <2>3 DEF ResultInv, Accounting, Announced, InHand, Leaving, Running,
       batchVars, ResultTypeOK, CommitFollowsTrailer
  <2>6. TrailerCounts'
    BY <2>1, <2>2, <2>3, <1>2 DEF TrailerCounts
  <2>7. CommitFollowsTrailer' /\ ResultsCleared'
    BY SMTT(30), <1>2, <2>1, <2>3 DEF ResultInv, CommitFollowsTrailer, ResultsCleared, Leaving, Running
  <2>8. QED
    BY <2>4, <2>5, <2>6, <2>7 DEF ResultInv, Goal
<1>3. CASE WriteFails /\ pc' = "abort" /\ UNCHANGED <<results, last_result>>
  BY SMTT(30), <1>3 DEF WriteFails, ResultInv, batchVars, fixed, Accounting,
     Announced, InHand, Leaving, TrailerCounts, CommitFollowsTrailer,
     ResultsCleared, Running, Ended, Promise!Ended, HasTrailer,
     use_cursor_, RowCount, num_fields, ResultTypeOK, Goal
<1>4. QED
  BY <1>2, <1>3 DEF WriteTrailer

\* Lemma: the catch block keeps the invariant.
LEMMA CaughtStep == ASSUME ResultInv, Caught PROVE ResultInv'
<1>1. /\ pc = "caught" /\ pc' = "done" /\ immediate_result_' = 0
      /\ results' = results \ {last_result.id, immediate_result_}
      /\ txn' \in IF txn = "open" THEN {"rolledback"} ELSE {txn}
      /\ UNCHANGED <<fixed, position, last_result, batchVars>>
  BY Zenon DEF Caught, Leave
<1>2. chunks' \in Seq(ChunkType) /\ ~HasTrailer'
  BY <1>1, ErrorWritten DEF Caught, ResultInv, Leaving
<1>3. txn' \in {"none", "rolledback"}
  BY <1>1 DEF ResultInv, Leaving
<1>4. UNCHANGED <<use_cursor_, RowCount, num_fields, fetch_rows>>
  BY <1>1 DEF fixed, use_cursor_, RowCount, num_fields, fetch_rows
<1>5. ResultTypeOK'
  BY Zenon, <1>1, <1>2, <1>3, <1>4 DEF ResultInv, ResultTypeOK, ChunkType, fixed, batchVars
<1>6. Accounting' /\ Announced' /\ InHand' /\ Leaving'
  BY SMTT(30), <1>1, <1>4 DEF ResultInv, Accounting, Announced, InHand, Leaving, Running, batchVars
<1>7. TrailerCounts' /\ CommitFollowsTrailer' /\ ResultsCleared'
  BY <1>1, <1>2, <1>3 DEF ResultInv, TrailerCounts, CommitFollowsTrailer,
     ResultsCleared, batchVars
<1>8. QED
  BY <1>5, <1>6, <1>7 DEF ResultInv

\* Lemma: looking at a result with columns keeps the invariant.
LEMMA ExamineStep == ASSUME ResultInv, Examine PROVE ResultInv'
<1>1. schema_open' \in BOOLEAN /\ schema_open'
  BY Zenon DEF Examine
<1>2. /\ pc = "examine" /\ num_fields > 0 /\ row_begin' = 0
      /\ pc' = IF last_result.rows > 0 THEN "send"
                ELSE IF schema_open THEN "finish" ELSE "loop"
  BY DEF Examine, AfterResult
<1>3. schema_meta' \in {0, 1}
  BY DEF Examine, BuildSchemaMeta, ResultInv, ResultTypeOK
<1>4. UNCHANGED <<fixed, pgVars, batch_sent, total_rows, chunks, txn>>
  BY DEF Examine
<1>5. UNCHANGED <<use_cursor_, RowCount, num_fields, fetch_rows, Sent, Ended, HasTrailer>>
  BY <1>4 DEF fixed, use_cursor_, RowCount, num_fields, fetch_rows, Sent, Ended, HasTrailer
<1>6. /\ schema_open /\ last_result.rows = 0 => last_result.from = RowCount
      /\ ~use_cursor_ => last_result.from + last_result.rows = RowCount
  <2>1. ResultTypeOK /\ InHand /\ Accounting
    BY DEF ResultInv
  <2>2. QED
    BY SMTT(30), <1>2, <2>1, Sizes DEF InHand, Least, ResultTypeOK, Accounting
<1>7. ResultTypeOK'
  BY <1>1, <1>2, <1>3, <1>4, <1>5 DEF ResultInv, ResultTypeOK, fixed, pgVars
<1>8. Accounting'
  BY <1>2, <1>4, <1>5, <1>6 DEF ResultInv, ResultTypeOK, Accounting, pgVars
<1>9. Announced'
  BY <1>1, <1>2, <1>4, <1>5 DEF ResultInv, Announced, Running
<1>10. InHand'
  BY <1>1, <1>2, <1>4, <1>5, <1>6 DEF ResultInv, Accounting, InHand, pgVars
<1>11. Leaving' /\ TrailerCounts' /\ CommitFollowsTrailer' /\ ResultsCleared'
  BY <1>2, <1>4, <1>5 DEF ResultInv, Leaving, TrailerCounts, CommitFollowsTrailer,
     ResultsCleared, pgVars
<1>12. QED
  BY <1>7, <1>8, <1>9, <1>10, <1>11 DEF ResultInv

\* Lemma: a FETCH, or the handing out of the immediate result, keeps the
\* invariant.
LEMMA FetchStep == ASSUME ResultInv, Fetch PROVE ResultInv'
<1> DEFINE P == [id : 0..2, from : Nat, rows : Nat, ok : BOOLEAN, format : {0, 1}]
<1>1. /\ pc = "fetch" /\ pc' = "examine"
      /\ use_cursor_ \/ immediate_result_ # 0
      /\ last_result' = Fetched /\ immediate_result_' = 0
      /\ results' = (results \ {last_result.id}) \cup {Fetched.id}
      /\ position' = Fetched.from + Fetched.rows
      /\ UNCHANGED <<fixed, batchVars, chunks, txn>>
  BY DEF Fetch, ClearPrevious
<1>2. UNCHANGED <<use_cursor_, RowCount, num_fields, fetch_rows, Sent, Ended, HasTrailer>>
  BY <1>1 DEF fixed, use_cursor_, RowCount, num_fields, fetch_rows, Sent, Ended, HasTrailer
<1>3. ResultTypeOK /\ Accounting /\ InHand /\ ResultsCleared
  BY DEF ResultInv
<1>4. /\ use_cursor_ =>
            /\ Fetched.from = position /\ Fetched.format = 0 /\ Fetched.id \in {1, 2}
            /\ Fetched.rows = Least(fetch_rows, RowCount - position)
      /\ ~use_cursor_ =>
            /\ Fetched.from = 0 /\ Fetched.format = 1 /\ Fetched.id = 1
            /\ Fetched.rows = IF request.shape = "tuples" THEN RowCount ELSE 0
  BY DEF Fetched, Result, FetchSize
<1>5. /\ Fetched \in P /\ Fetched.id \in {1, 2}
      /\ Fetched.from + Fetched.rows \in 0..RowCount
  <2>1. Least(fetch_rows, RowCount - position) \in 0..(RowCount - position)
    BY <1>3, Sizes DEF Least, ResultTypeOK
  <2>2. QED
    BY SMTT(30), <1>3, <2>1, Sizes DEF Fetched, Result, FetchSize, ResultTypeOK
<1>6. results' = {Fetched.id}
  <2>1. CASE use_cursor_
    <3>1. results \subseteq {last_result.id}
      BY <1>3, <2>1 DEF InHand, ResultsCleared
    <3>2. QED
      BY <1>1, <3>1
  <2>2. CASE ~use_cursor_
    <3>1. results \subseteq {Fetched.id}
      BY <1>1, <1>3, <1>4, <2>2 DEF InHand, ResultsCleared, ResultTypeOK
    <3>2. QED
      BY <1>1, <3>1
  <2>3. QED
    BY <2>1, <2>2
<1>7. ResultTypeOK'
  <2>1. last_result' \in P /\ results' \in SUBSET (1..2) /\ position' \in 0..(RowCount')
    BY <1>1, <1>2, <1>5, <1>6
  <2>2. QED
    BY <1>1, <1>3, <2>1 DEF ResultTypeOK, fixed, batchVars
<1>8. Accounting'
  <2>1. Fetched.from = position
    BY SMTT(30), <1>1, <1>3, <1>4 DEF InHand
  <2>2. QED
    BY <1>1, <1>2, <1>3, <2>1 DEF Accounting, batchVars
<1>9. Announced'
  BY <1>1, <1>2 DEF ResultInv, Announced, Running, batchVars
<1>10. InHand'
  BY <1>1, <1>2, <1>3, <1>4, <1>5 DEF InHand, batchVars, fixed
<1>11. Leaving' /\ TrailerCounts' /\ CommitFollowsTrailer'
  BY <1>1, <1>2 DEF ResultInv, Leaving, TrailerCounts, CommitFollowsTrailer
<1>12. ResultsCleared'
  BY <1>1, <1>3, <1>4, <1>5, <1>6 DEF InHand, ResultsCleared, batchVars
<1>13. QED
  BY <1>7, <1>8, <1>9, <1>10, <1>11, <1>12 DEF ResultInv

\* Lemma: a row chunk that is given up because the call is cancelled keeps the
\* invariant.
LEMMA GiveUp ==
  ASSUME ResultInv, Running, pc' = "abort", total_rows' \in Nat, row_begin' \in Nat,
         UNCHANGED <<fixed, pgVars, schema_open, schema_meta, chunks, batch_sent, txn>>
  PROVE  ResultInv'
<1>1. UNCHANGED <<use_cursor_, RowCount, num_fields, fetch_rows, Sent, Ended, HasTrailer>>
  BY DEF fixed, use_cursor_, RowCount, num_fields, fetch_rows, Sent, Ended, HasTrailer
<1>2. ResultTypeOK'
  BY <1>1 DEF ResultInv, ResultTypeOK, pgVars, fixed
<1>3. Accounting'
  BY <1>1 DEF ResultInv, Accounting, Running, pgVars
<1>4. Announced'
  BY <1>1 DEF ResultInv, Announced, Running
<1>5. InHand'
  BY <1>1 DEF ResultInv, InHand, Running, pgVars, fixed
<1>6. Leaving'
  BY <1>1 DEF ResultInv, Leaving, Running, Announced, Ended, Promise!Ended, HasTrailer
<1>7. TrailerCounts' /\ CommitFollowsTrailer' /\ ResultsCleared'
  BY <1>1 DEF ResultInv, Running, TrailerCounts, CommitFollowsTrailer, ResultsCleared, pgVars
<1>8. QED
  BY <1>2, <1>3, <1>4, <1>5, <1>6, <1>7 DEF ResultInv

\* Lemma: a row chunk that is written keeps the invariant, if it ends where the
\* counters say.
LEMMA RowsWritten ==
  ASSUME ResultInv, pc \in {"send", "finish"}, NEW next \in {"send", "loop", "finish"},
         NEW a \in Nat, NEW b \in Nat, SendBatchChunk(a, b, next), ~cancelled,
         total_rows' = b, row_begin' \in Nat,
         next = "loop" => b = position /\ pc = "send",
         next = "finish" => b = RowCount,
         next = "send" => /\ b = last_result.from + row_begin'
                          /\ row_begin' < last_result.rows /\ pc = "send",
         UNCHANGED <<fixed, pgVars, schema_open, schema_meta, txn>>
  PROVE  ResultInv'
<1>1. batch_sent' \in BOOLEAN /\ batch_sent'
  BY Zenon DEF SendBatchChunk
<1>2. PICK c \in ChunkType :
        Written(c) /\ c.to = b /\ c.kind \in {"SCHEMA", "BATCH"} /\ pc' = next
  BY DEF SendBatchChunk, Chunk, ChunkType
<1>3. chunks' \in Seq(ChunkType) /\ chunks' # <<>> /\ chunks'[Len(chunks')] = c
  BY <1>2, WriteFacts DEF ResultInv
<1>4. Sent' = b /\ ~Ended' /\ ~HasTrailer'
  BY <1>2, <1>3 DEF Sent, Ended, HasTrailer, Promise!Sent, Promise!Ended
<1>5. UNCHANGED <<use_cursor_, RowCount, num_fields, fetch_rows>>
  BY DEF fixed, use_cursor_, RowCount, num_fields, fetch_rows
<1>6. schema_open
  BY DEF ResultInv, Announced
<1>7. ResultTypeOK'
  BY SMTT(30), <1>1, <1>2, <1>3, <1>5 DEF ResultInv, ResultTypeOK, ChunkType, fixed, pgVars
<1>8. Accounting'
  BY <1>2, <1>4, <1>5 DEF ResultInv, Accounting, pgVars
<1>9. Announced'
  BY <1>1, <1>2, <1>3, <1>4, <1>5, <1>6 DEF ResultInv, Announced, Running
<1>10. InHand'
  BY SMTT(30), <1>2, <1>5, <1>6 DEF ResultInv, InHand, pgVars
<1>11. Leaving' /\ TrailerCounts' /\ CommitFollowsTrailer'
  BY <1>2, <1>4 DEF ResultInv, Leaving, TrailerCounts, CommitFollowsTrailer
<1>12. ResultsCleared'
  BY <1>2, <1>4 DEF ResultInv, ResultsCleared, pgVars
<1>13. QED
  BY <1>7, <1>8, <1>9, <1>10, <1>11, <1>12 DEF ResultInv

\* Lemma: every step of QueryStream and of its client keeps the invariant.
LEMMA ResultStep == ResultInv /\ [ResultNext]_resultVars => ResultInv'
<1> SUFFICES ASSUME ResultInv, [ResultNext]_resultVars PROVE ResultInv'
  OBVIOUS
<1> USE DEF ResultInv
<1>1. CASE CommandTrailer
  <2>1. pc = "examine" /\ num_fields = 0
    BY <1>1 DEF CommandTrailer
  <2>2. /\ CommandCount \in Nat
        /\ CommandCount = IF use_cursor_ /\ num_fields = 0
                          THEN Least(fetch_rows, RowCount) ELSE RowCount
    <3>1. request.shape \in Shapes
      BY DEF ResultTypeOK, Requests
    <3>2. Accounting /\ InHand /\ Announced
      OBVIOUS
    <3>3. last_result.from = 0
      BY <2>1, <3>2, Sizes DEF Accounting, Announced, Running, Sent, Promise!Sent
    <3>4. QED
      BY <1>1, <2>1, <3>1, <3>2, <3>3, Sizes
         DEF CommandTrailer, CommandCount, Shapes, InHand, use_cursor_, Least, ResultTypeOK
  <2>3. QED
    BY <1>1, <2>1, <2>2, TrailerStep DEF CommandTrailer, Running
<1>2. CASE SendTrailer
  <2>1. pc = "finish" /\ WriteTrailer(total_rows)
        /\ UNCHANGED <<fixed, position, immediate_result_, batchVars, txn>>
    BY <1>2 DEF SendTrailer
  <2>2. total_rows = RowCount /\ num_fields > 0 /\ total_rows \in Nat
    BY <2>1 DEF Accounting, Announced, ResultTypeOK
  <2>3. QED
    BY <2>1, <2>2, TrailerStep, Sizes DEF Running
<1>3. CASE SendBatch
  <2>0. /\ last_result.from \in Nat /\ last_result.rows \in Nat /\ row_begin \in Nat
        /\ row_begin < last_result.rows /\ total_rows = last_result.from + row_begin
        /\ position = last_result.from + last_result.rows
        /\ wire_batch_rows \in Nat \ {0}
    <3>1. ResultTypeOK /\ Accounting /\ pc = "send"
      BY <1>3 DEF SendBatch
    <3>2. wire_batch_rows \in Nat \ {0}
      BY <3>1, Sizes
    <3> HIDE DEF ResultInv
    <3>3. QED
      BY <3>1, <3>2 DEF ResultTypeOK, Accounting
  <2>1. /\ row_end \in Nat /\ NextBatch \in Nat /\ row_begin < row_end
        /\ row_end = IF NextBatch < last_result.rows THEN NextBatch ELSE last_result.rows
    BY <2>0 DEF row_end, NextBatch, Least
  <2> DEFINE a == last_result.from + row_begin
             b == last_result.from + row_end
             next == IF NextBatch < last_result.rows THEN "send" ELSE "loop"
  <2>2. /\ pc = "send" /\ SendBatchChunk(a, b, next)
        /\ total_rows' = total_rows + (row_end - row_begin) /\ row_begin' = NextBatch
        /\ UNCHANGED <<fixed, pgVars, schema_open, schema_meta, txn>>
    BY <1>3 DEF SendBatch
  <2>3. /\ a \in Nat /\ b \in Nat /\ total_rows' = b
        /\ position = last_result.from + last_result.rows
    BY <2>0, <2>1, <2>2
  <2>4. CASE cancelled
    BY <2>1, <2>2, <2>3, <2>4, GiveUp DEF SendBatchChunk, Running
  <2>5. CASE ~cancelled
    <3>1. next \in {"send", "loop"}
      OBVIOUS
    <3>2. next = "loop" => b = position
      BY <2>1, <2>3
    <3>3. next = "send" => b = last_result.from + row_begin' /\ row_begin' < last_result.rows
      BY <2>1, <2>2
    <3> HIDE DEF a, b, next
    <3>4. QED
      BY <2>1, <2>2, <2>3, <2>5, <3>1, <3>2, <3>3, RowsWritten
  <2>6. QED
    BY <2>4, <2>5
<1>4. CASE SendEmptySchema
  <2>1. /\ pc = "finish" /\ ~batch_sent /\ SendBatchChunk(0, 0, "finish")
        /\ UNCHANGED <<fixed, pgVars, schema_open, schema_meta, total_rows, row_begin, txn>>
    BY <1>4 DEF SendEmptySchema
  <2>2. RowCount = 0 /\ total_rows' = 0 /\ row_begin' \in Nat
    BY <2>1 DEF Accounting, Announced, Running, Sent, Promise!Sent, ResultTypeOK
  <2>3. CASE cancelled
    BY <2>1, <2>2, <2>3, GiveUp DEF SendBatchChunk, Running
  <2>4. CASE ~cancelled
    BY <2>1, <2>2, <2>4, RowsWritten
  <2>5. QED
    BY <2>3, <2>4
<1>5. CASE Fetch
  BY <1>5, FetchStep
<1>6. CASE Examine
  BY <1>6, ExamineStep
<1>7. CASE Caught
  BY <1>7, CaughtStep
<1> HIDE DEF ResultInv
<1>8. QED
  BY <1>1, <1>2, <1>3, <1>4, <1>5, <1>6, <1>7, QuietStep DEF ResultNext, ServerStep

\* Theorem: in every behaviour, for every result and all sizes, the invariant
\* of the stream holds.
THEOREM ResultCorrect == ResultSpec => []ResultInv
<1>1. ResultInit => ResultInv
  <2> SUFFICES ASSUME ResultInit PROVE ResultInv
    OBVIOUS
  <2>1. cancelled \in BOOLEAN /\ schema_open \in BOOLEAN /\ batch_sent \in BOOLEAN
        /\ ~schema_open /\ ~batch_sent
    BY Zenon DEF ResultInit
  <2>2. last_result \in [id : 0..2, from : Nat, rows : Nat, ok : BOOLEAN, format : {0, 1}]
        /\ last_result.id = 0
    BY DEF ResultInit, NoResult, Result
  <2>3. RowCount \in Nat
    BY ResultAssumption DEF ResultInit, Requests, RowCount
  <2>4. ResultTypeOK
    BY <2>1, <2>2, <2>3 DEF ResultInit, ResultTypeOK
  <2>5. chunks = <<>> /\ Sent = 0 /\ ~Ended /\ ~HasTrailer
    BY DEF ResultInit, Sent, Ended, HasTrailer, Promise!Sent, Promise!Ended
  <2>6. Accounting /\ Announced /\ InHand /\ Leaving
    BY <2>1, <2>2, <2>5 DEF ResultInit, Accounting, Announced, InHand, Leaving, Running
  <2>7. TrailerCounts /\ CommitFollowsTrailer /\ ResultsCleared
    BY <2>1, <2>2, <2>5 DEF ResultInit, TrailerCounts,
       CommitFollowsTrailer, ResultsCleared
  <2>8. QED
    BY <2>4, <2>6, <2>7 DEF ResultInv
<1>2. QED
  BY <1>1, ResultStep, PTL DEF ResultSpec

\* Theorem: every variable keeps its type; in particular the cursor is never
\* moved past the result.
THEOREM ResultTypes == ResultSpec => []ResultTypeOK
<1>1. ResultInv => ResultTypeOK
  BY DEF ResultInv
<1>2. QED
  BY <1>1, ResultCorrect, PTL

\* Theorem: the count of a TRAILER is the size of the result, whatever the sizes
\* of fetches and batches; a cursor without columns counts its first FETCH.
THEOREM CountsRight == ResultSpec => []TrailerCounts
<1>1. ResultInv => TrailerCounts
  BY DEF ResultInv
<1>2. QED
  BY <1>1, ResultCorrect, PTL

\* Theorem: Open's transaction is committed after a TRAILER and rolled back
\* without one.
THEOREM CommitAfterTrailer == ResultSpec => []CommitFollowsTrailer
<1>1. ResultInv => CommitFollowsTrailer
  BY DEF ResultInv
<1>2. QED
  BY <1>1, ResultCorrect, PTL

\* Theorem: a stream that ends with a TRAILER leaves no PGresult, and none is used
\* after PQclear.
THEOREM NoResultLeft == ResultSpec => []ResultsCleared
<1>1. ResultInv => ResultsCleared
  BY DEF ResultInv
<1>2. QED
  BY <1>1, ResultCorrect, PTL

\* Lemma: ResultProtocol allows what WriteErrorChunk does before the end.
LEMMA ErrorAllowed ==
  ASSUME ~Ended, WriteErrorChunk, UNCHANGED request
  PROVE  [Promise!Next]_Promise!vars
BY DEF Ended, WriteErrorChunk, WriteFails, Written, Chunk, Promise!Next, Promise!SendError,
   Promise!Send, Promise!Chunk, Promise!vars, num_fields, RowCount

\* Lemma: ResultProtocol allows the TRAILER in both places it is sent from.
LEMMA TrailerAllowed ==
  ASSUME ResultInv, UNCHANGED request, NEW n \in 0..RowCount, WriteTrailer(n),
         \/ pc = "examine" /\ num_fields = 0
         \/ pc = "finish" /\ n = RowCount /\ (schema_open => batch_sent)
  PROVE  [Promise!Next]_Promise!vars
<1>1. ~Ended /\ (batch_sent <=> chunks # <<>>) /\ (chunks # <<>> => schema_open)
  BY DEF ResultInv, Announced, Running
<1>2. /\ num_fields = 0 => chunks = <<>>
      /\ num_fields # 0 => chunks # <<>> /\ Sent = n /\ n = RowCount
      /\ num_fields \in Nat
  <2>1. pc = "finish" => schema_open /\ num_fields > 0 /\ Sent = RowCount
    BY DEF ResultInv, Announced, Accounting
  <2>2. num_fields \in Nat /\ (schema_open => num_fields > 0)
    BY Sizes DEF ResultInv, Announced
  <2>3. QED
    BY <1>1, <2>1, <2>2
<1>3. CASE Written(Chunk("TRAILER", 0, n))
  <2>1. Promise!SendTrailer(n)
    BY <1>1, <1>2, <1>3 DEF Promise!SendTrailer, Promise!Send, Promise!Chunk, Chunk, Written,
       Ended, Sent, RowCount, num_fields
  <2>2. QED
    BY SMTT(30), <2>1 DEF Promise!Next
<1>4. CASE WriteFails
  BY <1>4 DEF WriteFails, Promise!vars, num_fields, RowCount
<1>5. QED
  BY <1>3, <1>4 DEF WriteTrailer

\* Lemma: ResultProtocol allows the row chunks.
LEMMA RowsAllowed ==
  ASSUME ResultInv, UNCHANGED request, pc \in {"send", "finish"},
         NEW b \in 0..RowCount, NEW next, SendBatchChunk(Sent, b, next),
         Sent < b \/ (chunks = <<>> /\ b = 0 /\ RowCount = 0)
  PROVE  [Promise!Next]_Promise!vars
<1>1. ~Ended /\ (batch_sent <=> chunks # <<>>) /\ num_fields > 0 /\ RowCount \in Nat
  BY Sizes DEF ResultInv, Announced, Running
<1>2. CASE cancelled /\ UNCHANGED chunks
  BY <1>2 DEF Promise!vars, num_fields, RowCount
<1>3. CASE Written(Chunk(IF batch_sent THEN "BATCH" ELSE "SCHEMA", Sent, b))
  <2>1. (IF batch_sent THEN "BATCH" ELSE "SCHEMA")
          = (IF chunks = <<>> THEN "SCHEMA" ELSE "BATCH")
    BY <1>1
  <2>2. Promise!SendRows(b)
    BY <1>1, <1>3, <2>1 DEF Promise!SendRows, Promise!Send, Promise!Chunk, Chunk, Written,
       Ended, Sent, RowCount, num_fields
  <2>3. QED
    BY <2>2 DEF Promise!Next
<1>4. QED
  BY <1>2, <1>3 DEF SendBatchChunk

\* Lemma: whatever the stream does, ResultProtocol allows it.
LEMMA ChunksAllowed ==
  ASSUME ResultInv, [ResultNext]_resultVars
  PROVE  [Promise!Next]_Promise!vars
<1>1. UNCHANGED request
  BY DEF ResultNext, ServerStep, resultVars, serverVars, fixed, LoopTest, Fetch, FetchFails,
     FetchNothing, BadStatus, CommandTrailer, Examine, SendBatch, SendEmptySchema,
     SendTrailer, Throws, Close, Abort, Caught, Leave, ClientCancels
<1>2. ASSUME UNCHANGED chunks
      PROVE  [Promise!Next]_Promise!vars
  BY <1>1, <1>2 DEF Promise!vars, num_fields, RowCount
<1>3. CASE FetchFails \/ BadStatus \/ Caught
  BY <1>1, <1>3, ErrorAllowed DEF FetchFails, BadStatus, Caught, ResultInv, Announced,
     Leaving, Running
<1>4. CASE CommandTrailer
  <2>1. CommandCount \in 0..RowCount
    <3>1. pc = "examine" /\ ResultTypeOK /\ Accounting
      BY <1>4 DEF CommandTrailer, ResultInv
    <3>2. QED
      BY <3>1, Sizes DEF CommandCount, ResultTypeOK, Accounting
  <2>2. QED
    BY <1>1, <1>4, <2>1, TrailerAllowed DEF CommandTrailer
<1>5. CASE SendTrailer
  <2>1. total_rows = RowCount /\ total_rows \in 0..RowCount
    BY <1>5, Sizes DEF SendTrailer, ResultInv, Accounting, ResultTypeOK
  <2>2. QED
    BY <1>1, <1>5, <2>1, TrailerAllowed DEF SendTrailer
<1>6. CASE SendBatch
  <2>1. /\ last_result.from \in Nat /\ last_result.rows \in Nat /\ row_begin \in Nat
        /\ row_begin < last_result.rows /\ Sent = last_result.from + row_begin
        /\ last_result.from + last_result.rows \in 0..RowCount
        /\ RowCount \in Nat /\ wire_batch_rows \in Nat \ {0}
    <3>1. ResultTypeOK /\ Accounting /\ pc = "send"
      BY <1>6 DEF SendBatch, ResultInv
    <3>2. QED
      BY <3>1, Sizes DEF ResultTypeOK, Accounting
  <2>2. /\ row_begin < row_end /\ row_end \in Nat
        /\ last_result.from + row_end \in 0..RowCount
    BY <2>1 DEF row_end, Least
  <2>3. QED
    BY <1>1, <1>6, <2>1, <2>2, RowsAllowed DEF SendBatch
<1>7. CASE SendEmptySchema
  <2>1. pc = "finish" /\ ~batch_sent /\ SendBatchChunk(0, 0, "finish")
    BY <1>7 DEF SendEmptySchema
  <2>2. chunks = <<>> /\ Sent = 0 /\ RowCount = 0
    BY <2>1 DEF ResultInv, Announced, Running, Accounting, Sent, Promise!Sent
  <2>3. QED
    BY <1>1, <2>1, <2>2, RowsAllowed
<1>8. CASE \/ LoopTest \/ Fetch \/ FetchNothing \/ Examine \/ Throws \/ Close \/ Abort
           \/ ClientCancels \/ UNCHANGED resultVars
  BY <1>2, <1>8 DEF LoopTest, Fetch, FetchNothing, Examine, Throws, Close, Abort,
     ClientCancels, resultVars, serverVars
<1>9. QED
  BY SMTT(30), <1>3, <1>4, <1>5, <1>6, <1>7, <1>8 DEF ResultNext, ServerStep

\* Theorem: QueryStream keeps ResultProtocol, for every result and all sizes of
\* fetches and batches.
THEOREM ResultRefines == ResultSpec => KeepsResultProtocol
<1>1. ResultInit => Promise!Init
  <2> SUFFICES ASSUME ResultInit PROVE Promise!Init
    OBVIOUS
  <2>1. request.table \in Tables /\ chunks = <<>>
    BY DEF ResultInit, Requests
  <2>2. num_fields \in Nat /\ request.table.rows \in Seq([1..num_fields -> Cell])
    BY Zenon, <2>1, ResultAssumption DEF num_fields
  <2>3. RowCount \in Nat
    BY SMT, <2>2 DEF RowCount
  <2>4. QED
    BY SMT, <2>1, <2>2, <2>3 DEF Promise!Init, Promise!Results
<1>2. ResultInv /\ [ResultNext]_resultVars => [Promise!Next]_Promise!vars
  BY ChunksAllowed
<1>3. QED
  BY <1>1, <1>2, ResultCorrect, PTL DEF ResultSpec, KeepsResultProtocol, Promise!Spec

-----------------------------------------------------------------------------
(***************************************************************************)
(* The payload of a chunk.  EncodeRawPgBatch joins the bytes of the cells   *)
(* and DecodedRows finds them again: where Flatten puts its pieces, what *)
(* AppendU32 and CellBytes write, where each cell is looked for.  The      *)
(* inductions go over sets of naturals (SetInduction).                     *)
(***************************************************************************)

\* Lemma: a set of naturals that is not empty has a least member.
LEMMA LeastNat ==
    ASSUME NEW T \in SUBSET Nat, T # {}
    PROVE  \E x \in T : \A y \in T : x <= y
<1> DEFINE R == OpToRel(<,Nat)
<1>1. IsWellFoundedOn(R, Nat)
      BY Zenon, NatLessThanWellFounded
<1>2. \A x, y \in Nat : <<y, x>> \in R <=> y < x
      BY DEF OpToRel
<1> HIDE DEF R
<1>3. PICK x \in T : \A y \in T : ~(<<y, x>> \in R)
      BY Zenon, <1>1, WFMin
<1>4. \A y \in T : ~(y < x)
      BY Zenon, <1>2, <1>3
<1>5. \A y \in T : x <= y
      BY SMT, <1>4
<1> QED
    BY <1>5

\* Lemma: induction over the naturals, as a fact about sets.
LEMMA SetInduction ==
    ASSUME NEW T \in SUBSET Nat, 0 \in T, \A n \in T : n + 1 \in T
    PROVE  T = Nat
<1>1. SUFFICES ASSUME Nat \ T # {} PROVE FALSE
      BY Zenon
<1>2. PICK x \in Nat \ T : \A y \in Nat \ T : x <= y
      BY Zenon, <1>1, LeastNat
<1>3. x # 0 /\ x - 1 \in Nat
      OBVIOUS
<1>4. x - 1 \in T
      BY <1>2, <1>3
<1> QED
    BY <1>4, <1>3

\* The function behind Flatten: what the first k pieces are together.
Joined(s) == CHOOSE f : f = [k \in 0..Len(s) |-> IF k = 0 THEN <<>> ELSE f[k - 1] \o s[k]]

\* Lemma: Flatten, by that function.
LEMMA FlattenIs ==
    ASSUME NEW s
    PROVE  Flatten(s) = Joined(s)[Len(s)]
BY Zenon DEF Flatten, Joined

\* Lemma: the function exists, by induction over the number of pieces.
LEMMA JoinedIs ==
    ASSUME NEW s, Len(s) \in Nat
    PROVE  Joined(s) = [k \in 0..Len(s) |-> IF k = 0 THEN <<>> ELSE Joined(s)[k - 1] \o s[k]]
<1> DEFINE T == {m \in Nat : \E f :
                    f = [k \in 0..m |-> IF k = 0 THEN <<>> ELSE f[k - 1] \o s[k]]}
<1>1. 0 \in T
  <2> DEFINE f == [k \in 0..0 |-> <<>>]
  <2>1. 0 \in Nat /\ \A k \in 0..0 : k = 0
        BY SMT
  <2>2. f = [k \in 0..0 |-> IF k = 0 THEN <<>> ELSE f[k - 1] \o s[k]]
        BY Zenon, <2>1
  <2> QED
      BY Zenon, <2>1, <2>2
<1>2. ASSUME NEW m \in T PROVE m + 1 \in T
  <2>1. PICK f : f = [k \in 0..m |-> IF k = 0 THEN <<>> ELSE f[k - 1] \o s[k]]
        BY Zenon
  <2> DEFINE g == [k \in 0..(m + 1) |-> IF k = 0 THEN <<>> ELSE f[k - 1] \o s[k]]
  <2>2. /\ \A k \in 0..m : k \in 0..(m + 1)
        /\ \A k \in 0..(m + 1) : k # 0 => k - 1 \in 0..m
        /\ m + 1 \in Nat
        BY SMT
  <2>3. \A k \in 0..m : g[k] = f[k]
        BY Zenon, <2>1, <2>2
  <2>4. g = [k \in 0..(m + 1) |-> IF k = 0 THEN <<>> ELSE g[k - 1] \o s[k]]
        BY Zenon, <2>2, <2>3
  <2> QED
      BY Zenon, <2>2, <2>4
<1>3. T = Nat
  <2> HIDE DEF T
  <2>1. T \in SUBSET Nat
        BY Zenon DEF T
  <2> QED
      BY SMTT(30), <1>1, <1>2, <2>1, SetInduction
<1>4. \E f : f = [k \in 0..Len(s) |-> IF k = 0 THEN <<>> ELSE f[k - 1] \o s[k]]
      BY Zenon, <1>3
<1> QED
    BY Zenon, <1>4 DEF Joined

\* What the first pieces are together: nothing, or one more than before.
Steps(s, V) ==
    /\ Joined(s)[0] = <<>>
    /\ \A k \in 0..Len(s) : Joined(s)[k] \in Seq(V)
    /\ \A k \in 0..Len(s) : k + 1 \in 0..Len(s) => Joined(s)[k + 1] = Joined(s)[k] \o s[k + 1]

\* Lemma: that is what they are.
LEMMA JoinedSteps ==
    ASSUME NEW V, NEW s \in Seq(Seq(V))
    PROVE  Steps(s, V)
<1> DEFINE J == Joined(s)
           T == {m \in Nat : m \in 0..Len(s) => J[m] \in Seq(V)}
<1>0. Len(s) \in Nat /\ \A k \in 1..Len(s) : s[k] \in Seq(V)
      BY SMT
<1>1. \A k \in 0..Len(s) : J[k] = IF k = 0 THEN <<>> ELSE J[k - 1] \o s[k]
      BY Zenon, JoinedIs, <1>0
<1> HIDE DEF J
<1>2. ASSUME NEW k \in 0..Len(s), k + 1 \in 0..Len(s)
      PROVE  J[k + 1] = J[k] \o s[k + 1]
  <2>1. k + 1 # 0 /\ (k + 1) - 1 = k
        BY SMT, <1>0
  <2> QED
      BY Zenon, <1>1, <1>2, <2>1
<1>3. J[0] = <<>>
  <2>1. 0 \in 0..Len(s)
        BY SMT, <1>0
  <2> QED
      BY Zenon, <1>1, <2>1
<1>4. 0 \in T
  <2>1. 0 \in Nat /\ <<>> \in Seq(V)
        BY SMT
  <2> QED
      BY Zenon, <1>3, <2>1
<1>5. ASSUME NEW m \in T PROVE m + 1 \in T
  <2> SUFFICES ASSUME m + 1 \in 0..Len(s) PROVE J[m + 1] \in Seq(V)
      BY SMT
  <2>1. m \in 0..Len(s) /\ J[m] \in Seq(V) /\ s[m + 1] \in Seq(V)
        BY SMT, <1>0
  <2>2. J[m + 1] = J[m] \o s[m + 1]
        BY Zenon, <1>2, <2>1
  <2> QED
      BY SMT, <2>1, <2>2
<1>6. T = Nat
  <2> HIDE DEF T
  <2>1. T \in SUBSET Nat
        BY DEF T
  <2> QED
      BY SMTT(30), <1>4, <1>5, <2>1, SetInduction
<1>7. ASSUME NEW k \in 0..Len(s) PROVE J[k] \in Seq(V)
  <2>1. k \in T
        BY SMT, <1>0, <1>6
  <2> QED
      BY <2>1
<1> QED
    BY Zenon, <1>2, <1>3, <1>7 DEF J, Steps

\* Lemma: the elements of two sequences joined.
LEMMA ConcatAt ==
    ASSUME NEW V, NEW a \in Seq(V), NEW b \in Seq(V)
    PROVE  /\ a \o b \in Seq(V) /\ Len(a \o b) = Len(a) + Len(b)
           /\ Len(a) \in Nat /\ Len(b) \in Nat
           /\ \A i \in 1..Len(a) : i \in 1..Len(a \o b) /\ (a \o b)[i] = a[i]
           /\ \A i \in 1..Len(b) : /\ Len(a) + i \in 1..Len(a \o b)
                                   /\ (a \o b)[Len(a) + i] = b[i]
BY SMT

\* Both parts of a concatenation are found in it.
Glued(a, b) ==
    /\ \A i \in 1..Len(a) : i \in 1..Len(a \o b) /\ (a \o b)[i] = a[i]
    /\ \A i \in 1..Len(b) : /\ Len(a) + i \in 1..Len(a \o b)
                            /\ (a \o b)[Len(a) + i] = b[i]

\* Lemma: they are.
LEMMA GluedAt == ASSUME NEW V, NEW a \in Seq(V), NEW b \in Seq(V) PROVE Glued(a, b)
BY ConcatAt DEF Glued

\* Where Flatten puts the pieces: piece k after the first off[k - 1] elements.
PartsAt(s, off) ==
    /\ off[0] = 0
    /\ \A k \in 1..Len(s) :
          /\ off[k] = off[k - 1] + Len(s[k])
          /\ \A j \in 1..Len(s[k]) :
                /\ off[k - 1] + j \in 1..Len(Flatten(s))
                /\ Flatten(s)[off[k - 1] + j] = s[k][j]

\* Lemma: every piece has its place.
LEMMA FlattenAt ==
    ASSUME NEW V, NEW s \in Seq(Seq(V))
    PROVE  Flatten(s) \in Seq(V) /\ \E off \in [0..Len(s) -> Nat] : PartsAt(s, off)
<1> DEFINE J == Joined(s)
           off == [k \in 0..Len(s) |-> Len(J[k])]
           In(m, k) == \A j \in 1..Len(s[k]) : /\ off[k - 1] + j \in 1..Len(J[m])
                                               /\ J[m][off[k - 1] + j] = s[k][j]
           T == {m \in Nat : m \in 0..Len(s) => \A k \in 1..m : In(m, k)}
<1>0. Len(s) \in Nat /\ Len(s) \in 0..Len(s) /\ \A k \in 1..Len(s) : s[k] \in Seq(V)
      BY SMT
<1>1. Steps(s, V)
      BY JoinedSteps
<1>2. /\ J[0] = <<>>
      /\ \A k \in 0..Len(s) : J[k] \in Seq(V)
      /\ \A k \in 0..Len(s) : k + 1 \in 0..Len(s) => J[k + 1] = J[k] \o s[k + 1]
      BY Zenon, <1>1 DEF Steps
<1>3. Flatten(s) = J[Len(s)]
      BY Zenon, FlattenIs
<1> HIDE DEF J
<1>4. off \in [0..Len(s) -> Nat] /\ off[0] = 0 /\ \A k \in 0..Len(s) : off[k] = Len(J[k])
      BY SMT, <1>0, <1>2
<1> HIDE DEF off
<1>5. ASSUME NEW m \in Nat, m + 1 \in 0..Len(s)
      PROVE  /\ m \in 0..Len(s) /\ m + 1 \in 1..Len(s) /\ (m + 1) - 1 = m
             /\ J[m] \in Seq(V) /\ s[m + 1] \in Seq(V) /\ J[m + 1] = J[m] \o s[m + 1]
             /\ off[m] = Len(J[m]) /\ off[m + 1] = Len(J[m + 1])
  <2>1. m \in 0..Len(s) /\ m + 1 \in 1..Len(s) /\ (m + 1) - 1 = m
        BY SMT, <1>0, <1>5
  <2> QED
      BY Zenon, <1>0, <1>2, <1>4, <1>5, <2>1
<1>6. ASSUME NEW k \in 1..Len(s)
      PROVE  off[k] = off[k - 1] + Len(s[k])
  <2>1. PICK m \in Nat : k = m + 1 /\ k - 1 = m /\ m + 1 \in 0..Len(s)
        BY SMTT(30), <1>0
  <2>2. Len(J[m] \o s[k]) = Len(J[m]) + Len(s[k])
        BY <1>5, <2>1, ConcatAt
  <2> QED
      BY Zenon, <1>5, <2>1, <2>2
<1>7. 0 \in T
      BY SMT
<1>8. ASSUME NEW m \in T PROVE m + 1 \in T
  <2>0. m \in Nat /\ m + 1 \in Nat /\ (m \in 0..Len(s) => \A k \in 1..m : In(m, k))
        BY SMT
  <2> HIDE DEF In
  <2> SUFFICES ASSUME m + 1 \in 0..Len(s), NEW k \in 1..(m + 1) PROVE In(m + 1, k)
      BY Zenon, <2>0
  <2> HIDE DEF T
  <2>1. k \in 1..m \/ k = m + 1
        BY SMT, <2>0
  <2>2. /\ \A i \in 1..Len(J[m]) : /\ i \in 1..Len(J[m] \o s[m + 1])
                                   /\ (J[m] \o s[m + 1])[i] = J[m][i]
        /\ \A i \in 1..Len(s[m + 1]) :
              /\ Len(J[m]) + i \in 1..Len(J[m] \o s[m + 1])
              /\ (J[m] \o s[m + 1])[Len(J[m]) + i] = s[m + 1][i]
    <3>1. Glued(J[m], s[m + 1])
          BY Zenon, <1>5, <2>0, GluedAt
    <3> QED
        BY Zenon, <3>1 DEF Glued
  <2>3. CASE k \in 1..m
    <3>1. In(m, k)
          BY Zenon, <1>5, <2>0, <2>3
    <3> QED
        BY ZenonT(30), <1>5, <2>0, <2>2, <3>1 DEF In
  <2>4. CASE k = m + 1
    <3>1. off[k - 1] = Len(J[m]) /\ J[m + 1] = J[m] \o s[m + 1]
          BY Zenon, <1>5, <2>0, <2>4
    <3> QED
        BY Zenon, <2>2, <2>4, <3>1 DEF In
  <2> QED
      BY <2>1, <2>3, <2>4
<1>9. T = Nat
  <2> HIDE DEF T
  <2>1. T \in SUBSET Nat
        BY DEF T
  <2> QED
      BY <1>7, <1>8, <2>1, SetInduction
<1>10. Len(s) \in T
      BY Zenon, <1>0, <1>9
<1>11. Flatten(s) \in Seq(V)
      BY Zenon, <1>0, <1>2, <1>3
<1> QED
    BY Zenon, <1>0, <1>3, <1>4, <1>6, <1>10, <1>11 DEF PartsAt

\* Lemma: Flatten takes one more piece.
LEMMA FlattenAppend ==
    ASSUME NEW V, NEW s \in Seq(Seq(V)), NEW x \in Seq(V)
    PROVE  Flatten(Append(s, x)) = Flatten(s) \o x
<1>1. PICK n \in Nat : n = Len(s)
      BY SMT
<1>2. PICK t \in Seq(Seq(V)) :
          /\ t = Append(s, x) /\ Len(t) = n + 1 /\ t[n + 1] = x
          /\ \A i \in 1..n : t[i] = s[i]
  <2>1. /\ Append(s, x) \in Seq(Seq(V)) /\ Len(Append(s, x)) = Len(s) + 1
        /\ Append(s, x)[Len(s) + 1] = x /\ \A i \in 1..Len(s) : Append(s, x)[i] = s[i]
        BY SMT
  <2> QED
      BY Zenon, <1>1, <2>1
<1> DEFINE J == Joined(s)
           K == Joined(t)
           T == {m \in Nat : m \in 0..n => K[m] = J[m]}
<1>3. /\ J[0] = <<>> /\ K[0] = <<>>
      /\ \A k \in 0..n : k + 1 \in 0..n => J[k + 1] = J[k] \o s[k + 1]
      /\ \A k \in 0..(n + 1) : k + 1 \in 0..(n + 1) => K[k + 1] = K[k] \o t[k + 1]
  <2>1. Steps(s, V) /\ Steps(t, V)
        BY JoinedSteps
  <2> QED
      BY Zenon, <1>1, <1>2, <2>1 DEF Steps
<1>4. Flatten(s) = J[n] /\ Flatten(t) = K[n + 1]
      BY Zenon, <1>1, <1>2, FlattenIs
<1> HIDE DEF J, K
<1>5. 0 \in T
      BY <1>3
<1>6. ASSUME NEW m \in T PROVE m + 1 \in T
  <2>0. m \in Nat /\ m + 1 \in Nat /\ (m \in 0..n => K[m] = J[m])
        BY SMT
  <2> SUFFICES ASSUME m + 1 \in 0..n PROVE K[m + 1] = J[m + 1]
      BY Zenon, <2>0
  <2> HIDE DEF T
  <2>1. m \in 0..n /\ m \in 0..(n + 1) /\ m + 1 \in 0..(n + 1) /\ m + 1 \in 1..n
        BY SMT, <2>0
  <2> QED
      BY Zenon, <1>2, <1>3, <2>0, <2>1
<1>7. T = Nat
  <2> HIDE DEF T
  <2>1. T \in SUBSET Nat
        BY DEF T
  <2> QED
      BY Zenon, <1>5, <1>6, <2>1, SetInduction
<1>8. n \in 0..n /\ n \in 0..(n + 1) /\ n + 1 \in 0..(n + 1)
      BY SMT
<1>9. K[n] = J[n]
      BY Zenon, <1>7, <1>8
<1> QED
    BY Zenon, <1>2, <1>3, <1>4, <1>8, <1>9

\* Lemma: four bytes make up the number they were cut from.
LEMMA U32Value ==
    ASSUME NEW v \in Nat, v <= INT_MAX
    PROVE  (v % Byte) + Byte * (((v \div 256) % Byte) + Byte * (((v \div 65536) % Byte)
              + Byte * ((v \div 16777216) % Byte))) = v
<1> DEFINE a == v \div 256
           b == v \div 65536
           c == v \div 16777216
<1>1. v = 256 * a + (v % 256) /\ a \in Nat /\ a < 16777216
      BY SMT DEF INT_MAX
<1>2. b = a \div 256 /\ b \in Nat /\ b < 65536
      BY SMT DEF INT_MAX
<1>3. c = b \div 256 /\ c \in Nat /\ c < 256
      BY SMT DEF INT_MAX
<1> HIDE DEF a, b, c
<1>4. a = 256 * b + (a % 256) /\ b = 256 * c + (b % 256) /\ c % 256 = c
      BY SMT, <1>1, <1>2, <1>3
<1>5. v = (v % 256) + 256 * ((a % 256) + 256 * ((b % 256) + 256 * (c % 256)))
      BY SMT, <1>1, <1>2, <1>3, <1>4
<1> QED
    BY SMT, <1>5 DEF a, b, c, Byte

\* Lemma: the elements of two sequences joined.
LEMMA Concat ==
    \A a, b \in Seq(Int) :
        /\ a \o b \in Seq(Int) /\ Len(a \o b) = Len(a) + Len(b)
        /\ Len(a) \in Nat /\ Len(b) \in Nat
        /\ \A i \in 1..Len(a) : (a \o b)[i] = a[i]
        /\ \A i \in 1..Len(b) : (a \o b)[Len(a) + i] = b[i]
BY SMT

\* Lemma: AppendU32 leaves what is there and appends what ReadU32 reads.
LEMMA AppendU32Form ==
    ASSUME NEW out \in Seq(Int), NEW v \in Nat, v <= INT_MAX
    PROVE  /\ AppendU32(out, v) \in Seq(Int) /\ Len(AppendU32(out, v)) = Len(out) + 4
           /\ \A i \in 1..Len(out) : AppendU32(out, v)[i] = out[i]
           /\ ReadU32(AppendU32(out, v), Len(out) + 1) = v
<1> DEFINE w == << v % Byte, (v \div 256) % Byte,
                  (v \div 65536) % Byte, (v \div 16777216) % Byte >>
           t == out \o w
<1>1. AppendU32(out, v) = t
      BY SMT DEF AppendU32
<1>2. w \in Seq(Int) /\ Len(w) = 4
      BY SMT DEF Byte
<1>3. w[1] + Byte * (w[2] + Byte * (w[3] + Byte * w[4])) = v
      BY SMT, U32Value
<1> HIDE DEF w
<1>4. /\ t \in Seq(Int) /\ Len(t) = Len(out) + Len(w) /\ Len(out) \in Nat
      /\ \A i \in 1..Len(out) : t[i] = out[i]
      /\ \A i \in 1..Len(w) : t[Len(out) + i] = w[i]
      BY Zenon, <1>2, Concat
<1> HIDE DEF t
<1>5. /\ t[Len(out) + 1] = w[1] /\ t[Len(out) + 2] = w[2]
      /\ t[Len(out) + 3] = w[3] /\ t[Len(out) + 4] = w[4]
  <2>1. 1 \in 1..4 /\ 2 \in 1..4 /\ 3 \in 1..4 /\ 4 \in 1..4
        BY SMT
  <2> QED
      BY Zenon, <1>2, <1>4, <2>1
<1>6. ReadU32(t, Len(out) + 1) = v
  <2>1. /\ (Len(out) + 1) + 1 = Len(out) + 2 /\ (Len(out) + 1) + 2 = Len(out) + 3
        /\ (Len(out) + 1) + 3 = Len(out) + 4
        BY SMT, <1>4
  <2> QED
      BY Zenon, <1>3, <1>5, <2>1 DEF ReadU32
<1> QED
    BY Zenon, <1>1, <1>2, <1>4, <1>6

\* Lemma: the bytes of a cell.
LEMMA CellForm ==
    ASSUME NEW c \in Cell
    PROVE  /\ CellBytes(c) \in Seq(Int)
           /\ c = Null => Len(CellBytes(c)) = 1 /\ CellBytes(c)[1] = 1
           /\ c # Null => /\ Len(CellBytes(c)) = 5 + Len(c) /\ Len(c) \in Nat
                          /\ CellBytes(c)[1] = 0
                          /\ ReadU32(CellBytes(c), 2) = Len(c)
                          /\ \A j \in 1..Len(c) : CellBytes(c)[5 + j] = c[j]
                          /\ c \in Seq(Int)
<1>1. CASE c = Null
      BY SMT, <1>1 DEF CellBytes
<1>2. CASE c # Null
  <2> DEFINE n == Len(c)
             h == AppendU32(<<0>>, n)
  <2>0. c \in Seq(Bytes) /\ n <= INT_MAX
        BY Zenon, <1>2 DEF Cell
  <2>1. c \in Seq(Int) /\ n \in Nat
    <3>1. \A i \in Bytes : i \in Int
          BY SMT DEF Bytes, Byte
    <3> QED
        BY SMT, <2>0, <3>1
  <2>2. CellBytes(c) = h \o c
        BY Zenon, <1>2 DEF CellBytes
  <2>3. <<0>> \in Seq(Int) /\ Len(<<0>>) = 1 /\ <<0>>[1] = 0 /\ 1 + 4 = 5 /\ 1 + 1 = 2
        BY SMT
  <2>4. 1 \in 1..1 /\ 1 \in 1..5 /\ 2 \in 1..5 /\ 3 \in 1..5 /\ 4 \in 1..5 /\ 5 \in 1..5
        BY SMT
  <2> HIDE DEF n
  <2>5. h \in Seq(Int) /\ Len(h) = 5 /\ h[1] = 0 /\ ReadU32(h, 2) = n
    <3>1. /\ h \in Seq(Int) /\ Len(h) = Len(<<0>>) + 4
          /\ \A i \in 1..Len(<<0>>) : h[i] = <<0>>[i]
          /\ ReadU32(h, Len(<<0>>) + 1) = n
          BY Zenon, <2>0, <2>1, <2>3, AppendU32Form
    <3> HIDE DEF h
    <3> QED
        BY Zenon, <2>3, <2>4, <3>1
  <2> HIDE DEF h
  <2>6. /\ h \o c \in Seq(Int) /\ Len(h \o c) = Len(h) + n
        /\ \A i \in 1..Len(h) : (h \o c)[i] = h[i]
        /\ \A j \in 1..n : (h \o c)[Len(h) + j] = c[j]
        BY Zenon, <2>1, <2>5, Concat DEF n
  <2>7. /\ (h \o c)[1] = h[1] /\ (h \o c)[2] = h[2] /\ (h \o c)[3] = h[3]
        /\ (h \o c)[4] = h[4] /\ (h \o c)[5] = h[5]
        BY Zenon, <2>4, <2>5, <2>6
  <2>8. ReadU32(h \o c, 2) = ReadU32(h, 2)
    <3>1. 2 \in Int /\ 2 + 1 = 3 /\ 2 + 2 = 4 /\ 2 + 3 = 5
          BY SMT
    <3> QED
        BY Zenon, <2>7, <3>1 DEF ReadU32
  <2> QED
      BY Zenon, <1>2, <2>1, <2>2, <2>5, <2>6, <2>7, <2>8 DEF n
<1> QED
    BY <1>1, <1>2

\* Lemma: the header of a payload.
LEMMA HeaderForm ==
    ASSUME NEW m \in Nat, NEW n \in Nat, m <= INT_MAX, n <= INT_MAX,
           NEW h, h = AppendU32(AppendU32(AppendU32(AppendU32(<<>>,
                          kRawPgBatchMagic), kRawPgBatchVersion), m), n)
    PROVE  h \in Seq(Int) /\ Len(h) = 16 /\ ReadU32(h, 9) = m /\ ReadU32(h, 13) = n
<1>1. <<>> \in Seq(Int) /\ Len(<<>>) = 0
      BY SMT
<1>2. /\ kRawPgBatchMagic \in Nat /\ kRawPgBatchMagic <= INT_MAX
      /\ kRawPgBatchVersion \in Nat /\ kRawPgBatchVersion <= INT_MAX
      BY SMT DEF kRawPgBatchMagic, kRawPgBatchVersion, INT_MAX
<1> DEFINE a == AppendU32(<<>>, kRawPgBatchMagic)
           b == AppendU32(a, kRawPgBatchVersion)
           d == AppendU32(b, m)
<1>3. a \in Seq(Int) /\ Len(a) = Len(<<>>) + 4
      BY Zenon, <1>1, <1>2, AppendU32Form
<1>a. h = AppendU32(d, n)
      OBVIOUS
<1> HIDE DEF a
<1>4. b \in Seq(Int) /\ Len(b) = Len(a) + 4
      BY Zenon, <1>2, <1>3, AppendU32Form
<1> HIDE DEF b
<1>5. d \in Seq(Int) /\ Len(d) = Len(b) + 4 /\ ReadU32(d, Len(b) + 1) = m
      BY <1>4, AppendU32Form
<1> HIDE DEF d
<1>6. /\ h \in Seq(Int) /\ Len(h) = Len(d) + 4 /\ ReadU32(h, Len(d) + 1) = n
      /\ \A i \in 1..Len(d) : h[i] = d[i]
  <2>1. /\ AppendU32(d, n) \in Seq(Int) /\ Len(AppendU32(d, n)) = Len(d) + 4
        /\ ReadU32(AppendU32(d, n), Len(d) + 1) = n
        /\ \A i \in 1..Len(d) : AppendU32(d, n)[i] = d[i]
        BY Zenon, <1>5, AppendU32Form
  <2> QED
      BY Zenon, <1>a, <2>1
<1>7. Len(b) + 1 = 9 /\ Len(d) = 12 /\ Len(d) + 1 = 13 /\ Len(h) = 16
      BY SMT, <1>1, <1>3, <1>4, <1>5, <1>6
<1>8. ReadU32(h, 9) = ReadU32(d, 9)
  <2>1. /\ 9 \in 1..12 /\ 9 + 1 \in 1..12 /\ 9 + 2 \in 1..12 /\ 9 + 3 \in 1..12
        BY SMT
  <2> QED
      BY Zenon, <1>6, <1>7, <2>1 DEF ReadU32
<1> QED
    BY Zenon, <1>5, <1>6, <1>7, <1>8

\* Lemma: a piece of a sequence is known by its elements.
LEMMA SubSeqIs ==
    ASSUME NEW V, NEW s \in Seq(V), NEW c \in Seq(V), NEW a \in Nat, a + Len(c) <= Len(s),
           \A j \in 1..Len(c) : s[a + j] = c[j]
    PROVE  SubSeq(s, a + 1, a + Len(c)) = c
<1> DEFINE n == Len(c)
           t == SubSeq(s, a + 1, a + n)
<1>1. n \in Nat /\ a + n <= Len(s)
      BY SMT
<1> HIDE DEF n
<1>2. t \in Seq(V) /\ Len(t) = n /\ \A j \in 1..n : t[j] = s[a + j]
      BY SMT, <1>1
<1> HIDE DEF t
<1>3. \A j \in 1..n : t[j] = c[j]
      BY Zenon, <1>2 DEF n
<1>4. t = c
      BY SMT, <1>2, <1>3 DEF n
<1> QED
    BY Zenon, <1>4 DEF t, n

\* Lemma: a cell is read from its bytes, and so is where it ends.
LEMMA CellRead ==
    ASSUME NEW c \in Cell, NEW E \in Seq(Int), NEW at \in Nat,
           at + Len(CellBytes(c)) <= Len(E),
           \A j \in 1..Len(CellBytes(c)) : E[at + j] = CellBytes(c)[j]
    PROVE  /\ CellAt(E, at + 1) = c
           /\ CellEnd(E, at + 1) = at + 1 + Len(CellBytes(c))
<1> DEFINE p == CellBytes(c)
<1>1. CASE c = Null
  <2>1. Len(p) = 1 /\ p[1] = 1 /\ 1 \in 1..1
        BY <1>1, CellForm
  <2>2. E[at + 1] = 1
        BY Zenon, <2>1
  <2> HIDE DEF p
  <2> QED
      BY Zenon, <1>1, <2>1, <2>2 DEF CellAt, CellEnd, p
<1>2. CASE c # Null
  <2> DEFINE n == Len(c)
             at1 == at + 1
  <2>1. /\ Len(p) = 5 + n /\ n \in Nat /\ p[1] = 0 /\ ReadU32(p, 2) = n
        /\ (\A j \in 1..n : p[5 + j] = c[j]) /\ c \in Seq(Int)
        BY Zenon, <1>2, CellForm
  <2>0. \A j \in 1..Len(p) : E[at + j] = p[j]
        OBVIOUS
  <2>b. at + Len(p) <= Len(E)
        OBVIOUS
  <2> HIDE DEF p, n
  <2>2. /\ 1 \in 1..Len(p) /\ 2 \in 1..Len(p) /\ 3 \in 1..Len(p)
        /\ 4 \in 1..Len(p) /\ 5 \in 1..Len(p)
        BY SMT, <2>1
  <2>3. /\ E[at + 1] = p[1] /\ E[at + 2] = p[2] /\ E[at + 3] = p[3]
        /\ E[at + 4] = p[4] /\ E[at + 5] = p[5]
        BY Zenon, <2>0, <2>2
  <2>4. ReadU32(E, at + 2) = n
    <3>1. /\ (at + 2) + 1 = at + 3 /\ (at + 2) + 2 = at + 4 /\ (at + 2) + 3 = at + 5
          /\ 2 + 1 = 3 /\ 2 + 2 = 4 /\ 2 + 3 = 5
          BY SMT
    <3> QED
        BY Zenon, <2>1, <2>3, <3>1 DEF ReadU32
  <2>5. E[at + 1] # 1
        BY SMT, <2>1, <2>3
  <2>6. (at + 1) + 1 = at + 2 /\ (at + 1) + 5 = at + 6 /\ (at + 1) + 4 + n = at + 5 + n
        BY SMT, <2>1
  <2>7. SubSeq(E, at + 6, at + 5 + n) = c
    <3>1. PICK a \in Nat : /\ a = at + 5 /\ a + 1 = at + 6
                           /\ a + n = at + 5 + n /\ a + n <= Len(E)
          BY SMT, <2>1, <2>b
    <3>2. ASSUME NEW j \in 1..n PROVE E[a + j] = c[j]
      <4>1. 5 + j \in 1..Len(p) /\ a + j = at + (5 + j)
            BY SMT, <2>1, <3>1
      <4> QED
          BY Zenon, <2>0, <2>1, <4>1
    <3>3. SubSeq(E, a + 1, a + Len(c)) = c
      <4>1. a + Len(c) <= Len(E) /\ \A j \in 1..Len(c) : E[a + j] = c[j]
            BY Zenon, <3>1, <3>2 DEF n
      <4> QED
          BY <2>1, <4>1, SubSeqIs
    <3> QED
        BY Zenon, <3>1, <3>3 DEF n
  <2>8. CellAt(E, at + 1) = c
        BY Zenon, <2>4, <2>5, <2>6, <2>7 DEF CellAt
  <2>9. CellEnd(E, at + 1) = (at + 1) + (5 + n)
        BY Zenon, <2>4, <2>5, <2>6 DEF CellEnd
  <2> QED
      BY Zenon, <2>1, <2>8, <2>9 DEF p
<1> QED
    BY <1>1, <1>2

\* Where the cells of a payload begin, as DecodedRows finds out.
Starts(bytes, n) ==
    CHOOSE start : start = [k \in 1..n |-> IF k = 1 THEN 17 ELSE CellEnd(bytes, start[k - 1])]

\* The rows of a payload of m rows and n columns.
RowsFrom(bytes, m, n) ==
    [row \in 1..m |-> [col \in 1..n |-> CellAt(bytes, Starts(bytes, m * n)[(col - 1) * m + row])]]

\* Lemma: what DecodedRows makes of a payload.
LEMMA DecodedIs ==
    ASSUME NEW bytes
    PROVE  DecodedRows(bytes) = RowsFrom(bytes, ReadU32(bytes, 9), ReadU32(bytes, 13))
BY Zenon DEF DecodedRows, RowsFrom, Starts

\* Lemma: there are such starts.
LEMMA StartsIs ==
    ASSUME NEW bytes, NEW n \in Nat
    PROVE  Starts(bytes, n) =
              [k \in 1..n |-> IF k = 1 THEN 17 ELSE CellEnd(bytes, Starts(bytes, n)[k - 1])]
<1> DEFINE T == {m \in Nat : \E f :
                    f = [k \in 1..m |-> IF k = 1 THEN 17 ELSE CellEnd(bytes, f[k - 1])]}
<1>1. 0 \in T
  <2> DEFINE f == [k \in 1..0 |-> 17]
  <2>1. 1..0 = {} /\ 0 \in Nat
        BY SMT
  <2>2. f = [k \in 1..0 |-> IF k = 1 THEN 17 ELSE CellEnd(bytes, f[k - 1])]
        BY Zenon, <2>1
  <2> QED
      BY Zenon, <2>1, <2>2
<1>2. ASSUME NEW m \in T PROVE m + 1 \in T
  <2>1. PICK f : f = [k \in 1..m |-> IF k = 1 THEN 17 ELSE CellEnd(bytes, f[k - 1])]
        OBVIOUS
  <2> DEFINE g == [k \in 1..(m + 1) |-> IF k = 1 THEN 17 ELSE CellEnd(bytes, f[k - 1])]
  <2>2. /\ \A k \in 1..m : k \in 1..(m + 1)
        /\ \A k \in 1..(m + 1) : k # 1 => k - 1 \in 1..m
        /\ m + 1 \in Nat
        BY SMT
  <2>3. \A k \in 1..m : g[k] = f[k]
        BY Zenon, <2>1, <2>2
  <2>4. g = [k \in 1..(m + 1) |-> IF k = 1 THEN 17 ELSE CellEnd(bytes, g[k - 1])]
        BY Zenon, <2>2, <2>3
  <2> QED
      BY Zenon, <2>2, <2>4
<1>3. T = Nat
  <2> HIDE DEF T
  <2>1. T \in SUBSET Nat
        BY DEF T
  <2> QED
      BY <1>1, <1>2, <2>1, SetInduction
<1>4. \E f : f = [k \in 1..n |-> IF k = 1 THEN 17 ELSE CellEnd(bytes, f[k - 1])]
      BY Zenon, <1>3
<1> QED
    BY Zenon, <1>4 DEF Starts

\* The cells of a payload, in the places DecodedRows looks for them.
CellsAt(bytes, n, c) == \A k \in 1..n : CellAt(bytes, Starts(bytes, n)[k]) = c[k]

\* Lemma: DecodedRows finds the beginning of each cell, and the cell there.
LEMMA PayloadCells ==
    ASSUME NEW n \in Nat, NEW c \in [1..n -> Cell],
           NEW h \in Seq(Int), Len(h) = 16,
           NEW p \in Seq(Seq(Int)), Len(p) = n, \A k \in 1..n : p[k] = CellBytes(c[k])
    PROVE  CellsAt(h \o Flatten(p), n, c)
<1>0. PICK E : E = h \o Flatten(p)
      BY Zenon
<1>1. \A k \in 1..n : c[k] \in Cell /\ p[k] = CellBytes(c[k]) /\ p[k] \in Seq(Int)
      BY CellForm
<1>2. PICK F : F = Flatten(p)
      OBVIOUS
<1>3. F \in Seq(Int) /\ \E off \in [0..n -> Nat] : PartsAt(p, off)
      BY Zenon, <1>2, FlattenAt
<1>4. PICK off \in [0..n -> Nat] :
            /\ off[0] = 0
            /\ \A k \in 1..n :
                  /\ off[k] = off[k - 1] + Len(p[k])
                  /\ \A j \in 1..Len(p[k]) :
                        /\ off[k - 1] + j \in 1..Len(F)
                        /\ F[off[k - 1] + j] = p[k][j]
      BY Zenon, <1>2, <1>3 DEF PartsAt
<1>5. /\ E \in Seq(Int) /\ Len(E) = 16 + Len(F) /\ Len(F) \in Nat
      /\ \A i \in 1..Len(F) : E[16 + i] = F[i]
  <2>1. /\ h \o F \in Seq(Int) /\ Len(h \o F) = Len(h) + Len(F) /\ Len(F) \in Nat
        /\ \A i \in 1..Len(F) : (h \o F)[Len(h) + i] = F[i]
        BY ZenonT(30), <1>3, Concat
  <2> QED
      BY Zenon, <1>0, <1>2, <2>1
<1> DEFINE S == Starts(E, n)
<1>6. \A k \in 1..n : S[k] = IF k = 1 THEN 17 ELSE CellEnd(E, S[k - 1])
  <2>1. S = [k \in 1..n |-> IF k = 1 THEN 17 ELSE CellEnd(E, S[k - 1])]
        BY StartsIs
  <2> HIDE DEF S
  <2> QED
      BY Zenon, <2>1
<1> HIDE DEF S
<1>7. ASSUME NEW k \in 1..n
      PROVE  /\ off[k - 1] \in Nat /\ Len(p[k]) \in Nat
             /\ CellAt(E, (16 + off[k - 1]) + 1) = c[k]
             /\ CellEnd(E, (16 + off[k - 1]) + 1) = (16 + off[k]) + 1
  <2>1. off[k - 1] \in Nat
        BY SMT
  <2>2. p[k] \in Seq(Int) /\ Len(p[k]) \in Nat /\ Len(p[k]) # 0
    <3>1. CASE c[k] = Null
          BY SMT, <1>1, <3>1, CellForm
    <3>2. CASE c[k] # Null
      <4>1. p[k] \in Seq(Int) /\ Len(p[k]) = 5 + Len(c[k]) /\ Len(c[k]) \in Nat
            BY Zenon, <1>1, <3>2, CellForm
      <4> QED
          BY SMT, <4>1
    <3> QED
        BY SMTT(30), <3>1, <3>2
  <2> DEFINE at == 16 + off[k - 1]
  <2>3. at \in Nat
        BY SMT, <2>1
  <2>4. at + Len(p[k]) <= Len(E)
    <3>1. Len(p[k]) \in 1..Len(p[k])
          BY SMT, <2>2
    <3>2. off[k - 1] + Len(p[k]) \in 1..Len(F)
          BY Zenon, <1>4, <3>1
    <3>3. PICK x \in Nat, y \in Nat, z \in Nat : x = off[k - 1] /\ y = Len(p[k]) /\ z = Len(F)
          BY SMTT(30), <1>5, <2>1, <2>2
    <3>4. (16 + x) + y <= 16 + z
      <4>1. x + y \in 1..z
            BY Zenon, <3>2, <3>3
      <4> QED
          BY SMT, <4>1
    <3> QED
        BY SMT, <1>5, <3>3, <3>4 DEF at
  <2>5. ASSUME NEW j \in 1..Len(p[k]) PROVE E[at + j] = p[k][j]
    <3>1. /\ off[k - 1] + j \in 1..Len(F) /\ F[off[k - 1] + j] = p[k][j]
          BY Zenon, <1>4
    <3>2. at + j = 16 + (off[k - 1] + j)
          BY SMT, <2>1, <2>2
    <3>3. E[16 + (off[k - 1] + j)] = F[off[k - 1] + j]
          BY Zenon, <1>5, <3>1
    <3> QED
        BY Zenon, <3>1, <3>2, <3>3
  <2> HIDE DEF at
  <2>6. CellAt(E, at + 1) = c[k] /\ CellEnd(E, at + 1) = at + 1 + Len(p[k])
    <3>1. p[k] = CellBytes(c[k]) /\ c[k] \in Cell
          BY <1>1
    <3>2. /\ at + Len(CellBytes(c[k])) <= Len(E)
          /\ \A j \in 1..Len(CellBytes(c[k])) : E[at + j] = CellBytes(c[k])[j]
          BY Zenon, <2>4, <2>5, <3>1
    <3>3. CellAt(E, at + 1) = c[k] /\ CellEnd(E, at + 1) = at + 1 + Len(CellBytes(c[k]))
          BY Zenon, <1>5, <2>3, <3>1, <3>2, CellRead
    <3> QED
        BY Zenon, <3>1, <3>3
  <2>7. at + 1 + Len(p[k]) = (16 + off[k]) + 1
    <3>1. off[k] = off[k - 1] + Len(p[k])
          BY Zenon, <1>4
    <3>2. PICK x \in Nat, y \in Nat : x = off[k - 1] /\ y = Len(p[k])
          BY <2>1, <2>2
    <3>3. ((16 + x) + 1) + y = (16 + (x + y)) + 1
          BY SMT
    <3> QED
        BY Zenon, <3>1, <3>2, <3>3 DEF at
  <2> QED
      BY Zenon, <2>1, <2>2, <2>6, <2>7 DEF at
<1> DEFINE T == {m \in Nat : m + 1 \in 1..n => S[m + 1] = (16 + off[m]) + 1}
<1>8. 0 \in T
  <2>1. (16 + 0) + 1 = 17 /\ 0 + 1 = 1 /\ 0 \in Nat
        BY SMT
  <2> QED
      BY Zenon, <1>4, <1>6, <2>1
<1>9. ASSUME NEW m \in T PROVE m + 1 \in T
  <2>0. m \in Nat /\ m + 1 \in Nat /\ (m + 1 \in 1..n => S[m + 1] = (16 + off[m]) + 1)
        BY SMT
  <2> SUFFICES ASSUME (m + 1) + 1 \in 1..n PROVE S[(m + 1) + 1] = (16 + off[m + 1]) + 1
      BY Zenon, <2>0
  <2> HIDE DEF T
  <2>1. m + 1 \in 1..n /\ (m + 1) + 1 # 1 /\ ((m + 1) + 1) - 1 = m + 1 /\ (m + 1) - 1 = m
        BY SMT, <2>0
  <2>2. S[(m + 1) + 1] = CellEnd(E, S[m + 1])
        BY Zenon, <1>6, <2>1
  <2>3. CellEnd(E, (16 + off[m]) + 1) = (16 + off[m + 1]) + 1
    <3>1. PICK k \in 1..n : k = m + 1 /\ k - 1 = m
          BY <2>1
    <3> QED
        BY Zenon, <1>7, <3>1
  <2> QED
      BY Zenon, <2>0, <2>1, <2>2, <2>3
<1>10. T = Nat
  <2> HIDE DEF T
  <2>1. T \in SUBSET Nat
        BY DEF T
  <2> QED
      BY Zenon, <1>8, <1>9, <2>1, SetInduction
<1>11. ASSUME NEW k \in 1..n PROVE CellAt(E, S[k]) = c[k]
  <2>1. k - 1 \in Nat /\ (k - 1) + 1 = k
        BY SMT
  <2>2. S[k] = (16 + off[k - 1]) + 1
    <3>1. k - 1 \in T
          BY Zenon, <1>10, <2>1
    <3> QED
        BY Zenon, <2>1, <3>1
  <2> QED
      BY Zenon, <1>7, <2>2
<1> QED
    BY Zenon, <1>0, <1>11 DEF S, CellsAt

\* Lemma: division undoes multiplication.
LEMMA DivMod ==
    ASSUME NEW m \in Nat \ {0}, NEW q \in Nat, NEW r \in 0..(m - 1)
    PROVE  (q * m + r) \div m = q /\ (q * m + r) % m = r
BY SMT

\* Lemma: the index of a cell gives its row and its column.
LEMMA CellIndex ==
    ASSUME NEW m \in Nat, NEW n \in Nat, NEW row \in 1..m, NEW col \in 1..n
    PROVE  /\ (col - 1) * m + row \in 1..(m * n)
           /\ (((col - 1) * m + row) - 1) % m = row - 1
           /\ (((col - 1) * m + row) - 1) \div m = col - 1
<1>1. PICK q \in Nat, r \in 0..(m - 1) : q = col - 1 /\ r = row - 1 /\ m # 0
      BY SMT
<1>2. PICK x \in Nat : x = q * m
      BY SMT
<1>3. (((col - 1) * m + row) - 1) = q * m + r
      BY SMT, <1>1, <1>2
<1>4. (q * m + r) \div m = q /\ (q * m + r) % m = r
      BY <1>1, DivMod
<1>5. (col - 1) * m + row \in 1..(m * n)
  <2>1. (q + 1) * m <= n * m /\ (q + 1) * m = x + m /\ n * m = m * n
        BY SMT, <1>1, <1>2
  <2>2. (col - 1) * m + row = x + row
        BY SMT, <1>1, <1>2
  <2> QED
      BY SMT, <1>2, <2>1, <2>2
<1> QED
    BY Zenon, <1>1, <1>3, <1>4, <1>5

\* Lemma: every index is that of a cell.
LEMMA IndexCell ==
    ASSUME NEW m \in Nat, NEW n \in Nat, NEW k \in 1..(m * n)
    PROVE  (k - 1) % m \in 0..(m - 1) /\ (k - 1) \div m \in 0..(n - 1)
<1>1. m # 0 /\ k - 1 \in Nat
      BY SMT
<1>2. PICK q \in Int, r \in Int : q = (k - 1) \div m /\ r = (k - 1) % m
      BY SMT, <1>1
<1>3. k - 1 = q * m + r /\ r \in 0..(m - 1)
      BY SMT, <1>1, <1>2
<1>4. q >= 0
      BY SMT, <1>1, <1>2, <1>3
<1>5. q < n
  <2> SUFFICES ASSUME q >= n PROVE FALSE
      BY SMT
  <2>1. q * m >= n * m
        BY SMT, <1>4
  <2> QED
      BY SMT, <1>3, <2>1
<1> QED
    BY SMT, <1>2, <1>3, <1>4, <1>5

\* Theorem: what EncodeRawPgBatch writes, the format's reader reads: every payload gives
\* back the rows that were put in, cell for cell, for any number of rows and
\* columns an int can count and cells of any bytes.
THEOREM PayloadReadsBack ==
    ASSUME NEW n \in Nat, n <= INT_MAX, NEW rows \in Seq([1..n -> Cell]),
           NEW a \in Nat, NEW b \in Nat, a <= b, b <= Len(rows), b - a <= INT_MAX
    PROVE  DecodedRows(EncodeRawPgBatch(rows, n, a, b)) = SubSeq(rows, a + 1, b)
<1>1. PICK m \in Nat : m = b - a /\ b = a + m /\ m <= INT_MAX /\ a + m <= Len(rows)
  <2>1. b - a \in Nat /\ b = a + (b - a)
        BY SMT
  <2> QED
      BY Zenon, <2>1
<1>2. PICK N \in Nat : N = m * n
      BY SMT
<1> DEFINE c == [k \in 1..N |-> rows[a + 1 + ((k - 1) % m)][1 + (k - 1) \div m]]
           p == [k \in 1..N |-> CellBytes(c[k])]
           h == AppendU32(AppendU32(AppendU32(AppendU32(<<>>,
                    kRawPgBatchMagic), kRawPgBatchVersion), m), n)
           E == h \o Flatten(p)
<1>3. \A i \in 1..m : a + i \in 1..Len(rows) /\ rows[a + i] \in [1..n -> Cell]
      BY SMT, <1>1
<1>4. c \in [1..N -> Cell]
  <2> SUFFICES ASSUME NEW k \in 1..N
               PROVE  rows[a + 1 + ((k - 1) % m)][1 + (k - 1) \div m] \in Cell
      BY Zenon
  <2>1. (k - 1) % m \in 0..(m - 1) /\ (k - 1) \div m \in 0..(n - 1)
        BY Zenon, <1>2, IndexCell
  <2>2. PICK i \in 1..m, j \in 1..n : /\ a + i = a + 1 + ((k - 1) % m)
                                      /\ j = 1 + (k - 1) \div m
    <3>1. PICK x \in 0..(m - 1), y \in 0..(n - 1) : x = (k - 1) % m /\ y = (k - 1) \div m
          BY <2>1
    <3>2. /\ 1 + x \in 1..m /\ 1 + y \in 1..n /\ a + (1 + x) = a + 1 + x
          BY SMT
    <3> QED
        BY Zenon, <3>1, <3>2
  <2>3. rows[a + i][j] \in Cell
        BY Zenon, <1>3
  <2> QED
      BY Zenon, <2>2, <2>3
<1>5. EncodeRawPgBatch(rows, n, a, b) = E
  <2>1. p = [k \in 1..N |-> CellBytes(rows[a + 1 + ((k - 1) % m)][1 + (k - 1) \div m])]
        BY Zenon
  <2> HIDE DEF p
  <2> QED
      BY Zenon, <1>1, <1>2, <2>1 DEF EncodeRawPgBatch
<1>6. /\ \A k \in 1..N : c[k] \in Cell /\ p[k] = CellBytes(c[k]) /\ p[k] \in Seq(Int)
      /\ p \in [1..N -> Seq(Int)]
  <2> HIDE DEF c
  <2>1. \A k \in 1..N : c[k] \in Cell /\ CellBytes(c[k]) \in Seq(Int)
        BY <1>4, CellForm
  <2> QED
      BY Zenon, <2>1
<1>7. \A row \in 1..m, col \in 1..n :
          /\ (col - 1) * m + row \in 1..N
          /\ c[(col - 1) * m + row] = rows[a + row][col]
  <2> SUFFICES ASSUME NEW row \in 1..m, NEW col \in 1..n
               PROVE  /\ (col - 1) * m + row \in 1..N
                      /\ c[(col - 1) * m + row] = rows[a + row][col]
      BY Zenon
  <2>1. PICK k \in 1..N : /\ k = (col - 1) * m + row
                          /\ (k - 1) % m = row - 1 /\ (k - 1) \div m = col - 1
        BY ZenonT(30), <1>2, CellIndex
  <2>2. a + 1 + (row - 1) = a + row /\ 1 + (col - 1) = col
        BY SMT
  <2>3. c[k] = rows[a + 1 + ((k - 1) % m)][1 + (k - 1) \div m]
        BY Zenon
  <2> QED
      BY Zenon, <2>1, <2>2, <2>3
<1> HIDE DEF c, p
<1>8. p \in Seq(Seq(Int)) /\ Len(p) = N
      BY SMT, <1>6
<1>9. h \in Seq(Int) /\ Len(h) = 16 /\ ReadU32(h, 9) = m /\ ReadU32(h, 13) = n
      BY <1>1, HeaderForm
<1> HIDE DEF h
<1>10. CellsAt(E, N, c)
  <2>1. \A k \in 1..N : p[k] = CellBytes(c[k])
        BY Zenon, <1>6
  <2> QED
      BY Zenon, <1>4, <1>8, <1>9, <2>1, PayloadCells
<1>11. ReadU32(E, 9) = m /\ ReadU32(E, 13) = n
  <2>1. Flatten(p) \in Seq(Int)
        BY <1>8, FlattenAt
  <2>2. \A i \in 1..16 : E[i] = h[i]
    <3>1. \A i \in 1..Len(h) : (h \o Flatten(p))[i] = h[i]
          BY Zenon, <1>9, <2>1, Concat
    <3> QED
        BY Zenon, <1>9, <3>1
  <2>3. /\ 9 \in 1..16 /\ 9 + 1 \in 1..16 /\ 9 + 2 \in 1..16 /\ 9 + 3 \in 1..16
        /\ 13 \in 1..16 /\ 13 + 1 \in 1..16 /\ 13 + 2 \in 1..16 /\ 13 + 3 \in 1..16
        BY SMT
  <2> HIDE DEF E
  <2> QED
      BY Zenon, <1>9, <2>2, <2>3 DEF ReadU32
<1> HIDE DEF E
<1>12. DecodedRows(E) = RowsFrom(E, m, n)
      BY Zenon, <1>11, DecodedIs
<1> DEFINE D == [row \in 1..m |-> rows[a + row]]
<1>13. DecodedRows(E) = D
  <2>1. \A row \in 1..m, col \in 1..n :
            CellAt(E, Starts(E, m * n)[(col - 1) * m + row]) = rows[a + row][col]
        BY Zenon, <1>2, <1>7, <1>10 DEF CellsAt
  <2>2. \A row \in 1..m :
            [col \in 1..n |-> CellAt(E, Starts(E, m * n)[(col - 1) * m + row])] = rows[a + row]
    <3> TAKE row \in 1..m
    <3>1. rows[a + row] = [col \in 1..n |-> rows[a + row][col]]
          BY Zenon, <1>3
    <3> QED
        BY Zenon, <2>1, <3>1
  <2> QED
      BY Zenon, <1>12, <2>2 DEF RowsFrom
<1>14. D \in Seq([1..n -> Cell]) /\ Len(D) = m /\ \A j \in 1..m : D[j] = rows[a + j]
  <2>1. D \in [1..m -> [1..n -> Cell]] /\ \A j \in 1..m : D[j] = rows[a + j]
        BY Zenon, <1>3
  <2> HIDE DEF D
  <2>2. D \in Seq([1..n -> Cell]) /\ Len(D) = m
        BY SMT, <2>1
  <2> QED
      BY <2>1, <2>2
<1> HIDE DEF D
<1>15. SubSeq(rows, a + 1, a + Len(D)) = D
      BY <1>1, <1>14, SubSeqIs
<1> QED
    BY Zenon, <1>1, <1>5, <1>13, <1>14, <1>15

-----------------------------------------------------------------------------
(***************************************************************************)
(* What the client reads out of a stream.                                  *)
(***************************************************************************)

\* A sequence with one more element.
OneMore(s, x) == [i \in 1..(Len(s) + 1) |-> IF i <= Len(s) THEN s[i] ELSE x]

\* Lemma: that is what Append makes.
LEMMA AppendIs ==
  ASSUME NEW S, NEW s \in Seq(S), NEW x \in S
  PROVE  Append(s, x) = OneMore(s, x)
<1> DEFINE t == [i \in 1..(Len(s) + 1) |-> IF i <= Len(s) THEN s[i] ELSE x]
<1>1. Len(s) \in Nat /\ \A i \in 1..Len(s) : s[i] \in S
  BY SMT
<1>2. /\ t \in [1..(Len(s) + 1) -> S]
      /\ \A i \in 1..(Len(s) + 1) : t[i] = IF i <= Len(s) THEN s[i] ELSE x
  BY SMT, <1>1
<1> HIDE DEF t
<1>3. t \in Seq(S) /\ Len(t) = Len(s) + 1
  BY SMT, <1>1, <1>2
<1>4. t = Append(s, x)
  BY SMT, <1>1, <1>2, <1>3
<1>5. QED
  BY Zenon, <1>4 DEF t, OneMore

\* Lemma: Append adds an element, and tells which.
LEMMA AppendTells ==
  ASSUME NEW S, NEW s \in Seq(S), NEW c, NEW d
  PROVE  Append(s, c) # s /\ (Append(s, c) = Append(s, d) => c = d)
<1>1. /\ Len(Append(s, c)) = Len(s) + 1 /\ Len(s) \in Nat
      /\ Append(s, c)[Len(s) + 1] = c /\ Append(s, d)[Len(s) + 1] = d
  BY SMT
<1>2. QED
  BY SMT, <1>1

\* Lemma: two pieces next to each other are one.
LEMMA SubSeqJoin ==
  ASSUME NEW S, NEW s \in Seq(S), NEW a \in Nat, NEW b \in Nat, a <= b, b <= Len(s)
  PROVE  /\ SubSeq(s, a + 1, b) \in Seq(S) /\ Len(SubSeq(s, a + 1, b)) = b - a
         /\ SubSeq(s, 1, a) \in Seq(S) /\ Len(SubSeq(s, 1, a)) = a
         /\ SubSeq(s, 1, a) \o SubSeq(s, a + 1, b) = SubSeq(s, 1, b)
BY SMT

\* Lemma: a row chunk is read as the rows it carries.
LEMMA ChunkRows ==
  ASSUME ResultTypeOK, NEW k \in {"SCHEMA", "BATCH"}, NEW a \in Nat, NEW b \in Nat,
         a <= b, b <= RowCount, b - a <= wire_batch_rows
  PROVE  RowsOf(Chunk(k, a, b)) = SubSeq(request.table.rows, a + 1, b)
<1>1. PICK rows : rows = request.table.rows
  OBVIOUS
<1>2. PICK n : n = num_fields
  OBVIOUS
<1>3. /\ n \in Nat /\ n <= INT_MAX /\ rows \in Seq([1..n -> Cell]) /\ b <= Len(rows)
      /\ wire_batch_rows <= INT_MAX
  BY Zenon, <1>1, <1>2, TableRows
<1>4. b - a <= INT_MAX
  <2>1. INT_MAX \in Int /\ wire_batch_rows \in Int
    BY SMT, Sizes DEF INT_MAX
  <2>2. QED
    BY SMT, <1>3, <2>1
<1>5. DecodedRows(EncodeRawPgBatch(rows, n, a, b)) = SubSeq(rows, a + 1, b)
  BY Zenon, <1>3, <1>4, PayloadReadsBack
<1>6. Chunk(k, a, b).kind = k /\ Chunk(k, a, b).from = a /\ Chunk(k, a, b).to = b
  BY SMT DEF Chunk
<1>7. QED
  BY Zenon, <1>1, <1>2, <1>5, <1>6 DEF RowsOf

\* Lemma: the other chunks carry no rows.
LEMMA NoRows ==
  ASSUME NEW k \in {"TRAILER", "ERROR"}, NEW a, NEW b
  PROVE  RowsOf(Chunk(k, a, b)) = <<>>
BY SMT DEF RowsOf, Chunk

Row == [1..num_fields -> Cell]

\* The inductive invariant of what is read: the beginning of the result, as far
\* as the chunks say while the stream goes on, and all of it before a TRAILER.
ReadInv ==
    /\ ReadChunks \in Seq(Seq(Row))
    /\ \A i \in DOMAIN ReadChunks : Len(ReadChunks[i]) <= wire_batch_rows
    /\ \E n \in 0..RowCount :
        /\ Flatten(ReadChunks) = SubSeq(request.table.rows, 1, n)
        /\ ~Ended => n = Sent
        /\ HasTrailer /\ num_fields > 0 => n = RowCount

\* Lemma: a further chunk is read after the others.
LEMMA ReadGrows ==
  ASSUME ResultTypeOK, ReadChunks \in Seq(Seq(Row)), UNCHANGED request,
         NEW c, chunks' = Append(chunks, c), RowsOf(c) \in Seq(Row)
  PROVE  ReadChunks' = Append(ReadChunks, RowsOf(c))
<1>1. PICK n \in Nat : n = Len(chunks)
  BY SMT DEF ResultTypeOK
<1>2. /\ DOMAIN chunks = 1..n /\ DOMAIN chunks' = 1..(n + 1)
      /\ \A i \in 1..(n + 1) : chunks'[i] = IF i <= n THEN chunks[i] ELSE c
  BY SMT, <1>1 DEF ResultTypeOK
<1>3. DOMAIN ReadChunks = 1..n /\ \A i \in 1..n : ReadChunks[i] = RowsOf(chunks[i])
  BY Zenon, <1>2 DEF ReadChunks
<1>4. Len(ReadChunks) = n
  BY SMT, <1>3
<1>5. Append(ReadChunks, RowsOf(c))
        = [i \in 1..(n + 1) |-> IF i <= n THEN ReadChunks[i] ELSE RowsOf(c)]
  <2>1. Append(ReadChunks, RowsOf(c)) = OneMore(ReadChunks, RowsOf(c))
    BY AppendIs
  <2>2. QED
    BY Zenon, <1>4, <2>1 DEF OneMore
<1>6. ReadChunks' = [i \in 1..(n + 1) |-> RowsOf(chunks'[i])]
  BY Zenon, <1>2 DEF ReadChunks, RowsOf, num_fields
<1>7. \A i \in 1..(n + 1) : i <= n => i \in 1..n
  BY SMT
<1>8. QED
  BY Zenon, <1>2, <1>3, <1>5, <1>6, <1>7

\* Lemma: one more chunk keeps the invariant if the rows it carries follow.
LEMMA ReadStep ==
  ASSUME ResultTypeOK, ReadInv, UNCHANGED <<request, config>>,
         NEW c, chunks' = Append(chunks, c),
         RowsOf(c) \in Seq(Row), Len(RowsOf(c)) <= wire_batch_rows,
         NEW m \in 0..RowCount,
         Flatten(ReadChunks) \o RowsOf(c) = SubSeq(request.table.rows, 1, m),
         ~Ended' => m = Sent', HasTrailer' /\ num_fields > 0 => m = RowCount
  PROVE  ReadInv'
<1>1. ReadChunks \in Seq(Seq(Row)) /\ ReadChunks' = Append(ReadChunks, RowsOf(c))
  BY Zenon, ReadGrows DEF ReadInv
<1>2. /\ num_fields' = num_fields /\ RowCount' = RowCount /\ wire_batch_rows' = wire_batch_rows
      /\ Row' = Row /\ request.table.rows' = request.table.rows
  <2>1. request' = request /\ config' = config
    OBVIOUS
  <2>2. QED
    BY ZenonT(60), <2>1 DEF num_fields, RowCount, wire_batch_rows, Row
<1>3. PICK x \in Seq(Row) : x = RowsOf(c) /\ Len(x) <= wire_batch_rows
  OBVIOUS
<1>4. PICK s \in Seq(Seq(Row)) : s = ReadChunks
  BY <1>1
<1>5. \A i \in DOMAIN s : Len(s[i]) <= wire_batch_rows
  BY Zenon, <1>4 DEF ReadInv
<1>6. /\ Append(s, x) \in Seq(Seq(Row))
      /\ \A i \in DOMAIN Append(s, x) : Len(Append(s, x)[i]) <= wire_batch_rows
  BY SMTT(30), <1>3, <1>5
<1>7. Flatten(Append(s, x)) = Flatten(s) \o x
  BY Zenon, FlattenAppend
<1>8. QED
  BY Zenon, <1>1, <1>2, <1>3, <1>4, <1>6, <1>7 DEF ReadInv

\* Lemma: no batch is larger than MTDD_PG_WIRE_BATCH_ROWS.
LEMMA BatchBound ==
  ASSUME ResultInv, [ResultNext]_resultVars, NEW c, chunks' = Append(chunks, c),
         c.kind \in {"SCHEMA", "BATCH"}
  PROVE  c.to - c.from <= wire_batch_rows
<1>1. ResultTypeOK /\ chunks \in Seq(ChunkType)
  BY Zenon DEF ResultInv, ResultTypeOK, ChunkType
<1>2. chunks' # chunks /\ \A d : Written(d) => c = d
  BY Zenon, <1>1, AppendTells DEF Written
<1>3. ASSUME NEW k \in {"TRAILER", "ERROR"}, NEW a, NEW b PROVE ~Written(Chunk(k, a, b))
  <2>1. Chunk(k, a, b).kind = k
    BY SMT DEF Chunk
  <2>2. QED
    BY SMT, <1>2, <2>1
<1>4. CASE SendBatch \/ SendEmptySchema
  <2>1. ASSUME NEW k, NEW a \in Nat, NEW b \in Nat, b - a <= wire_batch_rows,
               Written(Chunk(k, a, b))
        PROVE  c.to - c.from <= wire_batch_rows
    <3>1. Chunk(k, a, b).from = a /\ Chunk(k, a, b).to = b
      BY SMT DEF Chunk
    <3>2. QED
      BY <1>2, <2>1, <3>1
  <2>2. CASE SendBatch
    <3>1. /\ last_result.from \in Nat /\ last_result.rows \in Nat /\ row_begin \in Nat
          /\ row_begin < last_result.rows /\ wire_batch_rows \in Nat \ {0}
      BY SMTT(30), <1>1, <2>2, Sizes DEF SendBatch, ResultInv, Accounting, ResultTypeOK
    <3>2. /\ row_end \in Nat /\ last_result.from + row_end \in Nat
          /\ last_result.from + row_begin \in Nat
          /\ (last_result.from + row_end) - (last_result.from + row_begin) <= wire_batch_rows
      BY SMTT(30), <3>1 DEF row_end, Least
    <3>3. Written(Chunk(IF batch_sent THEN "BATCH" ELSE "SCHEMA",
                        last_result.from + row_begin, last_result.from + row_end))
      BY Zenon, <1>2, <2>2 DEF SendBatch, SendBatchChunk
    <3>4. QED
      BY ZenonT(30), <2>1, <3>2, <3>3
  <2>3. CASE SendEmptySchema
    <3>1. Written(Chunk(IF batch_sent THEN "BATCH" ELSE "SCHEMA", 0, 0))
      BY Zenon, <1>2, <2>3 DEF SendEmptySchema, SendBatchChunk
    <3>2. 0 \in Nat /\ 0 - 0 <= wire_batch_rows
      BY SMT, <1>1, Sizes
    <3>3. QED
      BY Zenon, <2>1, <3>1, <3>2
  <2>4. QED
    BY <1>4, <2>2, <2>3
<1>5. CASE FetchFails \/ BadStatus \/ Caught
  BY SMTT(30), <1>2, <1>3, <1>5 DEF FetchFails, BadStatus, Caught, WriteErrorChunk, WriteFails
<1>6. CASE CommandTrailer \/ SendTrailer
  BY SMTT(30), <1>2, <1>3, <1>6 DEF CommandTrailer, SendTrailer, WriteTrailer, WriteFails
<1>7. CASE \/ LoopTest \/ Fetch \/ FetchNothing \/ Examine \/ Throws \/ Close \/ Abort
           \/ ClientCancels \/ UNCHANGED resultVars
  BY <1>2, <1>7 DEF LoopTest, Fetch, FetchNothing, Examine, Throws, Close, Abort,
     ClientCancels, resultVars, serverVars
<1>8. QED
  BY Zenon, <1>4, <1>5, <1>6, <1>7 DEF ResultNext, ServerStep

\* Lemma: a step of the stream keeps the invariant.
LEMMA ReadInvStep ==
  ASSUME ResultInv, ReadInv, [ResultNext]_resultVars
  PROVE  ReadInv'
<1>1. UNCHANGED <<request, config>> /\ ResultTypeOK
  <2>0. ResultTypeOK
    BY Zenon DEF ResultInv
  <2>1. ASSUME UNCHANGED fixed PROVE UNCHANGED <<request, config>>
    BY Zenon, <2>1 DEF fixed
  <2>2. CASE ServerStep
    <3>1. UNCHANGED fixed
      <4>1. CASE LoopTest
        BY Zenon, <4>1 DEF LoopTest
      <4>2. CASE Fetch
        BY Zenon, <4>2 DEF Fetch
      <4>3. CASE FetchFails
        BY Zenon, <4>3 DEF FetchFails
      <4>4. CASE FetchNothing
        BY Zenon, <4>4 DEF FetchNothing
      <4>5. CASE BadStatus
        BY Zenon, <4>5 DEF BadStatus
      <4>6. CASE CommandTrailer
        BY Zenon, <4>6 DEF CommandTrailer
      <4>7. CASE Examine
        BY Zenon, <4>7 DEF Examine
      <4>8. CASE SendBatch
        BY Zenon, <4>8 DEF SendBatch
      <4>9. CASE SendEmptySchema
        BY Zenon, <4>9 DEF SendEmptySchema
      <4>10. CASE SendTrailer
        BY Zenon, <4>10 DEF SendTrailer
      <4>11. CASE Throws
        BY Zenon, <4>11 DEF Throws
      <4>12. CASE Close
        BY Zenon, <4>12 DEF Close, Leave
      <4>13. CASE Abort
        BY Zenon, <4>13 DEF Abort, Leave
      <4>14. CASE Caught
        BY Zenon, <4>14 DEF Caught, Leave
      <4> QED
        BY Zenon, <2>2, <4>1, <4>2, <4>3, <4>4, <4>5, <4>6, <4>7,
           <4>8, <4>9, <4>10, <4>11, <4>12, <4>13, <4>14 DEF ServerStep
    <3> QED
      BY Zenon, <2>0, <2>1, <3>1
  <2>3. CASE ClientCancels \/ UNCHANGED resultVars
    BY Zenon, <2>0, <2>3 DEF ClientCancels, resultVars, serverVars
  <2> QED
    BY Zenon, <2>2, <2>3 DEF ResultNext
<1>2. PICK rows \in Seq(Row) :
        rows = request.table.rows /\ RowCount = Len(rows) /\ RowCount \in Nat
  BY Zenon, <1>1, TableRows DEF Row
<1>3. PICK n \in 0..RowCount :
        /\ Flatten(ReadChunks) = SubSeq(rows, 1, n)
        /\ ~Ended => n = Sent
        /\ HasTrailer /\ num_fields > 0 => n = RowCount
  BY Zenon, <1>2 DEF ReadInv
<1>4. /\ SubSeq(rows, 1, n) \in Seq(Row) /\ <<>> \in Seq(Row)
      /\ SubSeq(rows, 1, n) \o <<>> = SubSeq(rows, 1, n)
  BY SMT, <1>2
<1>5. wire_batch_rows \in Nat /\ Len(<<>>) <= wire_batch_rows
  BY SMT, <1>1, Sizes
<1>6. CASE UNCHANGED chunks
  <2>1. request' = request /\ config' = config /\ chunks' = chunks
    BY <1>1, <1>6
  <2>2. ReadChunks' = ReadChunks /\ Row' = Row
    BY Zenon, <2>1 DEF ReadChunks, RowsOf, Row, num_fields
  <2>3. /\ num_fields' = num_fields /\ RowCount' = RowCount /\ wire_batch_rows' = wire_batch_rows
        /\ Ended' = Ended /\ Sent' = Sent /\ HasTrailer' = HasTrailer
    BY ZenonT(60), <2>1 DEF num_fields, RowCount, wire_batch_rows, Ended, Promise!Ended, Sent,
       Promise!Sent, HasTrailer
  <2>4. QED
    BY Zenon, <2>1, <2>2, <2>3 DEF ReadInv
<1>7. CASE Promise!SendError
  <2> DEFINE c == Chunk("ERROR", 0, 0)
  <2>1. chunks' = Append(chunks, c) /\ ~Ended
    BY Zenon, <1>7 DEF Promise!SendError, Promise!Send, Promise!Chunk, Chunk, Ended
  <2>2. RowsOf(c) = <<>>
    BY Zenon, NoRows
  <2>3. Ended' /\ ~HasTrailer'
    <3>1. c \in ChunkType /\ c.kind = "ERROR"
      BY SMT DEF Chunk, ChunkType
    <3>2. chunks' # <<>> /\ chunks'[Len(chunks')] = c
      BY <1>1, <2>1, <3>1, WriteFacts DEF Written
    <3>3. QED
      BY <3>1, <3>2 DEF Ended, Promise!Ended, HasTrailer
  <2> HIDE DEF c
  <2>4. Flatten(ReadChunks) \o RowsOf(c) = SubSeq(request.table.rows, 1, n)
    BY Zenon, <1>2, <1>3, <1>4, <2>2
  <2>5. QED
    BY Zenon, <1>1, <1>4, <1>5, <2>1, <2>2, <2>3, <2>4, ReadStep
<1>8. ASSUME NEW m \in 0..RowCount, Promise!SendTrailer(m) PROVE ReadInv'
  <2> DEFINE c == Chunk("TRAILER", 0, m)
  <2>1. /\ chunks' = Append(chunks, c) /\ ~Ended
        /\ num_fields > 0 => Sent = m /\ m = RowCount
    <3>1. chunks' = Append(chunks, c) /\ ~Ended
      BY Zenon, <1>8 DEF Promise!SendTrailer, Promise!Send, Promise!Chunk, Chunk, Ended
    <3>2. num_fields > 0 => Sent = m /\ m = RowCount
      BY SMT, <1>8 DEF Promise!SendTrailer, Sent
    <3>3. QED
      BY <3>1, <3>2
  <2>2. RowsOf(c) = <<>>
    BY Zenon, NoRows
  <2>3. Ended'
    <3>1. c \in ChunkType /\ c.kind = "TRAILER"
      BY SMT, <1>2 DEF Chunk, ChunkType
    <3>2. chunks' # <<>> /\ chunks'[Len(chunks')] = c
      BY <1>1, <2>1, <3>1, WriteFacts DEF Written
    <3>3. QED
      BY <3>1, <3>2 DEF Ended, Promise!Ended
  <2> HIDE DEF c
  <2>4. Flatten(ReadChunks) \o RowsOf(c) = SubSeq(request.table.rows, 1, n)
    BY Zenon, <1>2, <1>3, <1>4, <2>2
  <2>5. num_fields > 0 => n = RowCount
    BY Zenon, <1>3, <2>1
  <2>6. QED
    BY Zenon, <1>1, <1>4, <1>5, <2>1, <2>2, <2>3, <2>4, <2>5, ReadStep
<1>9. ASSUME NEW m \in 0..RowCount, Promise!SendRows(m) PROVE ReadInv'
  <2>1. PICK k \in {"SCHEMA", "BATCH"} : k = IF chunks = <<>> THEN "SCHEMA" ELSE "BATCH"
    OBVIOUS
  <2> DEFINE c == Chunk(k, n, m)
  <2>2. ~Ended /\ n = Sent
    BY Zenon, <1>3, <1>9 DEF Promise!SendRows, Ended
  <2>3. chunks' = Append(chunks, c) /\ n <= m
    <3>1. chunks' = Append(chunks, c)
      BY Zenon, <1>9, <2>1, <2>2 DEF Promise!SendRows, Promise!Send, Promise!Chunk, Chunk, Sent
    <3>2. Sent < m \/ (chunks = <<>> /\ m = 0)
      BY Zenon, <1>9 DEF Promise!SendRows, Sent
    <3>3. chunks = <<>> => Sent = 0
      BY Zenon DEF Sent, Promise!Sent
    <3>4. QED
      BY SMT, <2>2, <3>1, <3>2, <3>3, <1>2
  <2>4. /\ c.kind = k /\ c.from = n /\ c.to = m /\ ~HasTrailer' /\ Sent' = m
    <3>1. c \in ChunkType /\ c.kind = k /\ c.from = n /\ c.to = m
      BY SMT, <1>2 DEF Chunk, ChunkType
    <3>2. chunks' # <<>> /\ chunks'[Len(chunks')] = c
      BY <1>1, <2>3, <3>1, WriteFacts DEF Written
    <3>3. QED
      BY <3>1, <3>2 DEF HasTrailer, Sent, Promise!Sent
  <2> HIDE DEF c
  <2>5. n \in Nat /\ m \in Nat /\ m <= RowCount
    BY SMT, <1>2
  <2>6. m - n <= wire_batch_rows
    BY Zenon, <2>3, <2>4, BatchBound
  <2>7. RowsOf(c) = SubSeq(rows, n + 1, m)
    BY ZenonT(30), <1>1, <1>2, <2>3, <2>5, <2>6, ChunkRows DEF c
  <2>8. /\ SubSeq(rows, n + 1, m) \in Seq(Row) /\ Len(SubSeq(rows, n + 1, m)) = m - n
        /\ SubSeq(rows, 1, n) \o SubSeq(rows, n + 1, m) = SubSeq(rows, 1, m)
    <3>1. m <= Len(rows)
      BY <1>2, <2>5
    <3>2. QED
      BY <2>3, <2>5, <3>1, SubSeqJoin
  <2>9. /\ Flatten(ReadChunks) \o RowsOf(c) = SubSeq(request.table.rows, 1, m)
        /\ RowsOf(c) \in Seq(Row) /\ Len(RowsOf(c)) <= wire_batch_rows
    BY Zenon, <1>2, <1>3, <2>6, <2>7, <2>8
  <2>10. QED
    BY Zenon, <1>1, <2>3, <2>4, <2>9, ReadStep
<1>10. QED
  <2>1. UNCHANGED chunks \/ Promise!Next
    BY Zenon, ChunksAllowed DEF Promise!vars
  <2>2. Promise!Next =>
          \/ Promise!SendError
          \/ \E m \in 0..RowCount : Promise!SendRows(m) \/ Promise!SendTrailer(m)
    BY SMT DEF Promise!Next
  <2>3. QED
    BY Zenon, <1>6, <1>7, <1>8, <1>9, <2>1, <2>2

\* Theorem: whatever the client has been sent, it reads as the beginning of the
\* result, cell for cell and in pieces of at most MTDD_PG_WIRE_BATCH_ROWS rows,
\* and as all of it once the TRAILER of a result with columns is there.  For any
\* results and any sizes of fetches and batches.
THEOREM RowsAreReadBack == ResultSpec => []RowsReadBack
<1>1. ResultInit => ReadInv
  <2> SUFFICES ASSUME ResultInit PROVE ReadInv
    OBVIOUS
  <2>1. request.table \in Tables /\ chunks = <<>> /\ config.batch \in BatchSizes
    BY DEF ResultInit, Requests
  <2>2. num_fields \in Nat /\ request.table.rows \in Seq(Row)
    BY Zenon, <2>1, ResultAssumption DEF num_fields, Row
  <2>3. /\ RowCount \in Nat /\ 0 \in 0..RowCount /\ DOMAIN chunks = {}
        /\ SubSeq(request.table.rows, 1, 0) = <<>> /\ Len(<<>>) = 0 /\ Sent = 0 /\ ~HasTrailer
    BY SMT, <2>1, <2>2 DEF RowCount, Sent, Promise!Sent, HasTrailer
  <2>4. ReadChunks = [i \in {} |-> RowsOf(chunks[i])] /\ DOMAIN ReadChunks = {}
    BY Zenon, <2>3 DEF ReadChunks
  <2>5. ReadChunks = <<>> /\ ReadChunks \in Seq(Seq(Row))
    BY SMT, <2>4
  <2>6. Flatten(ReadChunks) = <<>>
    <3>1. Steps(ReadChunks, Row)
      BY Zenon, <2>5, JoinedSteps
    <3>2. QED
      BY Zenon, <2>3, <2>5, <3>1, FlattenIs DEF Steps
  <2>7. QED
    BY Zenon, <2>3, <2>4, <2>5, <2>6 DEF ReadInv
<1>2. ResultInv /\ ReadInv /\ [ResultNext]_resultVars => ReadInv'
  BY ReadInvStep
<1>3. ResultInv /\ ReadInv => RowsReadBack
  <2> SUFFICES ASSUME ResultInv, ReadInv PROVE RowsReadBack
    OBVIOUS
  <2>1. PICK rows \in Seq(Row) :
          rows = request.table.rows /\ RowCount = Len(rows) /\ RowCount \in Nat
    BY Zenon, TableRows DEF Row, ResultInv
  <2>2. PICK n \in 0..RowCount :
          /\ Flatten(ReadChunks) = SubSeq(rows, 1, n)
          /\ HasTrailer /\ num_fields > 0 => n = RowCount
    BY Zenon, <2>1 DEF ReadInv
  <2>3. n = RowCount => SubSeq(rows, 1, n) = rows
    BY SMT, <2>1
  <2>4. QED
    BY Zenon, <2>1, <2>2, <2>3 DEF RowsReadBack, ReadInv
<1>4. QED
  BY <1>1, <1>2, <1>3, ResultCorrect, PTL DEF ResultSpec
=============================================================================
