---------------------------- MODULE ResultProtocol ----------------------------
(***************************************************************************)
(* What the client of QueryStream may rely on: the chunks it is sent.      *)
(* Rows come in order and once, SCHEMA first, the TRAILER after the last   *)
(* row and with their number, and nothing after a TRAILER or an ERROR.     *)
(* The stream may stop anywhere (a cancelled call).                        *)
(***************************************************************************)
EXTENDS Integers, Sequences

VARIABLES
    result,  \* the query's result: its columns and its number of rows
    chunks   \* the chunks sent; one carries the rows after "from" up to "to"

vars == <<result, chunks>>

Results == [columns : Nat, rows : Nat]

Chunk(k, a, b) == [kind |-> k, from |-> a, to |-> b]

\* No further chunk may follow.
Ended(s) == s # <<>> /\ s[Len(s)].kind \in {"TRAILER", "ERROR"}

\* Rows sent so far.
Sent(s) == IF s = <<>> THEN 0 ELSE s[Len(s)].to

Init == result \in Results /\ chunks = <<>>

Send(c) == chunks' = Append(chunks, c) /\ UNCHANGED result

\* The first chunk with rows is the SCHEMA; only that one may be empty, and
\* only when there are no rows.
SendRows(n) ==
    /\ ~Ended(chunks) /\ result.columns > 0
    /\ Sent(chunks) < n \/ (chunks = <<>> /\ n = 0 /\ result.rows = 0)
    /\ n <= result.rows
    /\ Send(Chunk(IF chunks = <<>> THEN "SCHEMA" ELSE "BATCH", Sent(chunks), n))

\* A result without columns is only counted.
SendTrailer(n) ==
    /\ ~Ended(chunks)
    /\ IF result.columns > 0 THEN chunks # <<>> /\ Sent(chunks) = n /\ n = result.rows
                             ELSE chunks = <<>> /\ n <= result.rows
    /\ Send(Chunk("TRAILER", 0, n))

SendError == ~Ended(chunks) /\ Send(Chunk("ERROR", 0, 0))

Next == SendError \/ \E n \in 0..result.rows : SendRows(n) \/ SendTrailer(n)

Spec == Init /\ [][Next]_vars
=============================================================================
