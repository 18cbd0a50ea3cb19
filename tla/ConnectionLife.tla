---------------------------- MODULE ConnectionLife ----------------------------
(***************************************************************************)
(* What the shard server promises about its connections to PostgreSQL,     *)
(* without mutexes, slots and statements.  A connection is closed, idle in *)
(* the pool, lent to one stream, pinned to one session, or left to the     *)
(* streams that still run in a session the store has given up.  It keeps   *)
(* the credentials it was opened with until it is closed; what the pool    *)
(* opened is never pinned, and what was pinned never gets into the pool.   *)
(***************************************************************************)
CONSTANTS
    Conn,        \* connections
    NoConn,      \* no connection
    Borrowers,   \* streams without a session
    Sessions,    \* session ids
    Creds,       \* credentials
    NoCreds      \* those of a closed connection

VARIABLES
    place,       \* of each connection: closed, idle, lent, pinned or left
    lent,        \* the connection each stream has borrowed
    pinned,      \* the connection of each session
    creds        \* what each connection was opened with

lifeVars == <<place, lent, pinned, creds>>

Init ==
    /\ place = [c \in Conn |-> "closed"]
    /\ lent = [b \in Borrowers |-> NoConn]
    /\ pinned = [s \in Sessions |-> NoConn]
    /\ creds = [c \in Conn |-> NoCreds]

\* A Connect RPC opens a connection for the pool.
Warm(c, k) ==
    /\ creds' = [creds EXCEPT ![c] = k]
    /\ place[c] = "closed"
    /\ place' = [place EXCEPT ![c] = "idle"]
    /\ UNCHANGED <<lent, pinned>>

\* The pool lends an idle connection, or opens one for the borrower.
Lend(b, c) ==
    /\ lent[b] = NoConn
    /\ lent' = [lent EXCEPT ![b] = c]
    /\ \/ place[c] = "idle" /\ UNCHANGED creds
       \/ place[c] = "closed" /\ \E k \in Creds : creds' = [creds EXCEPT ![c] = k]
    /\ place' = [place EXCEPT ![c] = "lent"]
    /\ UNCHANGED pinned

\* The borrower gives its connection back, or it is closed.
GiveBack(b) ==
    /\ lent[b] # NoConn
    /\ lent' = [lent EXCEPT ![b] = NoConn]
    /\ place' = [place EXCEPT ![lent[b]] = "idle"]
    /\ UNCHANGED <<pinned, creds>>

Discard(b) ==
    /\ lent[b] # NoConn
    /\ lent' = [lent EXCEPT ![b] = NoConn]
    /\ creds' = [creds EXCEPT ![lent[b]] = NoCreds]
    /\ place' = [place EXCEPT ![lent[b]] = "closed"]
    /\ UNCHANGED pinned

\* Session s gets a new connection c, or loses the one it had (c = NoConn).
\* The old one is left to the streams that run in it, or closed when there
\* are none.
Repin(s, c) ==
    /\ c # pinned[s]
    /\ pinned' = [pinned EXCEPT ![s] = c]
    /\ c # NoConn => place[c] = "closed"
    /\ \E k \in Creds, fate \in {"left", "closed"} :
         /\ place' = [d \in Conn |-> IF d = c THEN "pinned"
                                     ELSE IF d = pinned[s] THEN fate
                                     ELSE place[d]]
         /\ creds' = [d \in Conn |-> IF d = c THEN k
                                     ELSE IF place'[d] = "closed" THEN NoCreds
                                     ELSE creds[d]]
    /\ UNCHANGED lent

\* The last stream that runs in a connection the store gave up ends.
Finish(c) ==
    /\ creds' = [creds EXCEPT ![c] = NoCreds]
    /\ place[c] = "left"
    /\ place' = [place EXCEPT ![c] = "closed"]
    /\ UNCHANGED <<lent, pinned>>

Next ==
    \/ \E c \in Conn, k \in Creds : Warm(c, k)
    \/ \E b \in Borrowers : GiveBack(b) \/ Discard(b) \/ \E c \in Conn : Lend(b, c)
    \/ \E s \in Sessions, c \in Conn \cup {NoConn} : Repin(s, c)
    \/ \E c \in Conn : Finish(c)

Spec == Init /\ [][Next]_lifeVars
=============================================================================
