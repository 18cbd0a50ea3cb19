------------------------- MODULE MCConnectionManager -------------------------
(***************************************************************************)
(* Small instances of the connection pool.                                 *)
(***************************************************************************)
EXTENDS ConnectionManager

CONSTANTS t1, t2, t3, c1, c2, c3

MCThreads == {t1, t2, t3}
MCConn == {c1, c2, c3}

MCClientCreds == {[dbname |-> "d1", user |-> "u1"], [dbname |-> "d2", user |-> "u2"]}
=============================================================================
