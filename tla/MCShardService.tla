---------------------------- MODULE MCShardService ----------------------------
(***************************************************************************)
(* Small instances of the query path.                                      *)
(***************************************************************************)
EXTENDS ShardService, TLC

CONSTANTS t1, t2, c1, c2, c3, c4, s1, s2

MCThreads == {t1, t2}
MCConn3 == {c1, c2, c3}
MCConn4 == {c1, c2, c3, c4}
MCCreds == {[dbname |-> "d1", user |-> "u1"]}

\* Connections, threads and sessions are interchangeable.
Symmetry == Permutations(MCConn4) \cup Permutations(MCThreads) \cup Permutations({s1, s2})
=============================================================================
