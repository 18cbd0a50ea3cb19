---------------------------- MODULE MCResultStream ----------------------------
(***************************************************************************)
(* Small instance of ResultStream: results with no, one and two columns, up *)
(* to five rows, and cells that are NULL, empty and not.                   *)
(***************************************************************************)
EXTENDS ResultStream

\* n rows of one column, the i-th holding the byte i.
Numbered(n) == [columns |-> 1, rows |-> [i \in 1..n |-> << <<i>> >>]]

\* n rows without columns.
Bare(n) == [columns |-> 0, rows |-> [i \in 1..n |-> <<>>]]

\* NULL, empty and longer cells side by side.
Mixed == [columns |-> 2, rows |-> << << Null, <<>> >>, << <<>>, <<0>> >>, << <<1, 0>>, Null >> >>]

MCTables == {Numbered(n) : n \in {0, 1, 2, 3, 5}} \cup {Bare(n) : n \in {0, 1, 3}} \cup {Mixed}
MCFetchSizes == {-1, 1, 2, 3, 5}
MCBatchSizes == {0, 1, 2, 3}
=============================================================================
