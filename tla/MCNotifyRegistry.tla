--------------------------- MODULE MCNotifyRegistry ---------------------------
(***************************************************************************)
(* Small instance of NotifyRegistry.  The empty scope and "g" (the global   *)
(* scope) are one topic, the scope "x" is another.  The channel's name has a *)
(* colon, as TopicKey's separator is.                                       *)
(***************************************************************************)
EXTENDS NotifyRegistry, TLC

CONSTANTS a, b, w1, w2, p1

MCClients == {a, b}
MCStreams == {w1, w2}
MCToken == {":", "g", "x"}
MCGlobal == <<"g">>
MCScopes == {<<>>, <<"g">>, <<"x">>}
MCChannels == {<<"x", ":", "x">>}

Symmetry == Permutations(MCClients) \cup Permutations(MCStreams)
=============================================================================
