-------------------------------- MODULE PubSub --------------------------------
(***************************************************************************)
(* What the notify coordinator promises, without its data structures: a    *)
(* relation between clients and topics (a channel in a tenant scope), a    *)
(* relation between clients and their open Watch streams, and for each     *)
(* Publish one instant at which its audience is decided: the open streams  *)
(* of the clients subscribed to the topic.  Nobody else is reached.        *)
(***************************************************************************)
CONSTANTS
    Clients,     \* client_id values
    Topics,      \* <<tid_scope, channel>> pairs
    Streams,     \* Watch streams
    Publishers   \* threads that run Publish

VARIABLES
    wants,       \* <<client, topic>>: the subscriptions in force
    watching,    \* <<client, stream>>: the registered Watch streams
    audience,    \* whom each publisher's message is for
    reached      \* the streams that accepted each publisher's message

abstractVars == <<wants, watching, audience, reached>>

AudienceOf(topic) ==
    {w \in Streams : \E c \in Clients : <<c, w>> \in watching /\ <<c, topic>> \in wants}

Init ==
    /\ wants = {}
    /\ watching = {}
    /\ audience = [p \in Publishers |-> {}]
    /\ reached = [p \in Publishers |-> {}]

Subscribe(c, topic) ==
    /\ wants' = wants \cup {<<c, topic>>}
    /\ UNCHANGED <<watching, audience, reached>>

Unsubscribe(c, topic) ==
    /\ wants' = wants \ {<<c, topic>>}
    /\ UNCHANGED <<watching, audience, reached>>

UnsubscribeAll(c) ==
    /\ wants' = wants \ ({c} \X Topics)
    /\ UNCHANGED <<watching, audience, reached>>

OpenWatch(c, w) ==
    /\ \A d \in Clients : <<d, w>> \notin watching
    /\ watching' = watching \cup {<<c, w>>}
    /\ UNCHANGED <<wants, audience, reached>>

CloseWatch(c, w) ==
    /\ watching' = watching \ {<<c, w>>}
    /\ UNCHANGED <<wants, audience, reached>>

Publish(p, topic) ==
    /\ reached[p] = {}
    /\ audience' = [audience EXCEPT ![p] = AudienceOf(topic)]
    /\ UNCHANGED <<wants, watching, reached>>

Deliver(p, w) ==
    /\ w \in audience[p] \ reached[p]
    /\ reached' = [reached EXCEPT ![p] = @ \cup {w}]
    /\ UNCHANGED <<wants, watching, audience>>

Return(p) ==
    /\ audience' = [audience EXCEPT ![p] = {}]
    /\ reached' = [reached EXCEPT ![p] = {}]
    /\ UNCHANGED <<wants, watching>>

Next ==
    \/ \E c \in Clients :
         \/ \E topic \in Topics : Subscribe(c, topic) \/ Unsubscribe(c, topic)
         \/ UnsubscribeAll(c)
         \/ \E w \in Streams : OpenWatch(c, w) \/ CloseWatch(c, w)
    \/ \E p \in Publishers :
         \/ \E topic \in Topics : Publish(p, topic)
         \/ \E w \in Streams : Deliver(p, w)
         \/ Return(p)

Spec == Init /\ [][Next]_abstractVars
=============================================================================
