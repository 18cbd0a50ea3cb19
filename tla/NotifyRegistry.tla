---------------------------- MODULE NotifyRegistry ----------------------------
(***************************************************************************)
(* The notify coordinator (notify/registry.cpp, notify/channel_key.cpp) and *)
(* the RPC handlers that drive it (MtddNotifyServiceImpl).                  *)
(*                                                                         *)
(* Every Registry method holds mutex_ for its whole body and is one action, *)
(* except Publish: it copies the writers of the audience under the lock and *)
(* calls Write on each of them after it has let the lock go.  A stream is   *)
(* the ServerWriter object of a Watch handler, named by its address: it     *)
(* dies when the handler returns, and a later Watch may get the address.    *)
(* Writing to a dead writer, or to one that another thread is writing to,   *)
(* is undefined: here it may kill the process, return either Boolean and    *)
(* reach, or not reach, whatever stream has that address by then.           *)
(*                                                                         *)
(* Names are sequences of tokens, because ChannelKey glues two of them      *)
(* together with a colon.  Requests that fail validation return before they *)
(* touch the registry and are not steps.                                    *)
(***************************************************************************)
EXTENDS Integers, Sequences, FiniteSets

CONSTANTS
    Clients,      \* client_id values
    Token,        \* what names are made of
    Colon,        \* the separator of ChannelKey
    Global,       \* kGlobalTidScope
    Channels,     \* channel names used by the clients
    Scopes,       \* tid_scope values used by the clients
    Streams,      \* addresses of ServerWriter objects
    NoStream,
    NoClient,
    Publishers    \* threads that run Publish

ASSUME NotifyAssumption ==
    /\ Colon \in Token
    /\ Global \in Seq(Token)
    /\ Channels \subseteq Seq(Token) \ {<<>>}
    /\ Scopes \subseteq Seq(Token)
    /\ NoStream \notin Streams
    /\ NoClient \notin Clients

VARIABLES
    subscriptions_,   \* key -> its clients ({}: no entry)
    client_keys_,     \* client -> its keys ({}: no entry)
    watchers_,        \* client -> its registered writers ({}: no entry)
    watch,            \* Watch handlers by writer address: where they are
    watcher,          \* whose Watch it is
    ppc,              \* publisher: "idle" or "writing"
    targets,          \* publisher: writers copied under the lock, not yet written
    writing,          \* publisher: the writer its Write call is on
    delivered,        \* publisher: the count Publish returns
    snapshot,         \* history: the writers copied under the lock
    owed,             \* history: those of them whose call has stayed open since
    accepted,         \* history: the streams that got the message
    raced,            \* history: <<publisher, writer>>: a Write that is undefined
    crashed           \* an undefined use of a writer ended the process

indexVars == <<subscriptions_, client_keys_>>
watchVars == <<watchers_, watch, watcher>>
publishVars == <<ppc, targets, writing, delivered, snapshot, accepted>>
historyVars == <<owed, raced>>
notifyVars == <<indexVars, watchVars, publishVars, historyVars, crashed>>

NormalizeTidScope(scope) == IF scope = <<>> THEN Global ELSE scope

ChannelKey(channel, scope) == NormalizeTidScope(scope) \o <<Colon>> \o channel

Keys == {ChannelKey(ch, sc) : ch \in Channels, sc \in Scopes}

Pending(p) == targets[p] \cup ({writing[p]} \ {NoStream})

NotifyInit ==
    /\ subscriptions_ = [k \in Keys |-> {}]
    /\ client_keys_ = [c \in Clients |-> {}]
    /\ watchers_ = [c \in Clients |-> {}]
    /\ watch = [w \in Streams |-> "none"]
    /\ watcher = [w \in Streams |-> NoClient]
    /\ ppc = [p \in Publishers |-> "idle"]
    /\ targets = [p \in Publishers |-> {}]
    /\ writing = [p \in Publishers |-> NoStream]
    /\ delivered = [p \in Publishers |-> 0]
    /\ snapshot = [p \in Publishers |-> {}]
    /\ owed = [p \in Publishers |-> {}]
    /\ accepted = [p \in Publishers |-> {}]
    /\ raced = {}
    /\ crashed = FALSE

\* Mutant of Subscribe: the client's index gets a key without its scope.
SubscribeBare(c, key) ==
    /\ subscriptions_' = [subscriptions_ EXCEPT ![key] = @ \cup {c}]
    /\ client_keys_' = [client_keys_ EXCEPT ![c] = @ \cup {Tail(key)}]
    /\ UNCHANGED <<watchVars, publishVars, historyVars, crashed>>

Subscribe(c, key) ==
    /\ subscriptions_' = [subscriptions_ EXCEPT ![key] = @ \cup {c}]
    /\ client_keys_' = [client_keys_ EXCEPT ![c] = @ \cup {key}]
    /\ UNCHANGED <<watchVars, publishVars, historyVars, crashed>>

\* Mutant of RemoveClientFromKeys: the client's own index is forgotten.
RemoveClientOneSided(c, keys) ==
    /\ subscriptions_' = [k \in Keys |-> IF k \in keys THEN subscriptions_[k] \ {c}
                                                       ELSE subscriptions_[k]]
    /\ UNCHANGED client_keys_

\* Mutant of RemoveClientFromKeys: the entry goes, not only the client.
RemoveWholeEntries(c, keys) ==
    /\ subscriptions_' = [k \in Keys |-> IF k \in keys THEN {} ELSE subscriptions_[k]]
    /\ client_keys_' = [client_keys_ EXCEPT ![c] = @ \ keys]

\* Drop the client from each of the keys, and the keys from the client.
RemoveClientFromKeys(c, keys) ==
    /\ subscriptions_' = [k \in Keys |-> IF k \in keys THEN subscriptions_[k] \ {c}
                                                       ELSE subscriptions_[k]]
    /\ client_keys_' = [client_keys_ EXCEPT ![c] = @ \ keys]

Unsubscribe(c, key) ==
    /\ RemoveClientFromKeys(c, {key})
    /\ UNCHANGED <<watchVars, publishVars, historyVars, crashed>>

UnsubscribeAll(c) ==
    /\ RemoveClientFromKeys(c, client_keys_[c])
    /\ UNCHANGED <<watchVars, publishVars, historyVars, crashed>>

\* Watch: the stream is new, the handler registers its writer.
RegisterWatch(c, w) ==
    /\ watch[w] = "none"
    /\ watch' = [watch EXCEPT ![w] = "registered"]
    /\ watcher' = [watcher EXCEPT ![w] = c]
    /\ watchers_' = [watchers_ EXCEPT ![c] = @ \cup {w}]
    /\ UNCHANGED <<indexVars, publishVars, historyVars, crashed>>

\* The client cancels the call or disconnects: IsCancelled turns true.
Cancel(w) ==
    /\ watch[w] = "registered"
    /\ watch' = [watch EXCEPT ![w] = "cancelled"]
    /\ owed' = [p \in Publishers |-> owed[p] \ {w}]
    /\ UNCHANGED <<indexVars, watchers_, watcher, publishVars, raced, crashed>>

\* Mutant of UnregisterWatch: std::remove without erase.
UnregisterWatchKeeps(w) ==
    /\ watch[w] = "cancelled"
    /\ watch' = [watch EXCEPT ![w] = "unregistered"]
    /\ UNCHANGED <<indexVars, watchers_, watcher, publishVars, historyVars, crashed>>

\* The handler's poll sees IsCancelled and takes the writer out.
UnregisterWatch(w) ==
    /\ watch[w] = "cancelled"
    /\ watch' = [watch EXCEPT ![w] = "unregistered"]
    /\ watchers_' = [watchers_ EXCEPT ![watcher[w]] = @ \ {w}]
    /\ UNCHANGED <<indexVars, watcher, publishVars, historyVars, crashed>>

\* The handler returns and its writer is destroyed, whoever still points to it.
WatchReturn(w) ==
    /\ watch[w] = "unregistered"
    /\ watch' = [watch EXCEPT ![w] = "none"]
    /\ watcher' = [watcher EXCEPT ![w] = NoClient]
    /\ raced' = raced \cup {<<p, w>> : p \in {q \in Publishers : w \in Pending(q)}}
    /\ UNCHANGED <<indexVars, watchers_, publishVars, owed, crashed>>

\* The writers of the clients subscribed to the key, read under mutex_.
AudienceWriters(key) == UNION {watchers_[c] : c \in subscriptions_[key]}

Publish(p, key) ==
    /\ ppc[p] = "idle"
    /\ ppc' = [ppc EXCEPT ![p] = "writing"]
    /\ targets' = [targets EXCEPT ![p] = AudienceWriters(key)]
    /\ snapshot' = [snapshot EXCEPT ![p] = AudienceWriters(key)]
    /\ owed' = [owed EXCEPT ![p] = {w \in AudienceWriters(key) : watch[w] = "registered"}]
    /\ UNCHANGED <<indexVars, watchVars, writing, delivered, accepted, raced, crashed>>

\* Write is entered; a second Write on the same writer is undefined for both.
WriteStart(p, w) ==
    /\ ppc[p] = "writing" /\ writing[p] = NoStream /\ w \in targets[p]
    /\ targets' = [targets EXCEPT ![p] = @ \ {w}]
    /\ writing' = [writing EXCEPT ![p] = w]
    /\ LET others == {q \in Publishers \ {p} : writing[q] = w}
       IN raced' = raced \cup (IF others = {} THEN {} ELSE (others \cup {p}) \X {w})
    /\ UNCHANGED <<indexVars, watchVars, ppc, delivered, snapshot, accepted, owed, crashed>>

\* Mutant of WriteReturns: every call of Write is counted.
WriteReturnsCounted(p, ok, got) ==
    /\ writing' = [writing EXCEPT ![p] = NoStream]
    /\ delivered' = [delivered EXCEPT ![p] = @ + 1]
    /\ accepted' = [accepted EXCEPT ![p] = IF got THEN @ \cup {writing[p]} ELSE @]
    /\ UNCHANGED <<indexVars, watchVars, ppc, targets, snapshot, historyVars>>

\* Write returns ok; got tells whether the stream took the message.
WriteReturns(p, ok, got) ==
    /\ writing' = [writing EXCEPT ![p] = NoStream]
    /\ delivered' = [delivered EXCEPT ![p] = IF ok THEN @ + 1 ELSE @]
    /\ accepted' = [accepted EXCEPT ![p] = IF got THEN @ \cup {writing[p]} ELSE @]
    /\ UNCHANGED <<indexVars, watchVars, ppc, targets, snapshot, historyVars>>

\* A defined Write: it succeeds on an open call, and may fail on a cancelled one.
WriteDefined(p) ==
    /\ writing[p] # NoStream /\ <<p, writing[p]>> \notin raced
    /\ \E ok \in BOOLEAN :
         /\ watch[writing[p]] = "registered" => ok
         /\ WriteReturns(p, ok, ok)
    /\ UNCHANGED crashed

\* An undefined Write: any result, any effect, or the end of the process.
WriteUndefined(p) ==
    /\ writing[p] # NoStream /\ <<p, writing[p]>> \in raced
    /\ \E ok, got \in BOOLEAN :
         /\ got => watch[writing[p]] # "none"
         /\ WriteReturns(p, ok, got)
    /\ crashed' \in BOOLEAN

\* The loop over the targets is over: Publish is about to return delivered.
Returning(p) == ppc[p] = "writing" /\ writing[p] = NoStream /\ targets[p] = {}

PublishReturn(p) ==
    /\ Returning(p)
    /\ ppc' = [ppc EXCEPT ![p] = "idle"]
    /\ delivered' = [delivered EXCEPT ![p] = 0]
    /\ snapshot' = [snapshot EXCEPT ![p] = {}]
    /\ owed' = [owed EXCEPT ![p] = {}]
    /\ accepted' = [accepted EXCEPT ![p] = {}]
    /\ raced' = raced \ ({p} \X Streams)
    /\ UNCHANGED <<indexVars, watchVars, targets, writing, crashed>>

ClientStep(c) ==
    \/ \E ch \in Channels, sc \in Scopes :
         Subscribe(c, ChannelKey(ch, sc)) \/ Unsubscribe(c, ChannelKey(ch, sc))
    \/ UnsubscribeAll(c)
    \/ \E w \in Streams : RegisterWatch(c, w)

WatchStep(w) == Cancel(w) \/ UnregisterWatch(w) \/ WatchReturn(w)

PublishStep(p) ==
    \/ \E ch \in Channels, sc \in Scopes : Publish(p, ChannelKey(ch, sc))
    \/ \E w \in Streams : WriteStart(p, w)
    \/ WriteDefined(p)
    \/ WriteUndefined(p)
    \/ PublishReturn(p)

NotifyNext ==
    /\ ~crashed
    /\ \/ \E c \in Clients : ClientStep(c)
       \/ \E w \in Streams : WatchStep(w)
       \/ \E p \in Publishers : PublishStep(p)

NotifySpec == NotifyInit /\ [][NotifyNext]_notifyVars

-----------------------------------------------------------------------------
\* Type invariant of the registry, the Watch handlers and the publishers.
NotifyTypeOK ==
    /\ subscriptions_ \in [Keys -> SUBSET Clients]
    /\ client_keys_ \in [Clients -> SUBSET Keys]
    /\ watchers_ \in [Clients -> SUBSET Streams]
    /\ watch \in [Streams -> {"none", "registered", "cancelled", "unregistered"}]
    /\ watcher \in [Streams -> Clients \cup {NoClient}]
    /\ ppc \in [Publishers -> {"idle", "writing"}]
    /\ targets \in [Publishers -> SUBSET Streams]
    /\ writing \in [Publishers -> Streams \cup {NoStream}]
    /\ delivered \in [Publishers -> Nat]
    /\ snapshot \in [Publishers -> SUBSET Streams]
    /\ owed \in [Publishers -> SUBSET Streams]
    /\ accepted \in [Publishers -> SUBSET Streams]
    /\ raced \subseteq Publishers \X Streams
    /\ crashed \in BOOLEAN

\* The two subscription indexes are each other's inverse.  UnsubscribeAll finds
\* the entries of subscriptions_ to clean through client_keys_ alone, so a pair
\* held by one map only would outlive its client.
IndexInverse ==
    \A c \in Clients, k \in Keys : c \in subscriptions_[k] <=> k \in client_keys_[c]

\* The registry holds exactly the writers of the Watch handlers that have not
\* unregistered yet, under the client that opened them: what Publish copies is
\* alive at the moment of the copy.
WatchersLive ==
    \A c \in Clients, w \in Streams :
        w \in watchers_[c] <=> (watch[w] \in {"registered", "cancelled"} /\ watcher[w] = c)

Undisturbed(p) == \A w \in Streams : <<p, w>> \notin raced

\* A Publish none of whose writers was destroyed or shared under it keeps its
\* word when it returns: the count is the number of streams that took the
\* message, and every stream of the audience that has stayed open since
\* has it.
PublishHonest ==
    \A p \in Publishers : Returning(p) /\ Undisturbed(p) =>
        /\ delivered[p] = Cardinality(accepted[p])
        /\ owed[p] \subseteq accepted[p]

\* registry.h:20 without the proviso: "Returns number of watch streams that
\* accepted the write."  Publish calls Write after the lock is gone, on writers
\* whose Watch handlers may have returned meanwhile.
DeliveredIsAccepted ==
    \A p \in Publishers : Returning(p) => delivered[p] = Cardinality(accepted[p])

-----------------------------------------------------------------------------
Topics == {<<NormalizeTidScope(sc), ch>> : sc \in Scopes, ch \in Channels}

TopicKey(topic) == topic[1] \o <<Colon>> \o topic[2]

\* No tid_scope in use has a colon in it (channel names may).
ScopesPlain ==
    \A sc \in Scopes \cup {Global} : \A i \in 1..Len(sc) : sc[i] # Colon

SubscriptionPairs ==
    {x \in Clients \X Topics : x[1] \in subscriptions_[TopicKey(x[2])]}

WatchPairs == {x \in Clients \X Streams : x[2] \in watchers_[x[1]]}

DefinedWrites == [p \in Publishers |-> {w \in accepted[p] : <<p, w>> \notin raced}]

Abstract == INSTANCE PubSub WITH
    wants <- SubscriptionPairs,
    watching <- WatchPairs,
    audience <- snapshot,
    reached <- DefinedWrites

\* The registry implements PubSub: the maps and keys behave as a relation
\* between clients and (scope, channel) topics, each Publish fixes its audience
\* in one instant, and a write that is defined reaches that audience only.
ImplementsPubSub == Abstract!Spec
=============================================================================
