------------------------- MODULE NotifyRegistryProofs -------------------------
(***************************************************************************)
(* Proofs about the notify coordinator for any sets of clients, names,     *)
(* streams and publishers: its invariants and that it implements PubSub.    *)
(***************************************************************************)
EXTENDS NotifyRegistry, FiniteSetTheorems, SequenceTheorems, TLAPS

\* Between two Publish calls a publisher holds nothing.
IdleEmpty ==
    \A p \in Publishers : ppc[p] = "idle" =>
        /\ targets[p] = {} /\ accepted[p] = {} /\ snapshot[p] = {}
        /\ writing[p] = NoStream /\ delivered[p] = 0

RegistryInv == NotifyTypeOK /\ IndexInverse /\ WatchersLive

\* The streams a publisher still has to write to, the one it is writing to and
\* the ones that took the message are disjoint parts of its copy.
PartsApart ==
    \A p \in Publishers :
        /\ targets[p] \subseteq snapshot[p]
        /\ accepted[p] \subseteq snapshot[p]
        /\ targets[p] \cap accepted[p] = {}
        /\ writing[p] # NoStream =>
             writing[p] \in snapshot[p] \ (targets[p] \cup accepted[p])

PublishInv == PartsApart /\ IdleEmpty

\* The key of a request is a key of the maps.
LEMMA KeyOfRequest ==
  ASSUME NEW ch \in Channels, NEW sc \in Scopes
  PROVE  ChannelKey(ch, sc) \in Keys
BY DEF Keys

\* The writers Publish copies are streams.
LEMMA AudienceType ==
  ASSUME NotifyTypeOK, NEW key \in Keys
  PROVE  AudienceWriters(key) \subseteq Streams
BY DEF AudienceWriters, NotifyTypeOK

\* The initial state of the registry satisfies its invariants.
LEMMA RegistryInit == NotifyInit => RegistryInv
<1> SUFFICES ASSUME NotifyInit PROVE RegistryInv
  OBVIOUS
<1> USE NotifyAssumption DEF NotifyInit
<1>1. NotifyTypeOK
  BY Zenon DEF NotifyTypeOK
<1>2. IndexInverse
  BY DEF IndexInverse
<1>3. WatchersLive
  BY DEF WatchersLive
<1> QED
  BY <1>1, <1>2, <1>3 DEF RegistryInv

\* Every step of a client, a Watch handler or a publisher keeps the maps of the
\* registry typed, inverse of each other and free of dead writers.
LEMMA RegistryNext ==
  ASSUME RegistryInv, [NotifyNext]_notifyVars
  PROVE  RegistryInv'
<1> USE NotifyAssumption DEF RegistryInv, IndexInverse, WatchersLive, NotifyTypeOK,
        indexVars, watchVars, publishVars, historyVars
<1>1. ASSUME NEW c \in Clients, NEW key \in Keys, Subscribe(c, key)
      PROVE  RegistryInv'
  BY <1>1 DEF Subscribe
<1>2. ASSUME NEW c \in Clients, NEW key \in Keys, Unsubscribe(c, key)
      PROVE  RegistryInv'
  BY <1>2 DEF Unsubscribe, RemoveClientFromKeys
<1>3. ASSUME NEW c \in Clients, UnsubscribeAll(c)
      PROVE  RegistryInv'
  BY <1>3 DEF UnsubscribeAll, RemoveClientFromKeys
<1>4. ASSUME NEW c \in Clients, NEW w \in Streams, RegisterWatch(c, w)
      PROVE  RegistryInv'
  BY <1>4 DEF RegisterWatch
<1>5. ASSUME NEW w \in Streams, Cancel(w)
      PROVE  RegistryInv'
  BY <1>5 DEF Cancel
<1>6. ASSUME NEW w \in Streams, UnregisterWatch(w)
      PROVE  RegistryInv'
  <2>1. NotifyTypeOK' /\ IndexInverse'
    BY Zenon, <1>6 DEF UnregisterWatch
  <2>2. ASSUME NEW c \in Clients, NEW v \in Streams
        PROVE  (v \in watchers_[c] <=>
                  (watch[v] \in {"registered", "cancelled"} /\ watcher[v] = c))'
    <3>1. CASE v = w /\ watcher[w] = c
      BY <1>6, <3>1 DEF UnregisterWatch
    <3>2. CASE v = w /\ watcher[w] # c
      BY <1>6, <3>2 DEF UnregisterWatch
    <3>3. CASE v # w
      BY <1>6, <3>3 DEF UnregisterWatch
    <3> QED
      BY <3>1, <3>2, <3>3
  <2> QED
    BY <2>1, <2>2
<1>7. ASSUME NEW w \in Streams, WatchReturn(w)
      PROVE  RegistryInv'
  BY <1>7 DEF WatchReturn
<1>8. ASSUME NEW p \in Publishers, NEW key \in Keys, Publish(p, key)
      PROVE  RegistryInv'
  BY <1>8, AudienceType DEF Publish
<1>9. ASSUME NEW p \in Publishers, NEW w \in Streams, WriteStart(p, w)
      PROVE  RegistryInv'
  BY <1>9 DEF WriteStart
<1>10. ASSUME NEW p \in Publishers, WriteDefined(p)
       PROVE  RegistryInv'
  BY <1>10 DEF WriteDefined, WriteReturns
<1>11. ASSUME NEW p \in Publishers, WriteUndefined(p)
       PROVE  RegistryInv'
  BY <1>11 DEF WriteUndefined, WriteReturns
<1>12. ASSUME NEW p \in Publishers, PublishReturn(p)
       PROVE  RegistryInv'
  BY <1>12 DEF PublishReturn
<1>13. CASE UNCHANGED notifyVars
  BY <1>13 DEF notifyVars
<1> HIDE DEF RegistryInv, IndexInverse, WatchersLive, NotifyTypeOK,
         indexVars, watchVars, publishVars, historyVars
<1>14. ASSUME NEW c \in Clients, ClientStep(c)
       PROVE  RegistryInv'
  BY <1>1, <1>2, <1>3, <1>4, <1>14, KeyOfRequest DEF ClientStep
<1>15. ASSUME NEW w \in Streams, WatchStep(w)
       PROVE  RegistryInv'
  BY <1>5, <1>6, <1>7, <1>15 DEF WatchStep
<1>16. ASSUME NEW p \in Publishers, PublishStep(p)
       PROVE  RegistryInv'
  BY <1>8, <1>9, <1>10, <1>11, <1>12, <1>16, KeyOfRequest DEF PublishStep
<1> QED
  BY <1>13, <1>14, <1>15, <1>16 DEF NotifyNext

\* The registry's state is well typed in every reachable state.
THEOREM NotifyTypeCorrect == NotifySpec => []NotifyTypeOK
<1>1. NotifySpec => []RegistryInv
  BY RegistryInit, RegistryNext, PTL DEF NotifySpec
<1> QED
  BY <1>1, PTL DEF RegistryInv

\* subscriptions_ and client_keys_ are inverse relations at all times.
THEOREM IndexesInverse == NotifySpec => []IndexInverse
<1>1. NotifySpec => []RegistryInv
  BY RegistryInit, RegistryNext, PTL DEF NotifySpec
<1> QED
  BY <1>1, PTL DEF RegistryInv

\* The registry never holds the writer of a Watch that has unregistered, and
\* never misses one that has not.
THEOREM WatchersAlive == NotifySpec => []WatchersLive
<1>1. NotifySpec => []RegistryInv
  BY RegistryInit, RegistryNext, PTL DEF NotifySpec
<1> QED
  BY <1>1, PTL DEF RegistryInv

-----------------------------------------------------------------------------
\* Every step keeps the writes of a publisher apart: to do, doing, done.
LEMMA PublishNext ==
  ASSUME RegistryInv, PublishInv, [NotifyNext]_notifyVars
  PROVE  PublishInv'
<1> USE NotifyAssumption DEF PublishInv, PartsApart, IdleEmpty, publishVars
<1>0. NotifyTypeOK
  BY DEF RegistryInv
<1>1. ASSUME NEW c \in Clients, ClientStep(c)
      PROVE  PublishInv'
  BY Zenon, <1>1 DEF ClientStep, Subscribe, Unsubscribe, UnsubscribeAll, RegisterWatch
<1>2. ASSUME NEW w \in Streams, WatchStep(w)
      PROVE  PublishInv'
  BY <1>2 DEF WatchStep, Cancel, UnregisterWatch, WatchReturn
<1>3. ASSUME NEW p \in Publishers, NEW key \in Keys, Publish(p, key)
      PROVE  PublishInv'
  BY <1>0, <1>3 DEF Publish, NotifyTypeOK
<1>4. ASSUME NEW p \in Publishers, NEW w \in Streams, WriteStart(p, w)
      PROVE  PublishInv'
  BY <1>0, <1>4 DEF WriteStart, NotifyTypeOK
<1>5. ASSUME NEW p \in Publishers, NEW ok \in BOOLEAN, NEW got \in BOOLEAN,
             writing[p] # NoStream, WriteReturns(p, ok, got)
      PROVE  PublishInv'
  BY <1>0, <1>5 DEF WriteReturns, NotifyTypeOK
<1>6. ASSUME NEW p \in Publishers, PublishReturn(p)
      PROVE  PublishInv'
  BY <1>0, <1>6 DEF PublishReturn, Returning, NotifyTypeOK
<1>7. CASE UNCHANGED notifyVars
  BY <1>7 DEF notifyVars
<1> HIDE DEF PublishInv, PartsApart, IdleEmpty, publishVars
<1>8. ASSUME NEW p \in Publishers, PublishStep(p)
      PROVE  PublishInv'
  BY <1>3, <1>4, <1>5, <1>6, <1>8, KeyOfRequest
     DEF PublishStep, WriteDefined, WriteUndefined
<1> QED
  BY <1>1, <1>2, <1>7, <1>8 DEF NotifyNext

\* No publisher holds anything at first.
LEMMA PublishInit == NotifyInit => PublishInv
BY DEF NotifyInit, PublishInv, PartsApart, IdleEmpty

-----------------------------------------------------------------------------
\* A stream is owed a message only while its call is open; an undisturbed
\* publisher has counted what was accepted and still means to write to the rest.
HonestFor(p) ==
    /\ \A w \in owed[p] : watch[w] = "registered"
    /\ IsFiniteSet(accepted[p])
    /\ Undisturbed(p) => /\ delivered[p] = Cardinality(accepted[p])
                         /\ owed[p] \subseteq accepted[p] \cup Pending(p)

HonestInv == \A p \in Publishers : HonestFor(p)

\* Nothing is owed, counted or accepted at first.
LEMMA HonestInit == NotifyInit => HonestInv
BY FS_EmptySet DEF NotifyInit, HonestInv, HonestFor

\* Every step keeps the count and the debts of the undisturbed publishers right.
LEMMA HonestNext ==
  ASSUME RegistryInv, PublishInv, HonestInv, [NotifyNext]_notifyVars
  PROVE  HonestInv'
<1> USE NotifyAssumption DEF HonestInv, HonestFor, Undisturbed, Pending, publishVars, historyVars
<1>0. NotifyTypeOK /\ PartsApart /\ IdleEmpty
  BY DEF RegistryInv, PublishInv
<1>1. ASSUME NEW c \in Clients, ClientStep(c)
      PROVE  HonestInv'
  <2>1. CASE UNCHANGED <<watchVars, publishVars, historyVars>>
    BY <2>1 DEF watchVars
  <2>2. ASSUME NEW w \in Streams, RegisterWatch(c, w)
        PROVE  HonestInv'
    BY <1>0, <2>2 DEF RegisterWatch, NotifyTypeOK
  <2> QED
    BY Zenon, <1>1, <2>1, <2>2 DEF ClientStep, Subscribe, Unsubscribe, UnsubscribeAll
<1>2. ASSUME NEW w \in Streams, WatchStep(w)
      PROVE  HonestInv'
  <2>1. CASE Cancel(w)
    BY <1>0, <2>1 DEF Cancel, NotifyTypeOK
  <2>2. CASE UnregisterWatch(w)
    BY <1>0, <2>2 DEF UnregisterWatch, NotifyTypeOK
  <2>3. CASE WatchReturn(w)
    BY <1>0, <2>3 DEF WatchReturn, NotifyTypeOK
  <2> QED
    BY <1>2, <2>1, <2>2, <2>3 DEF WatchStep
<1>3. ASSUME NEW p \in Publishers, NEW key \in Keys, Publish(p, key)
      PROVE  HonestInv'
  BY <1>0, <1>3 DEF Publish, IdleEmpty, watchVars, NotifyTypeOK
<1>4. ASSUME NEW p \in Publishers, NEW w \in Streams, WriteStart(p, w)
      PROVE  HonestInv'
  <2> SUFFICES ASSUME NEW q \in Publishers
               PROVE  HonestFor(q)'
    OBVIOUS
  <2>1. raced \subseteq raced'
    BY <1>4 DEF WriteStart
  <2>2. UNCHANGED <<owed, watch, accepted, delivered>>
    BY <1>4 DEF WriteStart, watchVars
  <2>3. Pending(q) \subseteq Pending(q)'
    BY <1>0, <1>4 DEF WriteStart, NotifyTypeOK
  <2> QED
    BY <2>1, <2>2, <2>3
<1>5. ASSUME NEW p \in Publishers, WriteDefined(p)
      PROVE  HonestInv'
  <2>1. PICK ok \in BOOLEAN :
             (watch[writing[p]] = "registered" => ok) /\ WriteReturns(p, ok, ok)
    BY <1>5 DEF WriteDefined
  <2>2. writing[p] \in Streams \ accepted[p]
    BY <1>0, <1>5 DEF WriteDefined, PartsApart, NotifyTypeOK
  <2>3. /\ IsFiniteSet(accepted[p] \cup {writing[p]})
        /\ Cardinality(accepted[p] \cup {writing[p]}) = Cardinality(accepted[p]) + 1
    BY Zenon, <2>2, FS_AddElement
  <2> QED
    BY SMTT(30), <1>0, <2>1, <2>2, <2>3 DEF WriteReturns, watchVars, NotifyTypeOK
<1>6. ASSUME NEW p \in Publishers, WriteUndefined(p)
      PROVE  HonestInv'
  <2>1. PICK ok \in BOOLEAN, got \in BOOLEAN : WriteReturns(p, ok, got)
    BY <1>6 DEF WriteUndefined
  <2>2. writing[p] \in Streams /\ <<p, writing[p]>> \in raced
    BY <1>0, <1>6 DEF WriteUndefined, NotifyTypeOK
  <2>3. IsFiniteSet(accepted[p] \cup {writing[p]})
    BY Zenon, FS_AddElement
  <2>4. ~Undisturbed(p)'
    BY <2>1, <2>2 DEF WriteReturns
  <2>5. HonestFor(p)'
    BY <1>0, <2>1, <2>3, <2>4 DEF WriteReturns, watchVars, NotifyTypeOK
  <2>6. ASSUME NEW q \in Publishers, q # p
        PROVE  HonestFor(q)'
    BY SMTT(30), <1>0, <2>1, <2>6 DEF WriteReturns, watchVars, NotifyTypeOK
  <2> QED
    BY <2>5, <2>6
<1>7. ASSUME NEW p \in Publishers, PublishReturn(p)
      PROVE  HonestInv'
  <2> SUFFICES ASSUME NEW q \in Publishers
               PROVE  HonestFor(q)'
    OBVIOUS
  <2>1. CASE q = p
    BY <1>0, <1>7, <2>1, FS_EmptySet DEF PublishReturn, Returning, watchVars, NotifyTypeOK
  <2>2. CASE q # p
    BY <1>0, <1>7, <2>2 DEF PublishReturn, Returning, watchVars, NotifyTypeOK
  <2> QED
    BY <2>1, <2>2
<1>8. CASE UNCHANGED notifyVars
  BY <1>8 DEF notifyVars, watchVars
<1> HIDE DEF HonestInv, HonestFor, Undisturbed, Pending, publishVars, historyVars
<1>9. ASSUME NEW p \in Publishers, PublishStep(p)
      PROVE  HonestInv'
  BY <1>3, <1>4, <1>5, <1>6, <1>7, <1>9, KeyOfRequest DEF PublishStep
<1> QED
  BY <1>1, <1>2, <1>8, <1>9 DEF NotifyNext

\* An undisturbed Publish returns the number of streams that took the message,
\* and leaves out no stream that stayed open.
THEOREM PublishesHonestly == NotifySpec => []PublishHonest
<1>1. NotifySpec => []RegistryInv
  BY RegistryInit, RegistryNext, PTL DEF NotifySpec
<1>2. NotifySpec => []PublishInv
  BY <1>1, PublishInit, PublishNext, PTL DEF NotifySpec
<1>3. NotifySpec => []HonestInv
  BY <1>1, <1>2, HonestInit, HonestNext, PTL DEF NotifySpec
<1>4. HonestInv => PublishHonest
  BY DEF HonestInv, HonestFor, PublishHonest, Returning, Pending
<1> QED
  BY <1>3, <1>4, PTL

-----------------------------------------------------------------------------
\* A name without colons, a colon and any name: the parts can be read back.
LEMMA GlueInjective ==
  ASSUME NEW s \in Seq(Token), NEW t \in Seq(Token),
         NEW c \in Seq(Token), NEW d \in Seq(Token),
         \A i \in 1..Len(s) : s[i] # Colon,
         \A i \in 1..Len(t) : t[i] # Colon,
         s \o <<Colon>> \o c = t \o <<Colon>> \o d
  PROVE  s = t /\ c = d
<1> USE NotifyAssumption
<1> DEFINE k == s \o <<Colon>> \o c
<1>0. k = t \o <<Colon>> \o d
  BY Zenon
<1>1. /\ Len(k) = Len(s) + 1 + Len(c)
      /\ \A i \in 1..Len(s) : k[i] = s[i]
      /\ k[Len(s) + 1] = Colon
      /\ \A i \in 1..Len(c) : k[Len(s) + 1 + i] = c[i]
  OBVIOUS
<1>2. /\ Len(k) = Len(t) + 1 + Len(d)
      /\ \A i \in 1..Len(t) : k[i] = t[i]
      /\ k[Len(t) + 1] = Colon
      /\ \A i \in 1..Len(d) : k[Len(t) + 1 + i] = d[i]
  <2> HIDE DEF k
  <2> QED
    BY <1>0
<1> HIDE DEF k
<1>3. Len(s) \in Nat /\ Len(t) \in Nat /\ Len(c) \in Nat /\ Len(d) \in Nat
  OBVIOUS
<1>4. ~(Len(s) < Len(t))
  <2>1. SUFFICES ASSUME Len(s) < Len(t) PROVE FALSE
    OBVIOUS
  <2>2. Len(s) + 1 \in 1..Len(t)
    BY <1>3, <2>1
  <2> QED
    BY Zenon, <1>1, <1>2, <2>2
<1>5. ~(Len(t) < Len(s))
  <2>1. SUFFICES ASSUME Len(t) < Len(s) PROVE FALSE
    OBVIOUS
  <2>2. Len(t) + 1 \in 1..Len(s)
    BY <1>3, <2>1
  <2> QED
    BY Zenon, <1>1, <1>2, <2>2
<1>6. Len(s) = Len(t) /\ Len(c) = Len(d)
  BY <1>1, <1>2, <1>3, <1>4, <1>5
<1>7. s = t
  BY <1>1, <1>2, <1>6, SeqEqual
<1>8. c = d
  BY <1>1, <1>2, <1>6, SeqEqual
<1> QED
  BY <1>7, <1>8

\* The parts of a topic.
LEMMA TopicParts ==
  ASSUME NEW t \in Topics
  PROVE  /\ t = <<t[1], t[2]>>
         /\ t[1] \in (Scopes \cup {Global}) \cap Seq(Token)
         /\ t[2] \in Channels /\ t[2] \in Seq(Token)
         /\ TopicKey(t) \in Keys
<1>1. PICK sc \in Scopes, ch \in Channels : t = <<NormalizeTidScope(sc), ch>>
  BY DEF Topics
<1>2. NormalizeTidScope(sc) \in Scopes \cup {Global}
  BY DEF NormalizeTidScope
<1>3. TopicKey(t) = ChannelKey(ch, sc)
  BY <1>1 DEF TopicKey, ChannelKey
<1>4. TopicKey(t) \in Keys
  BY <1>3 DEF Keys
<1> QED
  BY <1>1, <1>2, <1>4, NotifyAssumption

\* The topic a request is about.
LEMMA TopicOfRequest ==
  ASSUME NEW ch \in Channels, NEW sc \in Scopes
  PROVE  /\ <<NormalizeTidScope(sc), ch>> \in Topics
         /\ TopicKey(<<NormalizeTidScope(sc), ch>>) = ChannelKey(ch, sc)
BY DEF Topics, TopicKey, ChannelKey

\* Two topics never share a key: ChannelKey keeps tenants' scopes apart as long
\* as no scope contains the separator.
THEOREM TopicsHaveTheirOwnKey ==
  ASSUME ScopesPlain, NEW t \in Topics, NEW u \in Topics, TopicKey(t) = TopicKey(u)
  PROVE  t = u
<1>1. /\ t[1] \in Seq(Token) /\ t[2] \in Seq(Token)
      /\ u[1] \in Seq(Token) /\ u[2] \in Seq(Token)
  BY TopicParts
<1>2. /\ \A i \in 1..Len(t[1]) : t[1][i] # Colon
      /\ \A i \in 1..Len(u[1]) : u[1][i] # Colon
  BY TopicParts DEF ScopesPlain
<1>3. t[1] \o <<Colon>> \o t[2] = u[1] \o <<Colon>> \o u[2]
  BY Zenon DEF TopicKey
<1>4. t[1] = u[1] /\ t[2] = u[2]
  <2>1. PICK s \in Seq(Token), r \in Seq(Token), c \in Seq(Token), d \in Seq(Token) :
             s = t[1] /\ r = u[1] /\ c = t[2] /\ d = u[2]
    BY <1>1
  <2>2. s \o <<Colon>> \o c = r \o <<Colon>> \o d
    BY Zenon, <1>3, <2>1
  <2>3. /\ \A i \in 1..Len(s) : s[i] # Colon
        /\ \A i \in 1..Len(r) : r[i] # Colon
    BY <1>2, <2>1
  <2>4. s = r /\ c = d
    BY Zenon, <2>2, <2>3, GlueInjective
  <2> QED
    BY <2>1, <2>4
<1> QED
  BY <1>4, TopicParts

-----------------------------------------------------------------------------
\* Subscribing to the key of a topic adds one pair, unsubscribing removes one.
LEMMA SubscribeStep ==
  ASSUME ScopesPlain, NotifyTypeOK, NEW c \in Clients, NEW topic \in Topics
  PROVE  /\ Subscribe(c, TopicKey(topic)) => Abstract!Subscribe(c, topic)
         /\ Unsubscribe(c, TopicKey(topic)) => Abstract!Unsubscribe(c, topic)
<1> USE DEF SubscriptionPairs, NotifyTypeOK
<1>1. ASSUME Subscribe(c, TopicKey(topic))
      PROVE  Abstract!Subscribe(c, topic)
  <2>1. UNCHANGED <<WatchPairs, snapshot, DefinedWrites>>
    BY <1>1 DEF Subscribe, WatchPairs, DefinedWrites, watchVars, publishVars, historyVars
  <2>2. ASSUME NEW d \in Clients, NEW t \in Topics
        PROVE  (d \in subscriptions_[TopicKey(t)])' <=>
                 (d \in subscriptions_[TopicKey(t)] \/ (d = c /\ t = topic))
    BY <1>1, TopicParts, TopicsHaveTheirOwnKey DEF Subscribe
  <2>3. SubscriptionPairs' = SubscriptionPairs \cup {<<c, topic>>}
    BY <2>2
  <2> QED
    BY <2>1, <2>3 DEF Abstract!Subscribe
<1>2. ASSUME Unsubscribe(c, TopicKey(topic))
      PROVE  Abstract!Unsubscribe(c, topic)
  <2>1. UNCHANGED <<WatchPairs, snapshot, DefinedWrites>>
    BY <1>2 DEF Unsubscribe, WatchPairs, DefinedWrites, watchVars, publishVars, historyVars
  <2>2. ASSUME NEW d \in Clients, NEW t \in Topics
        PROVE  (d \in subscriptions_[TopicKey(t)])' <=>
                 (d \in subscriptions_[TopicKey(t)] /\ ~(d = c /\ t = topic))
    BY <1>2, TopicParts, TopicsHaveTheirOwnKey DEF Unsubscribe, RemoveClientFromKeys
  <2>3. SubscriptionPairs' = SubscriptionPairs \ {<<c, topic>>}
    BY <2>2
  <2> QED
    BY <2>1, <2>3 DEF Abstract!Unsubscribe
<1> QED
  BY <1>1, <1>2

\* UnsubscribeAll, which goes through client_keys_, removes all of the client's
\* pairs and no other.
LEMMA UnsubscribeAllStep ==
  ASSUME NotifyTypeOK, IndexInverse, NEW c \in Clients, UnsubscribeAll(c)
  PROVE  Abstract!UnsubscribeAll(c)
<1>1. UNCHANGED <<WatchPairs, snapshot, DefinedWrites>>
  BY DEF UnsubscribeAll, WatchPairs, DefinedWrites, watchVars, publishVars, historyVars
<1>2. ASSUME NEW d \in Clients, NEW t \in Topics
      PROVE  (d \in subscriptions_[TopicKey(t)])' <=>
               (d \in subscriptions_[TopicKey(t)] /\ d # c)
  BY TopicParts
     DEF UnsubscribeAll, RemoveClientFromKeys, IndexInverse, NotifyTypeOK
<1>3. SubscriptionPairs' = SubscriptionPairs \ ({c} \X Topics)
  BY <1>2 DEF SubscriptionPairs
<1> QED
  BY <1>1, <1>3 DEF Abstract!UnsubscribeAll

\* Registering and unregistering a writer opens and closes an abstract watch.
LEMMA WatchSteps ==
  ASSUME RegistryInv, NEW c \in Clients, NEW w \in Streams
  PROVE  /\ RegisterWatch(c, w) => Abstract!OpenWatch(c, w)
         /\ UnregisterWatch(w) /\ watcher[w] = c => Abstract!CloseWatch(c, w)
<1> USE DEF RegistryInv, NotifyTypeOK, indexVars, publishVars
<1>1. ASSUME RegisterWatch(c, w)
      PROVE  Abstract!OpenWatch(c, w)
  <2>1. UNCHANGED <<SubscriptionPairs, snapshot, DefinedWrites>>
    BY <1>1 DEF RegisterWatch, SubscriptionPairs, DefinedWrites, historyVars
  <2>2. \A d \in Clients : <<d, w>> \notin WatchPairs
    BY SMTT(30), <1>1 DEF RegisterWatch, WatchersLive, WatchPairs
  <2>3. WatchPairs' = WatchPairs \cup {<<c, w>>}
    BY <1>1 DEF RegisterWatch, WatchPairs
  <2> QED
    BY <2>1, <2>2, <2>3 DEF Abstract!OpenWatch
<1>2. ASSUME UnregisterWatch(w), watcher[w] = c
      PROVE  Abstract!CloseWatch(c, w)
  <2>1. UNCHANGED <<SubscriptionPairs, snapshot, DefinedWrites>>
    BY <1>2 DEF UnregisterWatch, SubscriptionPairs, DefinedWrites, historyVars
  <2>2. WatchPairs' = WatchPairs \ {<<c, w>>}
    BY <1>2 DEF UnregisterWatch, WatchPairs
  <2> QED
    BY <2>1, <2>2 DEF Abstract!CloseWatch
<1> QED
  BY <1>1, <1>2

\* Publish fixes the abstract audience, a defined Write is a delivery to one of
\* its members, the return ends the publication; the rest is not visible.
LEMMA PublishSteps ==
  ASSUME RegistryInv, PublishInv, NEW p \in Publishers
  PROVE  /\ \A topic \in Topics : Publish(p, TopicKey(topic)) => Abstract!Publish(p, topic)
         /\ \A w \in Streams : WriteStart(p, w) => UNCHANGED Abstract!abstractVars
         /\ WriteDefined(p) => \/ \E w \in Streams : Abstract!Deliver(p, w)
                               \/ UNCHANGED Abstract!abstractVars
         /\ WriteUndefined(p) => UNCHANGED Abstract!abstractVars
         /\ PublishReturn(p) => Abstract!Return(p)
<1> USE DEF RegistryInv, NotifyTypeOK, indexVars, watchVars, PublishInv
<1>1. ASSUME NEW topic \in Topics, Publish(p, TopicKey(topic))
      PROVE  Abstract!Publish(p, topic)
  <2>1. UNCHANGED <<SubscriptionPairs, WatchPairs, DefinedWrites>>
    BY <1>1 DEF Publish, SubscriptionPairs, WatchPairs, DefinedWrites
  <2>2. AudienceWriters(TopicKey(topic)) = Abstract!AudienceOf(topic)
    <3>1. TopicKey(topic) \in Keys
      BY TopicParts
    <3>2. ASSUME NEW c \in Clients, NEW w \in Streams
          PROVE  /\ <<c, w>> \in WatchPairs <=> w \in watchers_[c]
                 /\ <<c, topic>> \in SubscriptionPairs <=>
                      c \in subscriptions_[TopicKey(topic)]
      BY DEF SubscriptionPairs, WatchPairs
    <3>3. ASSUME NEW w
          PROVE  w \in AudienceWriters(TopicKey(topic)) <=>
                   \E c \in Clients : /\ w \in watchers_[c]
                                     /\ c \in subscriptions_[TopicKey(topic)]
      BY <3>1 DEF AudienceWriters
    <3>4. AudienceWriters(TopicKey(topic)) \subseteq Streams
      BY <3>1, AudienceType
    <3> QED
      BY Zenon, <3>2, <3>3, <3>4 DEF Abstract!AudienceOf
  <2>3. DefinedWrites[p] = {}
    BY <1>1 DEF Publish, DefinedWrites, IdleEmpty
  <2>4. snapshot' = [snapshot EXCEPT ![p] = AudienceWriters(TopicKey(topic))]
    BY <1>1 DEF Publish
  <2> QED
    BY <2>1, <2>2, <2>3, <2>4 DEF Abstract!Publish
<1>2. ASSUME NEW w \in Streams, WriteStart(p, w)
      PROVE  UNCHANGED Abstract!abstractVars
  <2>1. UNCHANGED <<SubscriptionPairs, WatchPairs, snapshot, accepted>>
    BY <1>2 DEF WriteStart, SubscriptionPairs, WatchPairs
  <2>2. ASSUME NEW q \in Publishers, NEW v \in accepted[q]
        PROVE  <<q, v>> \in raced' <=> <<q, v>> \in raced
    <3>1. <<q, v>> \in raced' => <<q, v>> \in raced \/ (v = w /\ (q = p \/ writing[q] = w))
      BY <1>2 DEF WriteStart
    <3>2. raced \subseteq raced'
      BY <1>2 DEF WriteStart
    <3>3. w \in targets[p]
      BY <1>2 DEF WriteStart
    <3> QED
      BY <2>2, <3>1, <3>2, <3>3, NotifyAssumption DEF PartsApart
  <2>3. UNCHANGED DefinedWrites
    BY <2>1, <2>2 DEF DefinedWrites
  <2> QED
    BY <2>1, <2>3 DEF Abstract!abstractVars
<1>3. ASSUME WriteDefined(p)
      PROVE  \/ \E w \in Streams : Abstract!Deliver(p, w)
             \/ UNCHANGED Abstract!abstractVars
  <2>1. PICK ok \in BOOLEAN : WriteReturns(p, ok, ok)
    BY <1>3 DEF WriteDefined
  <2>2. UNCHANGED <<SubscriptionPairs, WatchPairs, snapshot, raced>>
    BY <2>1 DEF WriteReturns, SubscriptionPairs, WatchPairs, historyVars
  <2>3. CASE ok
    <3> DEFINE w == writing[p]
    <3>1. w \in Streams /\ w \in snapshot[p] \ accepted[p] /\ <<p, w>> \notin raced
      BY <1>3 DEF WriteDefined, PartsApart
    <3>2. accepted' = [accepted EXCEPT ![p] = @ \cup {w}]
      BY <2>1, <2>3 DEF WriteReturns
    <3> HIDE DEF w
    <3>3. DefinedWrites' = [DefinedWrites EXCEPT ![p] = @ \cup {w}]
      BY Zenon, <2>2, <3>1, <3>2 DEF DefinedWrites
    <3>4. w \in snapshot[p] \ DefinedWrites[p]
      BY <3>1 DEF DefinedWrites
    <3> QED
      BY Zenon, <2>2, <3>1, <3>3, <3>4 DEF Abstract!Deliver
  <2>4. CASE ~ok
    <3>1. accepted' = accepted
      BY <2>1, <2>4 DEF WriteReturns
    <3> QED
      BY <2>2, <3>1 DEF DefinedWrites, Abstract!abstractVars
  <2> QED
    BY <2>3, <2>4
<1>4. ASSUME WriteUndefined(p)
      PROVE  UNCHANGED Abstract!abstractVars
  <2>1. PICK ok \in BOOLEAN, got \in BOOLEAN : WriteReturns(p, ok, got)
    BY <1>4 DEF WriteUndefined
  <2>2. UNCHANGED <<SubscriptionPairs, WatchPairs, snapshot, raced>>
    BY <2>1 DEF WriteReturns, SubscriptionPairs, WatchPairs, historyVars
  <2>3. ASSUME NEW q \in Publishers
        PROVE  {w \in accepted'[q] : <<q, w>> \notin raced} =
                 {w \in accepted[q] : <<q, w>> \notin raced}
    BY Zenon, <1>4, <2>1 DEF WriteUndefined, WriteReturns
  <2>4. UNCHANGED DefinedWrites
    BY <2>2, <2>3 DEF DefinedWrites
  <2> QED
    BY <2>2, <2>4 DEF Abstract!abstractVars
<1>5. ASSUME PublishReturn(p)
      PROVE  Abstract!Return(p)
  <2>1. UNCHANGED <<SubscriptionPairs, WatchPairs>>
    BY <1>5 DEF PublishReturn, SubscriptionPairs, WatchPairs
  <2>2. DefinedWrites' = [DefinedWrites EXCEPT ![p] = {}]
    BY Zenon, <1>5 DEF PublishReturn, DefinedWrites
  <2>3. snapshot' = [snapshot EXCEPT ![p] = {}]
    BY <1>5 DEF PublishReturn
  <2> QED
    BY <2>1, <2>2, <2>3 DEF Abstract!Return
<1> QED
  BY <1>1, <1>2, <1>3, <1>4, <1>5

\* The empty registry is the empty PubSub.
LEMMA AbstractInit == NotifyInit => Abstract!Init
<1> SUFFICES ASSUME NotifyInit PROVE Abstract!Init
  OBVIOUS
<1>1. SubscriptionPairs = {}
  BY TopicParts DEF NotifyInit, SubscriptionPairs
<1>2. WatchPairs = {}
  BY DEF NotifyInit, WatchPairs
<1>3. DefinedWrites = [p \in Publishers |-> {}]
  BY DEF NotifyInit, DefinedWrites
<1>4. snapshot = [p \in Publishers |-> {}]
  BY DEF NotifyInit
<1> QED
  BY <1>1, <1>2, <1>3, <1>4 DEF Abstract!Init

\* Every step of the registry is a step of PubSub or leaves it unchanged.
LEMMA AbstractNext ==
  ASSUME ScopesPlain, RegistryInv, PublishInv, [NotifyNext]_notifyVars
  PROVE  [Abstract!Next]_(Abstract!abstractVars)
<1>0. NotifyTypeOK /\ IndexInverse
  BY DEF RegistryInv
<1>1. ASSUME NEW c \in Clients, ClientStep(c)
      PROVE  Abstract!Next
  BY Zenon, <1>0, <1>1, SubscribeStep, UnsubscribeAllStep, WatchSteps, TopicOfRequest
     DEF ClientStep, Abstract!Next
<1>2. ASSUME NEW w \in Streams, WatchStep(w)
      PROVE  [Abstract!Next]_(Abstract!abstractVars)
  <2>1. CASE UnregisterWatch(w) /\ watcher[w] \in Clients
    BY <2>1, WatchSteps DEF Abstract!Next
  <2>2. CASE UnregisterWatch(w) /\ watcher[w] \notin Clients
    <3>1. UNCHANGED watchers_
      BY <1>0, <2>2 DEF UnregisterWatch, NotifyTypeOK
    <3> QED
      BY <2>2, <3>1
         DEF UnregisterWatch, SubscriptionPairs, WatchPairs, DefinedWrites, indexVars,
             publishVars, historyVars, Abstract!abstractVars
  <2>3. CASE Cancel(w)
    BY <2>3 DEF Cancel, SubscriptionPairs, WatchPairs, DefinedWrites, indexVars,
                publishVars, Abstract!abstractVars
  <2>4. CASE WatchReturn(w)
    <3>1. UNCHANGED <<SubscriptionPairs, WatchPairs, snapshot, accepted>>
      BY <2>4 DEF WatchReturn, SubscriptionPairs, WatchPairs, indexVars, publishVars
    <3>2. ASSUME NEW p \in Publishers, NEW v \in accepted[p]
          PROVE  <<p, v>> \in raced' <=> <<p, v>> \in raced
      BY <2>4, <3>2 DEF WatchReturn, Pending, PublishInv, PartsApart
    <3> QED
      BY <3>1, <3>2 DEF DefinedWrites, Abstract!abstractVars
  <2> QED
    BY <1>2, <2>1, <2>2, <2>3, <2>4 DEF WatchStep
<1>3. ASSUME NEW p \in Publishers, PublishStep(p)
      PROVE  [Abstract!Next]_(Abstract!abstractVars)
  BY Zenon, <1>3, PublishSteps, TopicOfRequest DEF PublishStep, Abstract!Next
<1>4. CASE UNCHANGED notifyVars
  BY <1>4 DEF notifyVars, indexVars, watchVars, publishVars, historyVars, SubscriptionPairs,
              WatchPairs, DefinedWrites, Abstract!abstractVars
<1> QED
  BY <1>1, <1>2, <1>3, <1>4 DEF NotifyNext

\* The notify coordinator implements PubSub, for any clients, channels, streams
\* and publishers, when no tenant scope contains a colon.
THEOREM RegistryImplementsPubSub ==
  ASSUME ScopesPlain
  PROVE  NotifySpec => ImplementsPubSub
<1>1. NotifySpec => []RegistryInv
  BY RegistryInit, RegistryNext, PTL DEF NotifySpec
<1>2. NotifySpec => []PublishInv
  BY <1>1, PublishInit, PublishNext, PTL DEF NotifySpec
<1>3. RegistryInv /\ PublishInv /\ [NotifyNext]_notifyVars
        => [Abstract!Next]_(Abstract!abstractVars)
  BY AbstractNext
<1> QED
  BY <1>1, <1>2, <1>3, AbstractInit, PTL DEF NotifySpec, ImplementsPubSub, Abstract!Spec
=============================================================================
