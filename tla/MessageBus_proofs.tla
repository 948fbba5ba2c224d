------------------------- MODULE MessageBus_proofs -------------------------
(***************************************************************************)
(* Safety of the message bus for any topics, services, publishers and any  *)
(* number of subscriptions.                                                *)
(*                                                                         *)
(* TableInv is what makes the two index tables one relation: an id stands  *)
(* for one topic, ids are below the next one, and a subscription is the    *)
(* one its service remembers.  IndexesAgree and NoOrphanSubscription need  *)
(* each other: that a service's stale id names nobody else's subscription  *)
(* rests on fresh ids, and that attaching leaves nothing behind rests on   *)
(* the reverse index finding the old subscription.  SnapshotInv counts in  *)
(* one publish(): of the storage's callback at most one is still to come,  *)
(* because a topic holds at most one subscription of a service.            *)
(***************************************************************************)
EXTENDS MessageBus, FiniteSetTheorems, TLAPS

\* The two tables and the services' ids.
Indexed ==
    \A t \in Topics : \A sub \in subscribers[t] :
        [id |-> sub.id, topic |-> t] \in subscriptionTopics
Listed ==
    \A e \in subscriptionTopics : \E sub \in subscribers[e.topic] : sub.id = e.id
OneTopicPerId ==
    \A e1, e2 \in subscriptionTopics : e1.id = e2.id => e1 = e2
IdsAreOld ==
    /\ \A e \in subscriptionTopics : e.id < nextSubscriptionId
    /\ \A s \in Services : subscriptionId[s] < nextSubscriptionId
AttachingIsDetached ==
    \A s \in Services : attaching[s] # NoTopic => subscriptionId[s] = 0

TableInv ==
    /\ TypeOK /\ Indexed /\ Listed /\ OneTopicPerId /\ IdsAreOld
    /\ AttachingIsDetached /\ NoOrphanSubscription

\* One publish(): the storage's subscriptions that wait, and its balance.
Waiting(q) == Of(Storage, q.left \union q.calling)
Balanced(q) ==
    /\ q.topic = NoTopic => q.left = {} /\ q.calling = {}
    /\ q.left \intersect q.calling = {}
    /\ \/ Waiting(q) = {} /\ q.stored + q.missed = q.expected
       \/ \E sub : Waiting(q) = {sub} /\ q.stored + q.missed + 1 = q.expected

SnapshotInv == \A p \in Publishers : Balanced(pub[p])

IndInv == TableInv /\ SnapshotInv

-----------------------------------------------------------------------------
(* What the operations of the bus do to the tables.                        *)

TableTypes ==
    /\ nextSubscriptionId \in Ids
    /\ subscribers \in [Topics -> SUBSET Subscriptions]
    /\ subscriptionTopics \subseteq [id : Ids, topic : Topics]

\* unsubscribe(id) takes every trace of the id out of both tables and leaves the
\* rest.
LEMMA UnsubscribeRemoves ==
    ASSUME TableTypes, Indexed, OneTopicPerId, NEW i \in Nat, Unsubscribe(i)
    PROVE  /\ TableTypes'
           /\ nextSubscriptionId' = nextSubscriptionId
           /\ \A t \in Topics :
                 subscribers'[t] = {sub \in subscribers[t] : sub.id # i}
           /\ subscriptionTopics' = {e \in subscriptionTopics : e.id # i}
<1> USE DEF Unsubscribe, EraseTopic, TableTypes
<1>1. \A t \in Topics : [id |-> i, topic |-> t] \notin subscriptionTopics
        => \A sub \in subscribers[t] : sub.id # i
  BY DEF Indexed
<1>2. \A t \in Topics :
        subscribers'[t] = {sub \in subscribers[t] : sub.id # i}
  <2> TAKE t \in Topics
  <2>1. CASE [id |-> i, topic |-> t] \in subscriptionTopics
    BY <2>1
  <2>2. CASE [id |-> i, topic |-> t] \notin subscriptionTopics
    <3>1. subscribers'[t] = subscribers[t]
      BY <2>2
    <3>2. \A sub \in subscribers[t] : sub.id # i
      BY <1>1, <2>2
    <3> QED BY <3>1, <3>2
  <2> QED BY <2>1, <2>2
<1>3. TableTypes'
  <2>1. subscribers' \in [Topics -> SUBSET Subscriptions]
    BY <1>2
  <2> QED BY <2>1
<1> QED BY <1>2, <1>3

\* detachMessageBus() leaves the tables without the service's subscription.
LEMMA DropLeavesNothing ==
    ASSUME TableInv, NEW s \in Services, DropSubscription(s)
    PROVE  /\ TableTypes' /\ nextSubscriptionId' = nextSubscriptionId
           /\ \A t \in Topics : subscribers'[t] =
                 {sub \in subscribers[t] : sub.callback # s}
           /\ subscriptionTopics' =
                 {e \in subscriptionTopics : e.id # subscriptionId[s]}
<1> USE DEF TableInv, TypeOK, TableTypes
<1>1. ASSUME NEW t \in Topics, NEW sub \in subscribers[t]
      PROVE  /\ sub.id \in Ids /\ sub.callback \in Services
             /\ sub.id = subscriptionId[s] <=> sub.callback = s
  BY <1>1 DEF NoOrphanSubscription, Subscriptions, Ids
<1>2. CASE subscriptionId[s] # 0
  <2>1. Unsubscribe(subscriptionId[s]) /\ subscriptionId[s] \in Nat
    BY <1>2 DEF DropSubscription
  <2>2. /\ TableTypes'
        /\ nextSubscriptionId' = nextSubscriptionId
        /\ \A t \in Topics : subscribers'[t] =
              {sub \in subscribers[t] : sub.id # subscriptionId[s]}
        /\ subscriptionTopics' =
              {e \in subscriptionTopics : e.id # subscriptionId[s]}
    BY <2>1, UnsubscribeRemoves
  <2> QED BY <1>1, <2>2
<1>3. CASE subscriptionId[s] = 0
  <2>1. UNCHANGED table
    BY <1>3 DEF DropSubscription
  <2>2. \A t \in Topics : \A sub \in subscribers[t] : sub.callback # s
    BY <1>1, <1>3 DEF Ids
  <2>3. \A e \in subscriptionTopics : e.id # 0
    BY DEF Ids
  <2>4. \A t \in Topics : subscribers'[t] =
           {sub \in subscribers[t] : sub.callback # s}
    BY <2>1, <2>2 DEF table
  <2>5. subscriptionTopics' =
           {e \in subscriptionTopics : e.id # subscriptionId[s]}
    BY <2>1, <2>3, <1>3 DEF table
  <2> QED BY <2>1, <2>4, <2>5 DEF table
<1> QED BY <1>2, <1>3

-----------------------------------------------------------------------------
(* The tables.                                                             *)

\* detachMessageBus() keeps both tables in agreement.
LEMMA DetachKeeps ==
    ASSUME TableInv, NEW s \in Services, DropSubscription(s),
           subscriptionId' = [subscriptionId EXCEPT ![s] = 0]
    PROVE  Indexed' /\ Listed' /\ OneTopicPerId' /\ IdsAreOld'
           /\ NoOrphanSubscription'
<1>1. /\ nextSubscriptionId' = nextSubscriptionId
      /\ \A t \in Topics : subscribers'[t] =
            {sub \in subscribers[t] : sub.callback # s}
      /\ subscriptionTopics' =
            {e \in subscriptionTopics : e.id # subscriptionId[s]}
  BY DropLeavesNothing
<1> USE DEF TableInv, TypeOK
<1>2. ASSUME NEW t \in Topics, NEW sub \in subscribers[t]
      PROVE  /\ sub.callback \in Services
             /\ sub.id = subscriptionId[s] <=> sub.callback = s
  BY <1>2 DEF NoOrphanSubscription, Subscriptions, Ids
<1>3. Indexed'
  <2> SUFFICES ASSUME NEW t \in Topics, NEW sub \in subscribers'[t]
               PROVE  [id |-> sub.id, topic |-> t] \in subscriptionTopics'
    BY DEF Indexed
  <2>1. sub \in subscribers[t] /\ sub.callback # s
    BY <1>1
  <2>2. sub.id # subscriptionId[s]
    BY <1>2, <2>1
  <2>3. [id |-> sub.id, topic |-> t] \in subscriptionTopics
    BY <2>1 DEF Indexed
  <2> QED BY <1>1, <2>2, <2>3
<1>4. Listed'
  <2> SUFFICES ASSUME NEW e \in subscriptionTopics'
               PROVE  \E sub \in subscribers'[e.topic] : sub.id = e.id
    BY DEF Listed
  <2>1. e \in subscriptionTopics /\ e.id # subscriptionId[s] /\ e.topic \in Topics
    BY <1>1
  <2>2. PICK sub \in subscribers[e.topic] : sub.id = e.id
    BY <2>1 DEF Listed
  <2> QED BY <1>1, <1>2, <2>1, <2>2
<1>5. OneTopicPerId' /\ IdsAreOld'
  BY <1>1 DEF OneTopicPerId, IdsAreOld, Ids
<1>6. NoOrphanSubscription'
  BY <1>1, <1>2 DEF NoOrphanSubscription
<1> QED BY <1>3, <1>4, <1>5, <1>6

\* The second half of attachMessageBus() enters the new id into both tables and
\* into the service, whatever happened since the first half.
LEMMA AttachEndKeeps ==
    ASSUME TableInv, NEW s \in Services, AttachEnd(s)
    PROVE  TableInv'
<1> USE DEF TableInv, TypeOK, AttachEnd, Subscribe
<1>1. PICK t \in Topics : t = attaching[s]
  OBVIOUS
<1> DEFINE n == nextSubscriptionId
           new == [id |-> n, callback |-> s]
<1>2. /\ n \in Ids /\ nextSubscriptionId' = n + 1 /\ subscriptionId[s] = 0
      /\ new \in Subscriptions
      /\ [id |-> n, topic |-> t] \in [id : Ids, topic : Topics]
      /\ subscriptionTopics' = subscriptionTopics \union {[id |-> n, topic |-> t]}
      /\ subscribers' = [subscribers EXCEPT ![t] = @ \union {new}]
      /\ subscribers'[t] = subscribers[t] \union {new}
      /\ \A u \in Topics \ {t} : subscribers'[u] = subscribers[u]
      /\ subscriptionId' = [subscriptionId EXCEPT ![s] = n]
  BY <1>1 DEF AttachingIsDetached, Subscriptions
<1>3. TypeOK'
  <2>1. nextSubscriptionId' \in Ids
    BY <1>2 DEF Ids
  <2>2. subscribers' \in [Topics -> SUBSET Subscriptions]
    BY <1>2
  <2>3. subscriptionTopics' \subseteq [id : Ids, topic : Topics]
    BY <1>2
  <2>4. subscriptionId' \in [Services -> Nat]
    BY <1>2 DEF Ids
  <2>5. attaching' \in [Services -> Topics \union {NoTopic}]
    OBVIOUS
  <2> QED BY <2>1, <2>2, <2>3, <2>4, <2>5
<1>4. Indexed'
  <2> SUFFICES ASSUME NEW u \in Topics, NEW sub \in subscribers'[u]
               PROVE  [id |-> sub.id, topic |-> u] \in subscriptionTopics'
    BY DEF Indexed
  <2>1. CASE sub \in subscribers[u]
    BY <1>2, <2>1 DEF Indexed
  <2>2. CASE sub \notin subscribers[u]
    <3>1. u = t /\ sub = new
      BY <1>2, <2>2
    <3>2. sub.id = n
      BY <3>1
    <3> QED BY <1>2, <3>1, <3>2
  <2> QED BY <2>1, <2>2
<1>5. Listed'
  <2> SUFFICES ASSUME NEW e \in subscriptionTopics'
               PROVE  \E sub \in subscribers'[e.topic] : sub.id = e.id
    BY DEF Listed
  <2>1. CASE e \in subscriptionTopics
    BY <1>2, <2>1 DEF Listed
  <2>2. CASE e = [id |-> n, topic |-> t]
    BY <1>2, <2>2
  <2> QED BY <1>2, <2>1, <2>2
<1>6. OneTopicPerId'
  BY <1>2 DEF OneTopicPerId, IdsAreOld, Ids
<1>7. IdsAreOld'
  BY <1>2 DEF IdsAreOld, Ids
<1>8. AttachingIsDetached'
  BY <1>2 DEF AttachingIsDetached
<1>9. NoOrphanSubscription'
  <2>1. ASSUME NEW u \in Topics, NEW sub \in subscribers'[u]
        PROVE  subscriptionId'[sub.callback] = sub.id
    <3>1. CASE sub = new
      BY <1>2, <3>1
    <3>2. CASE sub \in subscribers[u]
      <4>1. sub.callback \in Services /\ sub.id # 0
        BY <3>2 DEF Subscriptions, Ids
      <4>2. subscriptionId[sub.callback] = sub.id
        BY <3>2 DEF NoOrphanSubscription
      <4> QED BY <1>2, <4>1, <4>2
    <3> QED BY <1>2, <2>1, <3>1, <3>2
  <2>2. \A s1, s2 \in Services :
          subscriptionId'[s1] # 0 /\ subscriptionId'[s1] = subscriptionId'[s2]
            => s1 = s2
    BY <1>2 DEF NoOrphanSubscription, IdsAreOld, Ids
  <2> QED BY <2>1, <2>2 DEF NoOrphanSubscription
<1> QED BY <1>3, <1>4, <1>5, <1>6, <1>7, <1>8, <1>9

\* A step of a publisher leaves the tables and the services alone.
PublisherStep(p) ==
    \/ CallNext(p) \/ CallEnds(p) \/ StoreMessage(p) \/ PublishReturns(p)
    \/ \E t \in Topics : Publish(p, t)

Snapshots == [topic : Topics \union {NoTopic}, left : SUBSET Subscriptions,
              calling : SUBSET Subscriptions,
              stored : Nat, missed : Nat, expected : 0 .. 1]
SnapshotTypes == pub \in [Publishers -> Snapshots]

\* A publisher keeps a well-formed snapshot.
LEMMA SnapshotTypesStep ==
    ASSUME TypeOK, NEW p \in Publishers, PublisherStep(p)
    PROVE  SnapshotTypes'
<1> USE DEF TypeOK, SnapshotTypes, Snapshots
<1>1. CASE CallNext(p)
  <2>1. PICK sub \in pub[p].left :
           pub' = [pub EXCEPT ![p].left = @ \ {sub}, ![p].calling = {sub}]
    BY <1>1 DEF CallNext
  <2>2. sub \in Subscriptions /\ pub[p].left \ {sub} \in SUBSET Subscriptions
    OBVIOUS
  <2>3. pub' = [pub EXCEPT ![p] =
                   [pub[p] EXCEPT !.left = @ \ {sub}, !.calling = {sub}]]
    BY <2>1
  <2> DEFINE r == [pub[p] EXCEPT !.left = @ \ {sub}, !.calling = {sub}]
  <2>4. r \in Snapshots
    BY <2>2 DEF Snapshots
  <2> HIDE DEF r
  <2> QED BY <2>3, <2>4 DEF r, Snapshots
<1>2. CASE CallEnds(p)
  BY <1>2 DEF CallEnds, AfterThrow
<1>3. CASE StoreMessage(p)
  BY <1>3 DEF StoreMessage
<1>4. CASE PublishReturns(p)
  BY <1>4 DEF PublishReturns
<1>5. ASSUME NEW t \in Topics, Publish(p, t)
      PROVE  SnapshotTypes'
  <2> DEFINE e == IF Of(Storage, subscribers[t]) # {} THEN 1 ELSE 0
  <2>1. e \in 0 .. 1 /\ subscribers[t] \in SUBSET Subscriptions
    OBVIOUS
  <2> DEFINE r == [Returned EXCEPT !.topic = t, !.left = subscribers[t],
                                   !.expected = e]
  <2>2. pub' = [pub EXCEPT ![p] = r]
    BY <1>5 DEF Publish
  <2> HIDE DEF e
  <2>3. r \in Snapshots
    BY <2>1 DEF Returned, Snapshots
  <2> HIDE DEF r
  <2> QED BY <2>2, <2>3 DEF Snapshots
<1> QED BY <1>1, <1>2, <1>3, <1>4, <1>5 DEF PublisherStep

\* Booleans apart, for the prover that knows them.
LEMMA DatabaseStep ==
    database \in BOOLEAN /\ [Next]_vars => database' \in BOOLEAN
<1> SUFFICES ASSUME database \in BOOLEAN, [Next]_vars
             PROVE  database' \in BOOLEAN
  OBVIOUS
<1>1. CASE OpenStorage
  BY <1>1, Zenon DEF OpenStorage
<1>2. CASE CloseStorage
  BY <1>2, Zenon DEF CloseStorage
<1>3. CASE UNCHANGED database
  BY <1>3
<1> QED BY <1>1, <1>2, <1>3 DEF Next, Clear, Detach, AttachBegin, AttachEnd,
           AttachRefused, Publish, CallNext, CallEnds, StoreMessage,
           PublishReturns, vars

\* Every step keeps the tables: subscribe, unsubscribe, clear, and the callbacks
\* that run in between.
LEMMA TableInvStep ==
    TableInv /\ [Next]_vars => TableInv'
<1> SUFFICES ASSUME TableInv, [Next]_vars
             PROVE  TableInv'
  OBVIOUS
<1>0. database' \in BOOLEAN
  BY DatabaseStep DEF TableInv, TypeOK
<1>1. CASE Clear
  BY <1>0, <1>1 DEF Clear, TableInv, TypeOK, Indexed, Listed, OneTopicPerId,
     IdsAreOld, AttachingIsDetached, NoOrphanSubscription
<1>2. CASE UNCHANGED <<table, subscriptionId, attaching, pub>>
  BY <1>0, <1>2 DEF table, TableInv, TypeOK, Indexed, Listed, OneTopicPerId,
     IdsAreOld, AttachingIsDetached, NoOrphanSubscription
<1>3. ASSUME NEW s \in Services, Detach(s)
      PROVE  TableInv'
  <2>1. TableTypes'
    BY <1>3, DropLeavesNothing DEF Detach
  <2>2. Indexed' /\ Listed' /\ OneTopicPerId' /\ IdsAreOld'
        /\ NoOrphanSubscription'
    BY <1>3, DetachKeeps DEF Detach
  <2>3. TypeOK'
    BY <1>0, <1>3, <2>1 DEF Detach, TableInv, TypeOK, TableTypes
  <2>4. AttachingIsDetached'
    BY <1>3 DEF Detach, TableInv, TypeOK, AttachingIsDetached
  <2> QED BY <2>2, <2>3, <2>4 DEF TableInv
<1>4. ASSUME NEW s \in Services, NEW t \in Topics, AttachBegin(s, t)
      PROVE  TableInv'
  <2>1. TableTypes'
    BY <1>4, DropLeavesNothing DEF AttachBegin
  <2>2. Indexed' /\ Listed' /\ OneTopicPerId' /\ IdsAreOld'
        /\ NoOrphanSubscription'
    BY <1>4, DetachKeeps DEF AttachBegin
  <2>3. TypeOK'
    BY <1>0, <1>4, <2>1 DEF AttachBegin, TableInv, TypeOK, TableTypes
  <2>4. AttachingIsDetached'
    BY <1>4 DEF AttachBegin, TableInv, TypeOK, AttachingIsDetached
  <2> QED BY <2>2, <2>3, <2>4 DEF TableInv
<1>5. ASSUME NEW s \in Services, AttachEnd(s)
      PROVE  TableInv'
  BY <1>5, AttachEndKeeps
<1>6. ASSUME NEW s \in Services, AttachRefused(s)
      PROVE  TableInv'
  BY <1>0, <1>6 DEF AttachRefused, table, TableInv, TypeOK, Indexed, Listed,
     OneTopicPerId, IdsAreOld, AttachingIsDetached, NoOrphanSubscription
<1>7. ASSUME NEW p \in Publishers, PublisherStep(p)
      PROVE  TableInv'
  <2>1. SnapshotTypes'
    BY <1>7, SnapshotTypesStep DEF TableInv
  <2>2. UNCHANGED <<table, subscriptionId, attaching, database>>
    BY <1>7 DEF PublisherStep, CallNext, CallEnds, StoreMessage,
       PublishReturns, Publish
  <2> QED BY <1>0, <2>1, <2>2 DEF table, SnapshotTypes, Snapshots, TableInv, TypeOK,
       Indexed, Listed, OneTopicPerId, IdsAreOld, AttachingIsDetached,
       NoOrphanSubscription
<1> QED BY <1>1, <1>2, <1>3, <1>4, <1>5, <1>6, <1>7 DEF Next, vars,
       OpenStorage, CloseStorage, PublisherStep

-----------------------------------------------------------------------------
(* The balance of a publish().                                             *)

\* A topic has at most one subscription of the storage: two would both be the
\* one the storage remembers.
LEMMA OneStorageSubscription ==
    ASSUME TableInv, NEW t \in Topics
    PROVE  \/ Of(Storage, subscribers[t]) = {}
           \/ \E sub : Of(Storage, subscribers[t]) = {sub}
<1>1. ASSUME NEW a \in Of(Storage, subscribers[t]),
             NEW b \in Of(Storage, subscribers[t])
      PROVE  a = b
  <2>1. /\ a \in Subscriptions /\ b \in Subscriptions
        /\ a.callback = Storage /\ b.callback = Storage
    BY DEF Of, TableInv, TypeOK
  <2>2. a.id = subscriptionId[Storage] /\ b.id = subscriptionId[Storage]
    BY <2>1 DEF Of, TableInv, NoOrphanSubscription
  <2> QED BY <2>1, <2>2 DEF Subscriptions
<1> QED BY <1>1

\* A snapshot with the same callbacks to come and the same rows stays balanced.
LEMMA SameBalance ==
    ASSUME NEW q, NEW r, Balanced(q), Waiting(r) = Waiting(q),
           r.topic = NoTopic => r.left = {} /\ r.calling = {},
           r.left \intersect r.calling = {},
           r.stored = q.stored, r.missed = q.missed, r.expected = q.expected
    PROVE  Balanced(r)
<1>1. CASE Waiting(q) = {} /\ q.stored + q.missed = q.expected
  BY <1>1 DEF Balanced
<1>2. CASE \E sub : Waiting(q) = {sub} /\ q.stored + q.missed + 1 = q.expected
  <2>1. PICK sub : Waiting(q) = {sub} /\ q.stored + q.missed + 1 = q.expected
    BY <1>2
  <2>2. Waiting(r) = {sub} /\ r.stored + r.missed + 1 = r.expected
    BY <2>1
  <2> QED BY <2>2 DEF Balanced
<1> QED BY <1>1, <1>2 DEF Balanced

\* Every step keeps what a publish under way owes the storage: the row it is to
\* get is still in the snapshot, being written, or accounted for.
LEMMA SnapshotStep ==
    TableInv /\ SnapshotInv /\ [Next]_vars => SnapshotInv'
<1> SUFFICES ASSUME TableInv, SnapshotInv, [Next]_vars
             PROVE  SnapshotInv'
  OBVIOUS
<1>1. CASE UNCHANGED pub
  BY <1>1 DEF SnapshotInv, Balanced, Waiting
<1>2. ASSUME NEW p \in Publishers, PublisherStep(p)
      PROVE  SnapshotInv'
  <2>1. pub[p] \in Snapshots /\ Balanced(pub[p])
    BY DEF TableInv, TypeOK, SnapshotInv, Snapshots
  <2> SUFFICES /\ \A o \in Publishers \ {p} : pub'[o] = pub[o]
               /\ Balanced(pub'[p])
    BY DEF SnapshotInv, Balanced, Waiting
  <2>2. \A o \in Publishers \ {p} : pub'[o] = pub[o]
    BY <1>2 DEF TableInv, TypeOK, PublisherStep, CallNext, CallEnds,
       StoreMessage, PublishReturns, Publish
  <2>3. CASE CallNext(p)
    <3>1. PICK sub \in pub[p].left :
             pub' = [pub EXCEPT ![p].left = @ \ {sub}, ![p].calling = {sub}]
      BY <2>3 DEF CallNext
    <3>2. /\ pub'[p].left = pub[p].left \ {sub} /\ pub'[p].calling = {sub}
          /\ pub'[p].topic = pub[p].topic /\ pub'[p].stored = pub[p].stored
          /\ pub'[p].missed = pub[p].missed
          /\ pub'[p].expected = pub[p].expected
      BY <2>1, <3>1 DEF TableInv, TypeOK
    <3>3. pub[p].topic # NoTopic /\ pub[p].calling = {}
      BY <2>3 DEF CallNext
    <3>4. Waiting(pub'[p]) = Waiting(pub[p])
      BY <3>2, <3>3 DEF Waiting, Of
    <3>5. pub'[p].left \intersect pub'[p].calling = {}
      BY <3>2
    <3> QED BY <2>1, <2>2, <3>2, <3>3, <3>4, <3>5, SameBalance
  <2>4. CASE CallEnds(p)
    <3>1. /\ pub'[p].left = pub[p].left /\ pub'[p].calling = {}
          /\ pub'[p].topic = pub[p].topic /\ pub'[p].stored = pub[p].stored
          /\ pub'[p].missed = pub[p].missed
          /\ pub'[p].expected = pub[p].expected
      BY <2>4, <2>1 DEF CallEnds, AfterThrow, TableInv, TypeOK
    <3>2. Waiting(pub'[p]) = Waiting(pub[p])
      BY <2>4, <3>1 DEF CallEnds, Waiting, Of
    <3>3. pub[p].topic = NoTopic => pub[p].left = {}
      BY <2>1 DEF Balanced
    <3>4. pub'[p].left \intersect pub'[p].calling = {}
      BY <3>1
    <3> QED BY <2>1, <2>2, <3>1, <3>2, <3>3, <3>4, SameBalance
  <2>5. CASE StoreMessage(p)
    <3>1. /\ pub'[p].left = pub[p].left /\ pub'[p].calling = {}
          /\ pub'[p].topic = pub[p].topic
          /\ pub'[p].expected = pub[p].expected
      BY <2>5, <2>1 DEF StoreMessage, TableInv, TypeOK
    <3>5. \/ /\ pub'[p].stored = pub[p].stored + 1
             /\ pub'[p].missed = pub[p].missed
          \/ /\ pub'[p].stored = pub[p].stored
             /\ pub'[p].missed = pub[p].missed + 1
      BY <2>5, <2>1 DEF StoreMessage, TableInv, TypeOK
    <3>6. pub'[p].stored + pub'[p].missed = pub[p].stored + pub[p].missed + 1
      <4>1. pub[p].stored \in Nat /\ pub[p].missed \in Nat
        BY <2>1 DEF Snapshots
      <4> QED BY <3>5, <4>1
    <3>2. PICK sub : Waiting(pub[p]) = {sub}
                     /\ pub[p].stored + pub[p].missed + 1 = pub[p].expected
      BY <2>5, <2>1 DEF StoreMessage, Balanced, Waiting, Of
    <3>3. sub \in pub[p].calling
      BY <2>5, <3>2 DEF StoreMessage, Waiting, Of
    <3>4. Waiting(pub'[p]) = {}
      BY <2>1, <3>1, <3>2, <3>3 DEF Balanced, Waiting, Of
    <3>7. pub'[p].topic = NoTopic => pub'[p].left = {}
      BY <2>1, <3>1 DEF Balanced
    <3>8. pub'[p].stored + pub'[p].missed = pub'[p].expected
      BY <3>1, <3>2, <3>6
    <3>9. pub'[p].left \intersect pub'[p].calling = {}
      BY <3>1
    <3> QED BY <2>2, <3>1, <3>4, <3>7, <3>8, <3>9 DEF Balanced
  <2>6. CASE PublishReturns(p)
    <3>1. /\ pub'[p].left = {} /\ pub'[p].calling = {}
          /\ pub[p].left = {} /\ pub[p].calling = {}
          /\ pub'[p].stored = pub[p].stored
          /\ pub'[p].missed = pub[p].missed
          /\ pub'[p].expected = pub[p].expected
      BY <2>6, <2>1 DEF PublishReturns, TableInv, TypeOK
    <3>2. Waiting(pub'[p]) = Waiting(pub[p])
      BY <3>1 DEF Waiting
    <3>3. pub'[p].left \intersect pub'[p].calling = {}
      BY <3>1
    <3> QED BY <2>1, <2>2, <3>1, <3>2, <3>3, SameBalance
  <2>7. ASSUME NEW t \in Topics, Publish(p, t)
        PROVE  Balanced(pub'[p])
    <3>1. /\ pub'[p].topic = t /\ pub'[p].left = subscribers[t]
          /\ pub'[p].calling = {} /\ pub'[p].stored = 0 /\ pub'[p].missed = 0
          /\ pub'[p].expected = IF Of(Storage, subscribers[t]) # {} THEN 1 ELSE 0
      BY <2>7, <2>1 DEF Publish, Returned, TableInv, TypeOK
    <3>2. Waiting(pub'[p]) = Of(Storage, subscribers[t])
      BY <3>1 DEF Waiting, Of
    <3>3. t # NoTopic
      BY TopicAssumption
    <3>4. CASE Of(Storage, subscribers[t]) = {}
      BY <3>1, <3>2, <3>3, <3>4 DEF Balanced
    <3>5. CASE \E sub : Of(Storage, subscribers[t]) = {sub}
      <4>1. PICK sub : Of(Storage, subscribers[t]) = {sub}
        BY <3>5
      <4> QED BY <3>1, <3>2, <3>3, <4>1 DEF Balanced
    <3> QED BY <3>4, <3>5, OneStorageSubscription
  <2> QED BY <1>2, <2>2, <2>3, <2>4, <2>5, <2>6, <2>7 DEF PublisherStep
<1> QED BY <1>1, <1>2 DEF Next, vars, PublisherStep, Clear, OpenStorage,
       CloseStorage, Detach, AttachBegin, AttachEnd, AttachRefused

-----------------------------------------------------------------------------
(* The theorems.                                                           *)

\* An empty bus, and nobody publishing.
LEMMA InitInv == Init => IndInv
<1> SUFFICES ASSUME Init
             PROVE  IndInv
  OBVIOUS
<1>1. TypeOK
  <2>1. database \in BOOLEAN
    BY Zenon DEF Init
  <2> QED BY <2>1 DEF Init, TypeOK, Returned, Ids
<1>2. TableInv
  BY <1>1 DEF Init, TableInv, Indexed, Listed, OneTopicPerId, IdsAreOld,
     AttachingIsDetached, NoOrphanSubscription
<1>3. SnapshotInv
  BY DEF Init, Returned, SnapshotInv, Balanced, Waiting, Of
<1> QED BY <1>2, <1>3 DEF IndInv

\* The inductive invariant of the bus: the tables of subscribe(), unsubscribe(),
\* clear() and the services, and the snapshots of publish().
THEOREM Invariance == Spec => []IndInv
<1>1. IndInv /\ [Next]_vars => IndInv'
  BY TableInvStep, SnapshotStep DEF IndInv
<1> QED BY InitInv, <1>1, PTL DEF Spec

\* The forward and the reverse index of the bus say the same after any mixture
\* of subscribe(), unsubscribe() and clear(), and an id names one subscription.
THEOREM IndexSafety == Spec => []IndexesAgree
<1>1. IndInv => IndexesAgree
  <2> SUFFICES ASSUME IndInv
               PROVE  IndexesAgree
    OBVIOUS
  <2> USE DEF IndInv, TableInv
  <2>1. ASSUME NEW t \in Topics
        PROVE  {sub.id : sub \in subscribers[t]} =
                  {e.id : e \in {x \in subscriptionTopics : x.topic = t}}
    <3>1. ASSUME NEW sub \in subscribers[t]
          PROVE  \E e \in subscriptionTopics : e.topic = t /\ e.id = sub.id
      BY DEF Indexed
    <3>2. ASSUME NEW e \in subscriptionTopics, e.topic = t
          PROVE  \E sub \in subscribers[t] : sub.id = e.id
      BY <3>2 DEF Listed
    <3> QED BY <3>1, <3>2
  <2> QED BY <2>1 DEF IndexesAgree, OneTopicPerId, IdsAreOld
<1> QED BY Invariance, <1>1, PTL

\* Attaching again leaves no old subscription behind, and a stale id never
\* removes the subscription of another service.
THEOREM OrphanSafety == Spec => []NoOrphanSubscription
<1>1. IndInv => NoOrphanSubscription
  BY DEF IndInv, TableInv
<1> QED BY Invariance, <1>1, PTL

\* A message published while the storage is attached gets one row or one
\* reported failure, never two and never neither.
THEOREM HistorySafety == Spec => []HistoryIsExact
<1>1. IndInv => HistoryIsExact
  <2> SUFFICES ASSUME IndInv, NEW p \in Publishers
               PROVE  /\ pub[p].topic = NoTopic => pub[p].left = {}
                      /\ pub[p].stored + pub[p].missed
                           + Cardinality(Waiting(pub[p])) = pub[p].expected
    BY DEF HistoryIsExact, Waiting
  <2>1. Balanced(pub[p]) /\ pub[p] \in Snapshots
    BY DEF IndInv, SnapshotInv, TableInv, TypeOK, Snapshots
  <2>2. CASE Waiting(pub[p]) = {}
    BY <2>1, <2>2, FS_EmptySet DEF Balanced, Snapshots
  <2>3. CASE Waiting(pub[p]) # {}
    <3>1. PICK sub : Waiting(pub[p]) = {sub}
                     /\ pub[p].stored + pub[p].missed + 1 = pub[p].expected
      BY <2>1, <2>3 DEF Balanced
    <3>2. Cardinality(Waiting(pub[p])) = 1
      BY <3>1, FS_Singleton
    <3> QED BY <2>1, <3>1, <3>2 DEF Balanced, Snapshots
  <2> QED BY <2>2, <2>3
<1> QED BY Invariance, <1>1, PTL

=============================================================================
