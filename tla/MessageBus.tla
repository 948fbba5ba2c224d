----------------------------- MODULE MessageBus -----------------------------
(***************************************************************************)
(* The in-process publish/subscribe bus (src/message_bus.cpp), the two     *)
(* services that attach to it (attachMessageBus and detachMessageBus of    *)
(* MqttService and StorageService), and the history of StorageService,     *)
(* which stores a row for each message in its callback.  The lock of the   *)
(* bus guards the two index tables only: publish() copies the subscribers  *)
(* of a topic under the lock and runs the callbacks without it, so every   *)
(* other call may come in between, from a callback too: a service that has *)
(* detached, or a database that was closed, can still be called.  Ids      *)
(* grow, so a vector of subscribers in subscription order is a set.        *)
(***************************************************************************)
EXTENDS Integers, FiniteSets

CONSTANTS
    Topics,
    NoTopic,
    Services,    \* objects that attach to the bus
    Storage,     \* the one of them that is the StorageService
    Publishers,  \* threads that call publish()
    MaxIds       \* bound: how many subscriptions are made

ASSUME TopicAssumption == NoTopic \notin Topics
ASSUME StorageAssumption == Storage \in Services
ASSUME IdsAssumption == MaxIds \in Nat

VARIABLES
    nextSubscriptionId,
    subscribers,         \* topic -> Subscriptions: an id and whose callback it
                         \* is (a topic without any has no entry)
    subscriptionTopics,  \* the reverse index: pairs [id, topic]
    subscriptionId,      \* per service: its subscriptionId_, 0 when detached
    attaching,           \* per service: the topic attachMessageBus is given
    pub,                 \* per publisher: the publish() it is in
    database             \* the storage's database is open

table == <<nextSubscriptionId, subscribers, subscriptionTopics>>
vars == <<table, subscriptionId, attaching, pub, database>>

\* A publish(): the copied subscribers that have not been called, the ones whose
\* callback runs (one or none), how many rows the message has been given, how
\* often storing it failed, and whether the storage was subscribed.
Returned == [topic |-> NoTopic, left |-> {}, calling |-> {},
             stored |-> 0, missed |-> 0, expected |-> 0]

Of(s, subscriptions) == {sub \in subscriptions : sub.callback = s}

Init ==
    /\ nextSubscriptionId = 1
    /\ subscribers = [t \in Topics |-> {}] /\ subscriptionTopics = {}
    /\ subscriptionId = [s \in Services |-> 0]
    /\ attaching = [s \in Services |-> NoTopic]
    /\ pub = [p \in Publishers |-> Returned]
    /\ database = FALSE

-----------------------------------------------------------------------------
(* The bus.                                                                *)

\* Mutant of EraseTopic: the reverse index keeps the id.
EraseTopic_Forgotten(id) == subscriptionTopics

EraseTopic(id) == {e \in subscriptionTopics : e.id # id}

\* unsubscribe(id): looks the topic up in the reverse index, removes the id
\* there and in the topic's list; an unknown id changes nothing.
Unsubscribe(id) ==
    /\ subscribers' = [t \in Topics |->
            IF [id |-> id, topic |-> t] \in subscriptionTopics
            THEN {sub \in subscribers[t] : sub.id # id} ELSE subscribers[t]]
    /\ subscriptionTopics' = EraseTopic(id)
    /\ UNCHANGED nextSubscriptionId

\* subscribe(t), with a callback of s.
Subscribe(t, s) ==
    /\ nextSubscriptionId <= MaxIds
    /\ nextSubscriptionId' = nextSubscriptionId + 1
    /\ subscribers' = [subscribers EXCEPT ![t] = @ \union
                        {[id |-> nextSubscriptionId, callback |-> s]}]
    /\ subscriptionTopics' = subscriptionTopics \union
                                {[id |-> nextSubscriptionId, topic |-> t]}

\* clear(): both tables, the ids go on.
Clear ==
    /\ subscribers' = [t \in Topics |-> {}]
    /\ subscriptionTopics' = {}
    /\ UNCHANGED <<nextSubscriptionId, subscriptionId, attaching, pub, database>>

-----------------------------------------------------------------------------
(* A service.                                                              *)

\* Mutant of DropSubscription: attaching again forgets the old subscription.
DropSubscription_Forgotten(s) == UNCHANGED table

\* detachMessageBus() unsubscribes if there is a subscription.
DropSubscription(s) ==
    IF subscriptionId[s] # 0 THEN Unsubscribe(subscriptionId[s])
                             ELSE UNCHANGED table

Detach(s) ==
    /\ attaching[s] = NoTopic /\ subscriptionId[s] # 0
    /\ DropSubscription(s)
    /\ subscriptionId' = [subscriptionId EXCEPT ![s] = 0]
    /\ UNCHANGED <<attaching, pub, database>>

\* attachMessageBus(): detach first, then subscribe; two lock scopes.
AttachBegin(s, t) ==
    /\ attaching[s] = NoTopic
    /\ DropSubscription(s)
    /\ subscriptionId' = [subscriptionId EXCEPT ![s] = 0]
    /\ attaching' = [attaching EXCEPT ![s] = t]
    /\ UNCHANGED <<pub, database>>

AttachEnd(s) ==
    /\ attaching[s] # NoTopic /\ (s = Storage => database)
    /\ Subscribe(attaching[s], s)
    /\ subscriptionId' = [subscriptionId EXCEPT ![s] = nextSubscriptionId]
    /\ attaching' = [attaching EXCEPT ![s] = NoTopic]
    /\ UNCHANGED <<pub, database>>

\* The early returns between the two: the storage is not open, or subscribe()
\* refuses; the service stays detached.
AttachRefused(s) ==
    /\ attaching[s] # NoTopic
    /\ attaching' = [attaching EXCEPT ![s] = NoTopic]
    /\ UNCHANGED <<table, subscriptionId, pub, database>>

\* open() and close() of the StorageService.  Nothing ties close() to the
\* subscription.
OpenStorage ==
    /\ ~database /\ database' = TRUE
    /\ UNCHANGED <<table, subscriptionId, attaching, pub>>

CloseStorage ==
    /\ database /\ database' = FALSE
    /\ UNCHANGED <<table, subscriptionId, attaching, pub>>

-----------------------------------------------------------------------------
(* A publisher.                                                            *)

\* publish() under the lock: the snapshot, or an early return.
Publish(p, t) ==
    /\ pub[p].topic = NoTopic /\ subscribers[t] # {}
    /\ pub' = [pub EXCEPT ![p] = [Returned EXCEPT
                  !.topic = t, !.left = subscribers[t],
                  !.expected = IF Of(Storage, subscribers[t]) # {} THEN 1 ELSE 0]]
    /\ UNCHANGED <<table, subscriptionId, attaching, database>>

\* The next callback starts, in subscription order.
CallNext(p) ==
    /\ pub[p].topic # NoTopic /\ pub[p].calling = {}
    /\ \E sub \in pub[p].left :
         /\ \A other \in pub[p].left : sub.id <= other.id
         /\ pub' = [pub EXCEPT ![p].left = @ \ {sub}, ![p].calling = {sub}]
    /\ UNCHANGED <<table, subscriptionId, attaching, database>>

\* Mutant of AfterThrow: an exception leaves publish().
AfterThrow_Aborts(p) == NoTopic

\* Where a callback that throws leaves publish(): in its loop.
AfterThrow(p) == pub[p].topic

\* The callback of another service returns or throws; both end in the loop.
CallEnds(p) ==
    /\ pub[p].calling # {} /\ Of(Storage, pub[p].calling) = {}
    /\ \E topic \in {pub[p].topic, AfterThrow(p)} :
         pub' = [pub EXCEPT ![p].topic = topic, ![p].calling = {}]
    /\ UNCHANGED <<table, subscriptionId, attaching, database>>

\* The callback of the storage: storeMessage() under the storage's lock, which
\* fails without a database, or when SQLite does.
StoreMessage(p) ==
    /\ Of(Storage, pub[p].calling) # {}
    /\ \/ database /\ pub' = [pub EXCEPT ![p].stored = @ + 1, ![p].calling = {}]
       \/ pub' = [pub EXCEPT ![p].missed = @ + 1, ![p].calling = {}]
    /\ UNCHANGED <<table, subscriptionId, attaching, database>>

PublishReturns(p) ==
    /\ pub[p].topic # NoTopic /\ pub[p].calling = {} /\ pub[p].left = {}
    /\ pub' = [pub EXCEPT ![p].topic = NoTopic]
    /\ UNCHANGED <<table, subscriptionId, attaching, database>>

-----------------------------------------------------------------------------
Next ==
    \/ Clear \/ OpenStorage \/ CloseStorage
    \/ \E s \in Services : \/ Detach(s) \/ AttachEnd(s) \/ AttachRefused(s)
                           \/ \E t \in Topics : AttachBegin(s, t)
    \/ \E p \in Publishers : \/ CallNext(p) \/ CallEnds(p) \/ StoreMessage(p)
                             \/ PublishReturns(p)
                             \/ \E t \in Topics : Publish(p, t)

Spec == Init /\ [][Next]_vars

-----------------------------------------------------------------------------
(* Properties.                                                             *)

Ids == Nat \ {0}
Subscriptions == [id : Ids, callback : Services]

\* The tables, the services' ids and the publishers' snapshots have their types.
TypeOK ==
    /\ nextSubscriptionId \in Ids
    /\ subscribers \in [Topics -> SUBSET Subscriptions]
    /\ subscriptionTopics \subseteq [id : Ids, topic : Topics]
    /\ subscriptionId \in [Services -> Nat]
    /\ attaching \in [Services -> Topics \union {NoTopic}]
    /\ pub \in [Publishers -> [topic : Topics \union {NoTopic},
                               left : SUBSET Subscriptions,
                               calling : SUBSET Subscriptions,
                               stored : Nat, missed : Nat, expected : 0 .. 1]]
    /\ database \in BOOLEAN

\* "两张索引表必须同时清空，保持内部状态一致": the two index tables say the same, so
\* that every subscription can be found by unsubscribe(), after any mixture of
\* subscribe(), unsubscribe() and clear(), and an id is in use only once.
IndexesAgree ==
    /\ TypeOK
    /\ \A t \in Topics : {sub.id : sub \in subscribers[t]} =
                          {e.id : e \in {x \in subscriptionTopics : x.topic = t}}
    /\ \A e1, e2 \in subscriptionTopics : e1.id = e2.id => e1 = e2
    /\ \A e \in subscriptionTopics : e.id < nextSubscriptionId

\* What is subscribed is the one current subscription of its service, and the
\* service knows it: attaching again never leaves an old subscription behind (a
\* message would be forwarded twice), and a stale id, left in a service by
\* clear(), never names the subscription of another one, which
\* detachMessageBus() would then remove.
NoOrphanSubscription ==
    /\ \A t \in Topics : \A sub \in subscribers[t] :
          subscriptionId[sub.callback] = sub.id
    /\ \A s1, s2 \in Services :
          subscriptionId[s1] # 0 /\ subscriptionId[s1] = subscriptionId[s2] => s1 = s2

\* "单个订阅者失败不能阻止后续订阅者接收消息": a message that is published while the
\* storage is attached gets one row in the history or a reported failure, never
\* two and never neither, whatever other callbacks do and whoever attaches
\* again, detaches, clears the bus or closes the database meanwhile; and a
\* publish() that has returned has called everybody in its snapshot.
HistoryIsExact ==
    \A p \in Publishers :
        LET q == pub[p]
            waiting == Of(Storage, q.left \union q.calling)
        IN /\ q.topic = NoTopic => q.left = {}
           /\ q.stored + q.missed + Cardinality(waiting) = q.expected

=============================================================================
