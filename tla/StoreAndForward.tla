-------------------------- MODULE StoreAndForward --------------------------
(***************************************************************************)
(* What the MQTT service promises about the messages it has taken into the *)
(* outbox: a persistent FIFO queue with at-least-once delivery.  A row is  *)
(* numbered when it is stored, reaches the broker for the first time in    *)
(* the order of the numbers, and leaves the queue from the front, and only *)
(* after the broker has it.  Crashes and lost links are not visible here:  *)
(* they may delay a row or make the broker see it twice, nothing else.     *)
(***************************************************************************)
EXTENDS Integers

VARIABLES
    pending,    \* numbers of the rows in the queue
    delivered,  \* numbers of the rows the broker has seen
    next        \* number of the next row

vars == <<pending, delivered, next>>

Init == pending = {} /\ delivered = {} /\ next = 1

Store == /\ pending' = pending \union {next}
         /\ next' = next + 1
         /\ UNCHANGED delivered

\* The first delivery of row i; all older rows have been delivered.
Deliver(i) == /\ i \notin delivered
              /\ \A j \in 1 .. i - 1 : j \in delivered
              /\ delivered' = delivered \union {i}
              /\ UNCHANGED <<pending, next>>

\* The oldest row leaves the queue once it is delivered.
Retire(i) == /\ i \in delivered
             /\ \A j \in pending : i <= j
             /\ pending' = pending \ {i}
             /\ UNCHANGED <<delivered, next>>

Next == Store \/ \E i \in pending : Deliver(i) \/ Retire(i)

Spec == Init /\ [][Next]_vars

=============================================================================
