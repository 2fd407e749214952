------------------------------- MODULE FairQueue -------------------------------
(***************************************************************************)
(* epics::pvAccess::fair_queue (src/src/utils/pv/fairQueue.h): the queue   *)
(* of senders of a connection.  An entry is on the list once, however      *)
(* often it was pushed; Qcnt counts how often it has still to be popped.   *)
(*                                                                         *)
(* What is done under the queue's mutex is one step.  push_back() signals  *)
(* the event after unlocking; pop_front() waits on it without the mutex.   *)
(***************************************************************************)
EXTENDS Integers, Sequences, FiniteSets, Functions

CONSTANTS
    Entries,    \* what can be queued
    Producers,  \* threads that call push_back()
    MaxPush     \* bound: how often an entry is pushed

ASSUME PushAssumption == MaxPush \in Nat

VARIABLES
    list,       \* the entries that are queued, in the order of service
    Qcnt,       \* how often each has still to be popped
    wakeup,     \* the epicsEvent: signalled or not
    ppc,        \* each producer: "idle", or "signal" inside push_back()
    cpc,        \* the consumer: "idle", or "try" or "wait" inside pop_front()
    pushed, popped,     \* number of calls so far, for each entry
    passed      \* passed[e]: what was popped since e was put at the back of the list

vars == <<list, Qcnt, wakeup, ppc, cpc, pushed, popped, passed>>

Init ==
    /\ list = <<>>
    /\ Qcnt = [e \in Entries |-> 0]
    /\ wakeup = FALSE
    /\ ppc = [p \in Producers |-> "idle"]
    /\ cpc = "idle"
    /\ pushed = [e \in Entries |-> 0]
    /\ popped = [e \in Entries |-> 0]
    /\ passed = [e \in Entries |-> {}]

\* Fault: the entry is added to the list at each push.
ListAfterPush_dup(e) == Append(list, e)

ListAfterPush(e) == IF Qcnt[e] = 0 THEN Append(list, e) ELSE list

\* Fault: the event is signalled for the entry, not for the queue.
Wakes_entry(e) == Qcnt[e] > 1

\* push_back() signals when the list was empty.
Wakes(e) == list = <<>>

push_back(p, e) ==
    /\ ppc[p] = "idle"
    /\ pushed[e] < MaxPush
    /\ list' = ListAfterPush(e)
    /\ Qcnt' = [Qcnt EXCEPT ![e] = @ + 1]
    /\ ppc' = [ppc EXCEPT ![p] = IF Wakes(e) THEN "signal" ELSE "idle"]
    /\ pushed' = [pushed EXCEPT ![e] = @ + 1]
    /\ passed' = IF Qcnt[e] = 0 THEN [passed EXCEPT ![e] = {}] ELSE passed
    /\ UNCHANGED <<wakeup, cpc, popped>>

signal(p) ==
    /\ ppc[p] = "signal"
    /\ wakeup' = TRUE
    /\ ppc' = [ppc EXCEPT ![p] = "idle"]
    /\ UNCHANGED <<list, Qcnt, cpc, pushed, popped, passed>>

\* Fault: an entry that is queued again stays at the front.
ListAfterPop_front == IF Qcnt[Head(list)] = 1 THEN Tail(list) ELSE list

\* Fault: an entry that was popped for the last time stays on the list.
ListAfterPop_kept == Append(Tail(list), Head(list))

\* An entry that has still to be popped goes to the back.
ListAfterPop ==
    IF Qcnt[Head(list)] = 1 THEN Tail(list) ELSE Append(Tail(list), Head(list))

\* pop_front_try() on a list that is not empty.
Pop ==
    LET e == Head(list)
    IN  /\ list # <<>>
        /\ list' = ListAfterPop
        /\ Qcnt' = [Qcnt EXCEPT ![e] = @ - 1]
        /\ popped' = [popped EXCEPT ![e] = @ + 1]
        /\ passed' = [x \in Entries |-> IF x = e THEN {} ELSE passed[x] \cup {e}]
        /\ UNCHANGED <<wakeup, ppc, pushed>>

pop_front_try == cpc = "idle" /\ Pop /\ UNCHANGED cpc

pop_front ==
    /\ cpc = "idle"
    /\ cpc' = "try"
    /\ UNCHANGED <<list, Qcnt, wakeup, ppc, pushed, popped, passed>>

PopFound == cpc = "try" /\ Pop /\ cpc' = "idle"

PopNone ==
    /\ cpc = "try" /\ list = <<>>
    /\ cpc' = "wait"
    /\ UNCHANGED <<list, Qcnt, wakeup, ppc, pushed, popped, passed>>

WaitDone ==
    /\ cpc = "wait" /\ wakeup
    /\ wakeup' = FALSE
    /\ cpc' = "try"
    /\ UNCHANGED <<list, Qcnt, ppc, pushed, popped, passed>>

\* pop_front(ret, timeout) gives up.
WaitTimeout ==
    /\ cpc = "wait"
    /\ cpc' = "idle"
    /\ UNCHANGED <<list, Qcnt, wakeup, ppc, pushed, popped, passed>>

Consumer == pop_front_try \/ pop_front \/ PopFound \/ PopNone \/ WaitDone

Next ==
    \/ \E p \in Producers, e \in Entries : push_back(p, e)
    \/ \E p \in Producers : signal(p)
    \/ Consumer
    \/ WaitTimeout

Spec == Init /\ [][Next]_vars

\* Threads keep running: a producer inside push_back() signals, and the consumer,
\* the connection's send thread, pops again and again.
FairSpec ==
    /\ Spec
    /\ \A p \in Producers : WF_vars(signal(p))
    /\ WF_vars(pop_front)
    /\ WF_vars(PopFound)
    /\ WF_vars(PopNone)
    /\ WF_vars(WaitDone)

-----------------------------------------------------------------------------
\* Every variable has its type.
TypeOK ==
    /\ list \in Seq(Entries)
    /\ Qcnt \in [Entries -> Nat]
    /\ wakeup \in BOOLEAN
    /\ ppc \in [Producers -> {"idle", "signal"}]
    /\ cpc \in {"idle", "try", "wait"}
    /\ pushed \in [Entries -> Nat]
    /\ popped \in [Entries -> Nat]
    /\ passed \in [Entries -> SUBSET Entries]

\* The list holds exactly the entries with a count, each once: the asserts of
\* push_back() and pop_front_try() on owner and Qcnt.
ListMatchesCounts ==
    /\ IsInjective(list)
    /\ \A e \in Entries : Qcnt[e] > 0 <=> e \in Range(list)

\* What waits before an entry on the list has not been popped since the entry was queued.
PassedBehind ==
    \A i, j \in DOMAIN list : i < j => list[i] \notin passed[list[j]]

\* Round robin: while an entry waits, no other is popped twice.
RoundRobin ==
    [][ \A x, e \in Entries :
            x # e /\ Qcnt[e] > 0 /\ popped'[x] > popped[x] => x \notin passed[e] ]_vars

\* The consumer does not sleep on a queue that holds something, unless a producer
\* is about to signal it.
NoSleepWithWork ==
    cpc = "wait" /\ list # <<>> => wakeup \/ \E p \in Producers : ppc[p] = "signal"

\* Loss-less: each push_back() of an entry is matched by a pop_front() of it.
EverythingPopped ==
    \A e \in Entries : \A n \in 1..MaxPush : (pushed[e] >= n) ~> (popped[e] >= n)
=============================================================================
