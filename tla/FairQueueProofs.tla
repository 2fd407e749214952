---------------------------- MODULE FairQueueProofs ----------------------------
(* Proofs about FairQueue, for any entries, producers and bound.            *)
EXTENDS FairQueue, SequenceFacts, TLAPS

\* The inductive invariant: the list and the counts agree, what waits before an
\* entry has not passed it, and nobody sleeps on a queue that holds something.
IndInv == TypeOK /\ ListMatchesCounts /\ PassedBehind /\ NoSleepWithWork

\* push_back() keeps the list free of duplicates and in step with the counts.
LEMMA PushKeeps ==
    ASSUME IndInv, NEW p \in Producers, NEW e \in Entries, push_back(p, e)
    PROVE  IndInv'
<1> USE DEF IndInv
<1>1. TypeOK'
  BY AppendFacts DEF TypeOK, push_back, ListAfterPush, Wakes
<1>2. CASE Qcnt[e] = 0
  <2>1. list' = Append(list, e) /\ e \notin Range(list)
    BY <1>2 DEF push_back, ListAfterPush, ListMatchesCounts
  <2>2. DOMAIN list' = 1..(Len(list) + 1) /\ DOMAIN list = 1..Len(list) /\ Len(list) \in Nat
        /\ list'[Len(list) + 1] = e /\ \A i \in DOMAIN list : list'[i] = list[i]
    BY <2>1, AppendFacts DEF TypeOK
  <2>3. \A i \in DOMAIN list : list[i] # e
    BY <2>1 DEF Range
  <2>4. \A i, j \in DOMAIN list' : i # j => list'[i] # list'[j]
    BY <2>2, <2>3 DEF ListMatchesCounts, IsInjective
  <2>5. Range(list') = Range(list) \cup {e}
    BY <2>2 DEF Range
  <2>6. \A x \in Entries : Qcnt'[x] > 0 <=> x \in Range(list')
    BY <2>5 DEF ListMatchesCounts, IsInjective, push_back, TypeOK
  <2>7. passed' = [passed EXCEPT ![e] = {}]
    BY <1>2 DEF push_back
  <2>8. PassedBehind'
    <3> SUFFICES ASSUME NEW i \in DOMAIN list', NEW j \in DOMAIN list', i < j
                 PROVE  list'[i] \notin passed'[list'[j]]
      BY DEF PassedBehind
    <3>1. i \in DOMAIN list /\ list'[i] = list[i]
      BY <2>2
    <3>2. CASE j = Len(list) + 1
      BY <3>2, <2>2, <2>7 DEF TypeOK
    <3>3. CASE j # Len(list) + 1
      <4>1. j \in DOMAIN list /\ list'[j] = list[j] /\ list[j] # e
        BY <3>3, <2>2, <2>3
      <4>2. passed'[list[j]] = passed[list[j]]
        BY <4>1, <2>7 DEF TypeOK
      <4> QED BY <3>1, <4>1, <4>2 DEF PassedBehind
    <3> QED BY <3>2, <3>3
  <2>9. NoSleepWithWork'
    <3>1. CASE list = <<>>
      BY <3>1 DEF push_back, Wakes, NoSleepWithWork, TypeOK
    <3>2. CASE list # <<>>
      <4> SUFFICES ASSUME cpc' = "wait"
                   PROVE  wakeup' \/ \E q \in Producers : ppc'[q] = "signal"
        BY DEF NoSleepWithWork
      <4>1. wakeup \/ \E q \in Producers : ppc[q] = "signal"
        BY <3>2 DEF push_back, NoSleepWithWork
      <4>2. \A q \in Producers : ppc[q] = "signal" => ppc'[q] = "signal"
        BY <3>2 DEF push_back, Wakes, TypeOK
      <4> QED BY <4>1, <4>2 DEF push_back
    <3> QED BY <3>1, <3>2
  <2> QED BY <1>1, <2>4, <2>6, <2>8, <2>9 DEF ListMatchesCounts, IsInjective
<1>3. CASE Qcnt[e] # 0
  <2>1. list' = list /\ passed' = passed
    BY <1>3 DEF push_back, ListAfterPush
  <2>2. ListMatchesCounts'
    BY <2>1, <1>3 DEF ListMatchesCounts, IsInjective, push_back, TypeOK
  <2>3. list # <<>>
    <3>1. Qcnt[e] > 0
      BY <1>3 DEF TypeOK
    <3>2. PICK i \in DOMAIN list : list[i] = e
      BY <3>1 DEF ListMatchesCounts, IsInjective, Range
    <3> QED BY <3>2, EmptyFacts
  <2>4. \A q \in Producers : ppc[q] = "signal" => ppc'[q] = "signal"
    BY <2>3 DEF push_back, Wakes, TypeOK
  <2>5. NoSleepWithWork'
    BY <2>1, <2>4 DEF NoSleepWithWork, push_back
  <2> QED BY <1>1, <2>1, <2>2, <2>5 DEF PassedBehind
<1> QED BY <1>2, <1>3

\* A pop takes the front of the list and puts it back only behind the others.
LEMMA PopKeeps ==
    ASSUME IndInv, Pop, cpc' = "idle"
    PROVE  IndInv'
<1> DEFINE e == Head(list)
           n == Len(list)
<1> USE DEF IndInv
<1>1. /\ list # <<>> /\ e \in Entries /\ e = list[1] /\ n \in Nat /\ n > 0
      /\ DOMAIN list = 1..n
      /\ Tail(list) \in Seq(Entries) /\ Len(Tail(list)) = n - 1
      /\ DOMAIN Tail(list) = 1..(n - 1)
      /\ \A i \in 1..(n - 1) : Tail(list)[i] = list[i + 1]
  BY TailFacts DEF Pop, TypeOK
<1>2. Qcnt[e] > 0 /\ Qcnt[e] \in Nat
  <2>1. e \in Range(list)
    BY <1>1 DEF Range
  <2> QED BY <2>1, <1>1 DEF ListMatchesCounts, IsInjective, TypeOK
<1>3. \A i \in 1..(n - 1) : list[i + 1] # e
  BY <1>1 DEF ListMatchesCounts, IsInjective
<1>4. /\ Qcnt' = [Qcnt EXCEPT ![e] = @ - 1]
      /\ passed' = [x \in Entries |-> IF x = e THEN {} ELSE passed[x] \cup {e}]
      /\ list' = IF Qcnt[e] = 1 THEN Tail(list) ELSE Append(Tail(list), e)
  BY DEF Pop, ListAfterPop
<1>5. NoSleepWithWork'
  BY DEF NoSleepWithWork
<1>6. TypeOK'
  <2>1. list' \in Seq(Entries)
    BY <1>1, <1>4, AppendFacts
  <2>2. Qcnt' \in [Entries -> Nat]
    BY <1>1, <1>2, <1>4 DEF TypeOK
  <2>3. passed' \in [Entries -> SUBSET Entries]
    BY <1>1, <1>4 DEF TypeOK
  <2>4. popped' \in [Entries -> Nat]
    BY <1>1 DEF Pop, TypeOK
  <2> QED BY <2>1, <2>2, <2>3, <2>4 DEF Pop, TypeOK
<1>7. ASSUME NEW i \in 1..(n - 1), NEW j \in 1..(n - 1), i < j
       PROVE  list[i + 1] \notin passed'[list[j + 1]]
  <2>1. i + 1 \in DOMAIN list /\ j + 1 \in DOMAIN list /\ i + 1 < j + 1
    BY <1>1, <1>7
  <2>2. list[i + 1] \notin passed[list[j + 1]]
    BY <2>1 DEF PassedBehind
  <2>3. list[i + 1] # e /\ list[j + 1] # e /\ list[j + 1] \in Entries
    BY <1>3, <2>1 DEF TypeOK
  <2>4. passed'[list[j + 1]] = passed[list[j + 1]] \cup {e}
    BY <1>4, <2>3
  <2> QED BY <2>2, <2>3, <2>4
<1>8. CASE Qcnt[e] = 1
  <2>1. list' = Tail(list)
    BY <1>4, <1>8
  <2>2. \A i, j \in DOMAIN list' : i # j => list'[i] # list'[j]
    BY <1>1, <2>1 DEF ListMatchesCounts, IsInjective
  <2>3. \A x \in Entries : Qcnt'[x] > 0 <=> x \in Range(list')
    <3> SUFFICES ASSUME NEW x \in Entries PROVE Qcnt'[x] > 0 <=> x \in Range(list')
      OBVIOUS
    <3>1. CASE x = e
      <4>1. Qcnt'[x] = 0
        BY <3>1, <1>1, <1>4, <1>8 DEF TypeOK
      <4>2. x \notin Range(list')
        <5>1. \A i \in 1..(n - 1) : Tail(list)[i] # e
          BY <1>1, <1>3
        <5> QED BY <5>1, <3>1, <2>1, <1>1 DEF Range
      <4> QED BY <4>1, <4>2
    <3>2. CASE x # e
      <4>1. Qcnt'[x] = Qcnt[x]
        BY <3>2, <1>4 DEF TypeOK
      <4>2. x \in Range(list) <=> x \in Range(list')
        <5>1. ASSUME NEW i \in 1..n, list[i] = x PROVE x \in Range(list')
          <6>1. i - 1 \in 1..(n - 1) /\ Tail(list)[i - 1] = list[i]
            BY <5>1, <3>2, <1>1
          <6> QED BY <6>1, <5>1, <2>1, <1>1 DEF Range
        <5>2. ASSUME NEW i \in 1..(n - 1), Tail(list)[i] = x PROVE x \in Range(list)
          <6>1. i + 1 \in 1..n /\ list[i + 1] = x
            BY <5>2, <1>1
          <6> QED BY <6>1, <1>1 DEF Range
        <5> QED BY <5>1, <5>2, <1>1, <2>1 DEF Range
      <4> QED BY <4>1, <4>2 DEF ListMatchesCounts, IsInjective
    <3> QED BY <3>1, <3>2
  <2>4. PassedBehind'
    <3> SUFFICES ASSUME NEW i \in 1..(n - 1), NEW j \in 1..(n - 1), i < j
                 PROVE  list'[i] \notin passed'[list'[j]]
      BY <1>1, <2>1 DEF PassedBehind
    <3> QED BY <1>1, <1>7, <2>1
  <2> QED BY <1>5, <1>6, <2>2, <2>3, <2>4 DEF ListMatchesCounts, IsInjective
<1>9. CASE Qcnt[e] # 1
  <2>1. list' = Append(Tail(list), e)
    BY <1>4, <1>9
  <2>2. /\ DOMAIN list' = 1..n /\ list'[n] = e
        /\ \A i \in 1..(n - 1) : list'[i] = list[i + 1]
    BY <1>1, <2>1, AppendFacts
  <2>3. \A i, j \in DOMAIN list' : i # j => list'[i] # list'[j]
    BY <1>1, <1>3, <2>2 DEF ListMatchesCounts, IsInjective
  <2>4. Range(list') = Range(list)
    <3>1. ASSUME NEW x \in Range(list) PROVE x \in Range(list')
      <4>1. PICK i \in 1..n : list[i] = x
        BY <1>1 DEF Range
      <4>2. CASE i = 1
        BY <4>1, <4>2, <1>1, <2>2 DEF Range
      <4>3. CASE i # 1
        <5>1. i - 1 \in 1..(n - 1) /\ list'[i - 1] = x
          BY <4>1, <4>3, <2>2, <1>1
        <5> QED BY <5>1, <2>2, <1>1 DEF Range
      <4> QED BY <4>2, <4>3
    <3>2. ASSUME NEW x \in Range(list') PROVE x \in Range(list)
      <4>1. PICK i \in 1..n : list'[i] = x
        BY <2>2 DEF Range
      <4>2. CASE i = n
        BY <4>1, <4>2, <1>1, <2>2 DEF Range
      <4>3. CASE i # n
        <5>1. i \in 1..(n - 1) /\ i + 1 \in 1..n
          BY <4>3, <1>1, BelowLast
        <5>2. list'[i] = list[i + 1]
          BY <5>1, <2>2
        <5> QED BY <5>1, <5>2, <4>1, <1>1 DEF Range
      <4> QED BY <4>2, <4>3
    <3> QED BY <3>1, <3>2
  <2>5. \A x \in Entries : Qcnt'[x] > 0 <=> Qcnt[x] > 0
    BY <1>2, <1>4, <1>9 DEF TypeOK
  <2>6. PassedBehind'
    <3> SUFFICES ASSUME NEW i \in 1..n, NEW j \in 1..n, i < j
                 PROVE  list'[i] \notin passed'[list'[j]]
      BY <2>2 DEF PassedBehind
    <3>1. i \in 1..(n - 1)
      BY <1>1
    <3>2. CASE j = n
      <4>1. list'[j] = e /\ passed'[e] = {}
        BY <3>2, <2>2, <1>1, <1>4
      <4> QED BY <4>1
    <3>3. CASE j # n
      <4>1. j \in 1..(n - 1)
        BY <1>1, <3>3, BelowLast
      <4>2. list'[i] = list[i + 1] /\ list'[j] = list[j + 1]
        BY <3>1, <4>1, <2>2
      <4>3. list[i + 1] \notin passed'[list[j + 1]]
        BY <3>1, <4>1, <1>7
      <4> QED BY <4>2, <4>3
    <3> QED BY <3>2, <3>3
  <2> QED BY <1>5, <1>6, <2>3, <2>4, <2>5, <2>6 DEF ListMatchesCounts, IsInjective
<1> QED BY <1>8, <1>9

\* Every step of a producer or of the consumer keeps IndInv.
LEMMA NextKeeps == IndInv /\ [Next]_vars => IndInv'
<1> SUFFICES ASSUME IndInv, [Next]_vars PROVE IndInv'
  OBVIOUS
<1>1. ASSUME NEW p \in Producers, NEW e \in Entries, push_back(p, e) PROVE IndInv'
  BY <1>1, PushKeeps
<1>2. ASSUME NEW p \in Producers, signal(p) PROVE IndInv'
  BY <1>2 DEF IndInv, signal, TypeOK, ListMatchesCounts, PassedBehind, NoSleepWithWork
<1>3. CASE pop_front_try
  BY <1>3, PopKeeps DEF pop_front_try
<1>4. CASE PopFound
  BY <1>4, PopKeeps DEF PopFound
<1>5. CASE pop_front \/ PopNone \/ WaitDone \/ WaitTimeout
  BY <1>5 DEF IndInv, TypeOK, ListMatchesCounts, PassedBehind, NoSleepWithWork,
              pop_front, PopNone, WaitDone, WaitTimeout
<1>6. CASE UNCHANGED vars
  BY <1>6 DEF IndInv, TypeOK, ListMatchesCounts, PassedBehind, NoSleepWithWork, vars
<1> QED BY <1>1, <1>2, <1>3, <1>4, <1>5, <1>6 DEF Next, Consumer

\* IndInv holds in the empty queue the constructor makes.
LEMMA InitHolds == Init => IndInv
<1> SUFFICES ASSUME Init PROVE IndInv
  OBVIOUS
<1>1. list = <<>> /\ list \in Seq(Entries) /\ DOMAIN list = {} /\ Range(list) = {}
  BY EmptyFacts DEF Init, Range
<1>2. TypeOK
  BY <1>1 DEF Init, TypeOK
<1>3. ListMatchesCounts
  BY <1>1 DEF Init, ListMatchesCounts, IsInjective
<1> QED BY <1>1, <1>2, <1>3 DEF Init, IndInv, PassedBehind, NoSleepWithWork

\* IndInv holds in every reachable state of the queue.
THEOREM Inductive == Spec => []IndInv
  BY InitHolds, NextKeeps, PTL DEF Spec

\* The variables of the queue keep their types.
THEOREM TypeCorrect == Spec => []TypeOK
<1>1. IndInv => TypeOK
  BY DEF IndInv
<1> QED BY Inductive, <1>1, PTL

\* The list holds exactly the entries with a count, each once, whatever the
\* interleaving of push_back() and pop_front().
THEOREM ListMatches == Spec => []ListMatchesCounts
<1>1. IndInv => ListMatchesCounts
  BY DEF IndInv
<1> QED BY Inductive, <1>1, PTL

\* pop_front() never sleeps on a queue that holds something without a signal under
\* way: push_back() may signal only for the first entry, and after unlocking.
THEOREM NoLostSignal == Spec => []NoSleepWithWork
<1>1. IndInv => NoSleepWithWork
  BY DEF IndInv
<1> QED BY Inductive, <1>1, PTL

\* Round robin: while an entry waits in the queue, no other is popped twice.
THEOREM RoundRobinHolds == Spec => RoundRobin
<1>1. IndInv /\ [Next]_vars =>
        [ \A x, e \in Entries :
            x # e /\ Qcnt[e] > 0 /\ popped'[x] > popped[x] => x \notin passed[e] ]_vars
  <2> SUFFICES ASSUME IndInv, Next, NEW x \in Entries, NEW e \in Entries,
                      x # e, Qcnt[e] > 0, popped'[x] > popped[x]
               PROVE  x \notin passed[e]
    OBVIOUS
  <2>1. popped[x] \in Nat
    BY DEF IndInv, TypeOK
  <2>2. Pop
    BY <2>1 DEF Next, Consumer, push_back, signal, pop_front_try, pop_front, PopFound,
                PopNone, WaitDone, WaitTimeout
  <2>3. list # <<>> /\ x = Head(list)
    BY <2>1, <2>2 DEF Pop, IndInv, TypeOK
  <2>4. list[1] = x /\ 1 \in DOMAIN list /\ DOMAIN list = 1..Len(list) /\ Len(list) \in Nat
    BY <2>3, TailFacts DEF IndInv, TypeOK
  <2>5. PICK j \in DOMAIN list : list[j] = e
    BY DEF IndInv, ListMatchesCounts, Range
  <2>6. 1 < j
    BY <2>4, <2>5
  <2> QED BY <2>4, <2>5, <2>6 DEF IndInv, PassedBehind
<1> QED BY Inductive, <1>1, PTL DEF Spec, RoundRobin
=============================================================================
