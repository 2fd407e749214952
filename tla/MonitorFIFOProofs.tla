--------------------------- MODULE MonitorFIFOProofs ---------------------------
(***************************************************************************)
(* Proofs about MonitorFIFO, for any fields, types, queue size, number of  *)
(* consumer threads and bounds.                                            *)
(***************************************************************************)
EXTENDS MonitorFIFO, SequenceFacts, FiniteSetTheorems, TLAPS

\* The constructor always settles on a queue of at least one element, whatever the
\* Config and the pvRequest ask for.
LEMMA CountPositive == ActualCount \in Nat /\ ActualCount >= 1
  BY ConfigAssumption DEF ActualCount

-----------------------------------------------------------------------------
(* Type correctness                                                         *)

Callbacks == Flags \cup {"freeHighMark"}

\* notify() makes callbacks of the requester, in a list.
LEMMA PendingType ==
    ASSUME NEW flags PROVE Pending(flags) \in Seq(Callbacks)
<1> DEFINE If(c) == IF c \in flags THEN <<c>> ELSE <<>>
<1>1. \A c \in Callbacks : If(c) \in Seq(Callbacks)
  OBVIOUS
<1>2. {"connect", "event", "unlisten", "close"} \subseteq Callbacks
  BY DEF Callbacks, Flags
<1> HIDE DEF If
<1>3. If("connect") \o If("event") \in Seq(Callbacks)
  BY <1>1, <1>2
<1>4. (If("connect") \o If("event")) \o If("unlisten") \in Seq(Callbacks)
  BY <1>1, <1>2, <1>3
<1>5. ((If("connect") \o If("event")) \o If("unlisten")) \o If("close") \in Seq(Callbacks)
  BY <1>1, <1>2, <1>4
<1> QED BY <1>5 DEF Pending, If

\* A thread that leaves the mutex is given the callbacks it has to make.
LEMMA CallsType ==
    ASSUME TypeOK, NEW t, NEW s \in Seq(Callbacks)
    PROVE  /\ [calls EXCEPT ![t] = s] \in [Threads -> Seq(Flags \cup {"freeHighMark"})]
           /\ <<>> \in Seq(Callbacks)
           /\ \A c \in Callbacks : <<c>> \in Seq(Callbacks)
<1>1. calls \in [Threads -> Seq(Callbacks)]
  BY DEF TypeOK, Callbacks
<1>2. [calls EXCEPT ![t] = s] \in [Threads -> Seq(Callbacks)]
  BY <1>1
<1> QED BY <1>2 DEF Callbacks

\* The callbacks of start(), poll() and release().
LEMMA CallLists ==
    /\ StartCalls \in Seq(Callbacks)
    /\ PollCalls \in Seq(Callbacks)
    /\ <<"freeHighMark">> \in Seq(Callbacks)
<1>1. "event" \in Callbacks /\ "unlisten" \in Callbacks /\ "freeHighMark" \in Callbacks
  BY DEF Callbacks, Flags
<1> QED BY <1>1 DEF StartCalls, PollCalls

\* An update put at the back of the queue by post() or tryPost() is well formed.
LEMMA EnqueueType ==
    ASSUME TypeOK, NEW elem \in Element, NEW changed \in SUBSET Fields,
           NEW overrun \in SUBSET Fields,
           Enqueue(elem, Selected(changed), overrun)
    PROVE  /\ inuse' \in Seq(Update) /\ latest' \in [Fields -> Nat]
           /\ need' \in SUBSET Flags /\ flowCount' \in Int
<1>1. Selected(changed) \subseteq Mask /\ overrun \cap Mask \subseteq Mask
  BY DEF Selected
<1>2. latest' \in [Fields -> Nat]
  BY DEF Enqueue, TypeOK
<1> DEFINE val == [f \in Fields |-> IF f \in Selected(changed) THEN latest[f] + 1 ELSE 0]
<1>3. val \in [Fields -> Nat]
  BY DEF TypeOK
<1> HIDE DEF val
<1>4. [elem |-> elem, changed |-> Selected(changed), val |-> val,
       overrun |-> overrun \cap Mask] \in Update
  BY <1>1, <1>3 DEF Update
<1>5. inuse' \in Seq(Update)
  BY <1>4, AppendFacts DEF Enqueue, TypeOK, val
<1>6. need' \in SUBSET Flags /\ flowCount' \in Int
  BY DEF Enqueue, TypeOK, Flags
<1> QED BY <1>2, <1>5, <1>6

\* A free slot, with or without a window, is an element of the empty list.
LEMMA FreeHasElement ==
    ASSUME NEW flow \in Int, NEW e \in Seq(Element), FreeCount(flow, e) > 0
    PROVE  e # <<>>
  BY DEF FreeCount

\* Squashing an update into a queued one leaves a well-formed update of the same
\* element.
LEMMA SquashType ==
    ASSUME TypeOK, NEW u \in Update, NEW changed \in SUBSET Fields,
           NEW overrun \in SUBSET Fields
    PROVE  /\ Squash(u, Selected(changed), overrun) \in Update
           /\ Squash(u, Selected(changed), overrun).elem = u.elem
<1>1. Selected(changed) \subseteq Mask /\ overrun \cap Mask \subseteq Mask
  BY DEF Selected
<1>2. [f \in Fields |-> IF f \in Selected(changed) THEN latest[f] + 1 ELSE u.val[f]]
        \in [Fields -> Nat]
  BY DEF TypeOK, Update
<1> QED BY <1>1, <1>2 DEF Squash, Update

\* tryPost(), called by the source's thread or from freeHighMark().
LEMMA TryPostType ==
    ASSUME TypeOK, NEW changed \in SUBSET Fields, NEW overrun \in SUBSET Fields,
           NEW force \in BOOLEAN, tryPost(changed, overrun, force), UNCHANGED calls
    PROVE  TypeOK'
<1>1. CASE /\ FreeCount(flowCount, empty) > 0
           /\ Enqueue(Head(empty), Selected(changed), overrun)
           /\ empty' = Tail(empty) /\ alloc' = alloc
  <2>1. empty # <<>>
    BY <1>1, FreeHasElement DEF TypeOK
  <2>2. Head(empty) \in Element /\ Tail(empty) \in Seq(Element)
    BY <2>1, TailFacts DEF TypeOK
  <2>3. /\ inuse' \in Seq(Update) /\ latest' \in [Fields -> Nat]
        /\ need' \in SUBSET Flags /\ flowCount' \in Int
    BY <1>1, <2>2, EnqueueType
  <2> QED BY <1>1, <2>2, <2>3 DEF TypeOK, tryPost
<1>2. CASE /\ Enqueue([gen |-> gen, num |-> alloc + 1, type |-> type], Selected(changed), overrun)
           /\ alloc' = alloc + 1 /\ empty' = empty
  <2>1. [gen |-> gen, num |-> alloc + 1, type |-> type] \in Element
    BY DEF TypeOK, Element
  <2>2. /\ inuse' \in Seq(Update) /\ latest' \in [Fields -> Nat]
        /\ need' \in SUBSET Flags /\ flowCount' \in Int
    BY <1>2, <2>1, EnqueueType
  <2> QED BY <1>2, <2>2 DEF TypeOK, tryPost
<1> QED BY <1>1, <1>2 DEF tryPost

\* The steps of the source.
LEMMA UpType == TypeOK /\ UpNext => TypeOK'
<1> SUFFICES ASSUME TypeOK, UpNext PROVE TypeOK'
  OBVIOUS
<1>1. ASSUME NEW t \in Types, open(t) PROVE TypeOK'
  <2>1. [i \in 1..(ActualCount + 1) |-> [gen |-> gen + 1, num |-> i, type |-> t]]
          \in Seq(Element)
    <3>1. \A i \in 1..(ActualCount + 1) : [gen |-> gen + 1, num |-> i, type |-> t] \in Element
      BY CountPositive DEF Element, TypeOK
    <3> QED BY <3>1, CountPositive
  <2>2. need' \in SUBSET Flags
    BY <1>1 DEF open, TypeOK, Flags
  <2>3. inuse' \in Seq(Update) /\ returned' \in Seq(Element) /\ empty' \in Seq(Element)
    BY <1>1, <2>1, EmptyFacts DEF open
  <2>4. latest' \in [Fields -> Nat] /\ seen' \in [Fields -> Nat]
    BY <1>1 DEF open
  <2> QED BY <1>1, <2>2, <2>3, <2>4, CountPositive DEF open, TypeOK
<1>2. CASE close \/ finish
  BY <1>2 DEF close, finish, TypeOK, Flags, listVars, obsVars
<1>3. ASSUME NEW changed \in SUBSET Fields, NEW overrun \in Overruns,
             PostToEmpty(changed, overrun)
      PROVE  TypeOK'
  <2>1. Head(empty) \in Element /\ Tail(empty) \in Seq(Element)
    BY <1>3, TailFacts DEF TypeOK, PostToEmpty
  <2>2. overrun \in SUBSET Fields
    BY ConfigAssumption
  <2>3. /\ inuse' \in Seq(Update) /\ latest' \in [Fields -> Nat]
        /\ need' \in SUBSET Flags /\ flowCount' \in Int
    BY <1>3, <2>1, <2>2, EnqueueType DEF PostToEmpty
  <2> QED BY <1>3, <2>1, <2>3 DEF TypeOK, PostToEmpty
<1>4. ASSUME NEW changed \in SUBSET Fields, NEW overrun \in Overruns,
             PostSquash(changed, overrun)
      PROVE  TypeOK'
  <2>1. overrun \in SUBSET Fields
    BY ConfigAssumption
  <2>2. Len(inuse) \in DOMAIN inuse /\ inuse[Len(inuse)] \in Update
    BY <1>4 DEF PostSquash, TypeOK
  <2>3. inuse' \in Seq(Update)
    BY <1>4, <2>1, <2>2, SquashType DEF PostSquash, TypeOK
  <2>4. latest' \in [Fields -> Nat]
    BY <1>4 DEF PostSquash, TypeOK
  <2> QED BY <1>4, <2>3, <2>4 DEF PostSquash, TypeOK, flagVars
<1>5. ASSUME NEW changed \in SUBSET Fields, NEW overrun \in Overruns, NEW force \in BOOLEAN,
             tryPost(changed, overrun, force), UNCHANGED calls
      PROVE  TypeOK'
  BY <1>5, TryPostType, ConfigAssumption
<1>6. CASE notify("up")
  <2>1. calls' \in [Threads -> Seq(Flags \cup {"freeHighMark"})]
    BY <1>6, PendingType, CallsType DEF notify
  <2> QED BY <1>6, <2>1 DEF notify, TypeOK, listVars, obsVars
<1> QED BY <1>1, <1>2, <1>3, <1>4, <1>5, <1>6 DEF UpNext

\* The steps of a thread of the consumer.
LEMMA DownType == ASSUME TypeOK, NEW t \in DownThreads, DownNext(t) PROVE TypeOK'
<1>1. CASE start(t)
  <2>1. calls' \in [Threads -> Seq(Flags \cup {"freeHighMark"})]
    BY <1>1, CallLists, CallsType DEF start
  <2> QED BY <1>1, <2>1 DEF start, TypeOK, listVars, obsVars
<1>2. CASE stop(t)
  BY <1>2 DEF stop, TypeOK, listVars, obsVars
<1>3. CASE poll(t)
  <2>1. inuse # <<>> /\ Tail(inuse) \in Seq(Update) /\ Head(inuse) \in Update
    BY <1>3, TailFacts DEF poll, Available, TypeOK
  <2>2. seen' \in [Fields -> Nat]
    BY <1>3, <2>1 DEF poll, TypeOK, Update
  <2>3. polled' \in SUBSET Element
    BY <1>3, <2>1 DEF poll, TypeOK, Update
  <2>4. calls' \in [Threads -> Seq(Flags \cup {"freeHighMark"})]
    BY <1>3, CallLists, CallsType DEF poll
  <2> QED BY <1>3, <2>1, <2>2, <2>3, <2>4 DEF poll, TypeOK, flagVars
<1>4. CASE pollNull(t)
  BY <1>4 DEF pollNull, TypeOK, listVars, flagVars
<1>5. ASSUME NEW e \in polled, release(t, e) PROVE TypeOK'
  <2>1. e \in Element
    BY DEF TypeOK
  <2>2. empty' \in Seq(Element) /\ returned' \in Seq(Element)
    <3>1. Append(returned, e) \in Seq(Element) /\ <<e>> \o empty \in Seq(Element)
      BY <2>1, AppendFacts, SingleFacts, ConcatRange DEF TypeOK
    <3> QED BY <1>5, <3>1 DEF release, TypeOK
  <2>3. calls' \in [Threads -> Seq(Flags \cup {"freeHighMark"})]
    <3>1. calls' \in {calls, [calls EXCEPT ![t] = <<"freeHighMark">>]}
      BY <1>5 DEF release
    <3>2. calls \in [Threads -> Seq(Flags \cup {"freeHighMark"})]
      BY DEF TypeOK
    <3>3. [calls EXCEPT ![t] = <<"freeHighMark">>]
            \in [Threads -> Seq(Flags \cup {"freeHighMark"})]
      BY CallLists, CallsType
    <3> QED BY <3>1, <3>2, <3>3
  <2> QED BY <1>5, <2>2, <2>3 DEF release, TypeOK, flagVars
<1>6. ASSUME NEW nfree \in 1..MaxWindow, reportRemoteQueueStatus(t, nfree) PROVE TypeOK'
  <2> DEFINE nack == IF nfree < Len(returned) THEN nfree ELSE Len(returned)
  <2>1. nack \in 0..Len(returned) /\ Len(returned) \in Nat
    BY DEF TypeOK
  <2>2. SubSeq(returned, 1, nack) \in Seq(Element)
        /\ SubSeq(returned, nack + 1, Len(returned)) \in Seq(Element)
    BY <2>1 DEF TypeOK
  <2>3. empty' \in Seq(Element) /\ returned' \in Seq(Element)
    BY <1>6, <2>2, ConcatRange DEF reportRemoteQueueStatus, TypeOK
  <2>4. calls' \in [Threads -> Seq(Flags \cup {"freeHighMark"})]
    <3>1. calls' \in {calls, [calls EXCEPT ![t] = <<"freeHighMark">>]}
      BY <1>6 DEF reportRemoteQueueStatus
    <3>2. calls \in [Threads -> Seq(Flags \cup {"freeHighMark"})]
      BY DEF TypeOK
    <3>3. [calls EXCEPT ![t] = <<"freeHighMark">>]
            \in [Threads -> Seq(Flags \cup {"freeHighMark"})]
      BY CallLists, CallsType
    <3> QED BY <3>1, <3>2, <3>3
  <2>5. flowCount' \in Int
    BY <1>6 DEF reportRemoteQueueStatus, TypeOK
  <2> QED BY <1>6, <2>3, <2>4, <2>5 DEF reportRemoteQueueStatus, TypeOK, flagVars, obsVars
<1> QED BY <1>1, <1>2, <1>3, <1>4, <1>5, <1>6 DEF DownNext

\* The callbacks that a thread makes after unlocking.
LEMMA CallType == ASSUME TypeOK, NEW t \in Threads, CallNext(t) PROVE TypeOK'
<1>1. CASE deliver(t)
  <2>1. Tail(calls[t]) \in Seq(Flags \cup {"freeHighMark"})
    BY <1>1, TailFacts DEF deliver, TypeOK
  <2>2. calls' \in [Threads -> Seq(Flags \cup {"freeHighMark"})]
    BY <1>1, <2>1 DEF deliver, TypeOK
  <2> QED BY <1>1, <2>2 DEF deliver, TypeOK, listVars, flagVars
<1>2. ASSUME NEW changed \in SUBSET Fields, NEW overrun \in Overruns, NEW force \in BOOLEAN,
             sourcePost(t, changed, overrun, force)
      PROVE  TypeOK'
  BY <1>2, TryPostType, ConfigAssumption DEF sourcePost
<1>3. CASE sourceReturn(t)
  <2>1. calls' \in [Threads -> Seq(Flags \cup {"freeHighMark"})]
    BY <1>3, PendingType, CallsType DEF sourceReturn
  <2> QED BY <1>3, <2>1 DEF sourceReturn, TypeOK, listVars, obsVars
<1> QED BY <1>1, <1>2, <1>3 DEF CallNext

\* The constructor's state is well typed.
LEMMA InitType == Init => TypeOK
<1> SUFFICES ASSUME Init PROVE TypeOK
  OBVIOUS
<1>1. calls \in [Threads -> Seq(Flags \cup {"freeHighMark"})]
  BY EmptyFacts DEF Init
<1>2. inuse \in Seq(Update) /\ empty \in Seq(Element) /\ returned \in Seq(Element)
  BY EmptyFacts DEF Init
<1>3. latest \in [Fields -> Nat] /\ seen \in [Fields -> Nat]
  BY DEF Init
<1>4. need \in SUBSET Flags /\ polled \in SUBSET Element
  BY DEF Init
<1>5. /\ opened \in BOOLEAN /\ running \in BOOLEAN /\ finished \in BOOLEAN
      /\ mustPoll \in BOOLEAN /\ type \in Types
      /\ told \in {"none", "connect", "close"}
  BY DEF Init
<1>6. flowCount \in Int /\ gen \in Nat /\ alloc \in Nat /\ unlistens \in Nat
  BY DEF Init
<1> QED BY <1>1, <1>2, <1>3, <1>4, <1>5, <1>6 DEF TypeOK

\* The variables of MonitorFIFO keep their types; in particular every queued update
\* and overrun mark is confined to the fields that the pvRequest selects.
THEOREM TypeCorrect == Spec => []TypeOK
<1>1. Init => TypeOK
  BY InitType
<1>2. TypeOK /\ [Next]_vars => TypeOK'
  <2> SUFFICES ASSUME TypeOK, [Next]_vars PROVE TypeOK'
    OBVIOUS
  <2>1. CASE UNCHANGED vars
    BY <2>1 DEF vars, listVars, flagVars, obsVars, TypeOK
  <2>2. CASE UpNext
    BY <2>2, UpType
  <2>3. ASSUME NEW t \in DownThreads, DownNext(t) PROVE TypeOK'
    BY <2>3, DownType
  <2>4. ASSUME NEW t \in Threads, CallNext(t) PROVE TypeOK'
    BY <2>4, CallType
  <2> QED BY <2>1, <2>2, <2>3, <2>4 DEF Next
<1> QED BY <1>1, <1>2, PTL DEF Spec

-----------------------------------------------------------------------------
(***************************************************************************)
(* Where the elements are.  Q, E and R are the elements on inuse, empty    *)
(* and returned, P those that the consumer holds; T, g and a are the       *)
(* current type, the number of open() calls and of elements made since the *)
(* last one.  That an element is in one place only needs that every element*)
(* is known: a new one, of open() or forced, is nowhere yet.  That no slot *)
(* is lost needs that the listed elements all have the current type, since *)
(* release() drops an element of another.                                  *)
(***************************************************************************)
Known(x, g, a) == x.gen <= g /\ (x.gen = g => x.num <= a)

Placed(Q, E, R, P, T, g, a) ==
    /\ IsInjective(Q) /\ IsInjective(E) /\ IsInjective(R)
    /\ Range(Q) \cap (Range(E) \cup Range(R) \cup P) = {}
    /\ Range(E) \cap (Range(R) \cup P) = {}
    /\ Range(R) \cap P = {}
    /\ IsFiniteSet(P)
    /\ \A x \in Range(Q) \cup Range(E) \cup Range(R) : x.type = T
    /\ \A x \in Range(Q) \cup Range(E) \cup Range(R) \cup P : Known(x, g, a)
    /\ Len(Q) + Len(E) > 0
    /\ Len(Q) + Len(E) + Len(R) + Cardinality(OfType(P, T)) >= ActualCount + 1
    /\ Len(E) + Len(R) <= ActualCount + 1

\* The consumer holds a finite number of elements of a type.
LEMMA HeldFinite ==
    ASSUME NEW P, IsFiniteSet(P), NEW T
    PROVE  Cardinality(OfType(P, T)) \in Nat
<1>1. IsFiniteSet(OfType(P, T))
  BY FS_Subset DEF OfType
<1> QED BY <1>1, FS_CardinalityType

\* What the consumer holds of the current type, when it takes one more.
LEMMA HeldAdd ==
    ASSUME NEW P, IsFiniteSet(P), NEW T, NEW x, x \notin P, x.type = T
    PROVE  /\ IsFiniteSet(P \cup {x})
           /\ Cardinality(OfType(P, T)) \in Nat
           /\ Cardinality(OfType(P \cup {x}, T))
                = Cardinality(OfType(P, T)) + 1
<1> DEFINE H == OfType(P, T)
<1>1. IsFiniteSet(H)
  BY FS_Subset DEF OfType
<1>2. OfType(P \cup {x}, T) = H \cup {x} /\ x \notin H
  BY DEF OfType
<1> HIDE DEF H
<1>3. Cardinality(H \cup {x}) = Cardinality(H) + 1 /\ Cardinality(H) \in Nat
  BY <1>1, <1>2, FS_AddElement, FS_CardinalityType
<1>4. IsFiniteSet(P \cup {x})
  BY FS_AddElement
<1> QED BY <1>2, <1>3, <1>4 DEF H

\* What the consumer holds of the current type, when it releases one.
LEMMA HeldRemove ==
    ASSUME NEW P, IsFiniteSet(P), NEW T, NEW x \in P
    PROVE  /\ IsFiniteSet(P \ {x})
           /\ Cardinality(OfType(P, T)) \in Nat
           /\ Cardinality(OfType(P \ {x}, T)) \in Nat
           /\ Cardinality(OfType(P \ {x}, T))
                = IF x.type = T THEN Cardinality(OfType(P, T)) - 1
                                ELSE Cardinality(OfType(P, T))
<1> DEFINE H == OfType(P, T)
           G == OfType(P \ {x}, T)
<1>1. IsFiniteSet(H) /\ IsFiniteSet(P \ {x})
  BY FS_Subset DEF OfType
<1>2. IsFiniteSet(G)
  BY <1>1, FS_Subset DEF OfType
<1>3. x.type = T => G = H \ {x} /\ x \in H
  BY DEF OfType
<1>4. x.type # T => G = H
  BY DEF OfType
<1> HIDE DEF H, G
<1>5. x.type = T => Cardinality(G) = Cardinality(H) - 1
  BY <1>1, <1>3, FS_RemoveElement
<1>6. Cardinality(H) \in Nat /\ Cardinality(G) \in Nat
  BY <1>1, <1>2, FS_CardinalityType
<1> QED BY <1>1, <1>4, <1>5, <1>6 DEF H, G

\* post() and tryPost() fill the first empty element.
LEMMA MoveTake ==
    ASSUME NEW Q \in Seq(Element), NEW E \in Seq(Element), NEW R \in Seq(Element),
           NEW P \in SUBSET Element, NEW T, NEW g \in Nat, NEW a \in Nat,
           Placed(Q, E, R, P, T, g, a), E # <<>>
    PROVE  Placed(Append(Q, Head(E)), Tail(E), R, P, T, g, a)
<1> DEFINE x == Head(E)
<1>1. /\ Range(E) = Range(Tail(E)) \cup {x} /\ IsInjective(Tail(E)) /\ x \notin Range(Tail(E))
      /\ x \in Element /\ Tail(E) \in Seq(Element)
  BY TailFacts, TailRange DEF Placed
<1>2. Len(Tail(E)) = Len(E) - 1 /\ Len(E) \in Nat /\ Len(E) > 0 /\ Len(Q) \in Nat /\ Len(R) \in Nat
  BY TailFacts
<1> HIDE DEF x
<1>3. x \notin Range(Q) \cup Range(R) \cup P
  BY <1>1 DEF Placed
<1>4. Range(Append(Q, x)) = Range(Q) \cup {x} /\ IsInjective(Append(Q, x))
  BY <1>1, <1>3, AppendRange DEF Placed
<1>5. Len(Append(Q, x)) = Len(Q) + 1
  BY <1>1, AppendFacts
<1>6. Cardinality(OfType(P, T)) \in Nat
  BY HeldFinite DEF Placed
<1>7. /\ Len(Append(Q, x)) + Len(Tail(E)) > 0
      /\ Len(Append(Q, x)) + Len(Tail(E)) + Len(R) + Cardinality(OfType(P, T))
            >= ActualCount + 1
      /\ Len(Tail(E)) + Len(R) <= ActualCount + 1
  BY <1>2, <1>5, <1>6, CountPositive DEF Placed
<1> QED BY <1>1, <1>3, <1>4, <1>7 DEF Placed, x

\* tryPost(force=true) allocates one more element.
LEMMA MoveForce ==
    ASSUME NEW Q \in Seq(Element), NEW E \in Seq(Element), NEW R \in Seq(Element),
           NEW P \in SUBSET Element, NEW T \in Types, NEW g \in Nat, NEW a \in Nat,
           Placed(Q, E, R, P, T, g, a)
    PROVE  Placed(Append(Q, [gen |-> g, num |-> a + 1, type |-> T]), E, R, P, T, g, a + 1)
<1> DEFINE x == [gen |-> g, num |-> a + 1, type |-> T]
<1>1. x \in Element /\ x.type = T /\ ~Known(x, g, a) /\ Known(x, g, a + 1)
  BY DEF Element, Known
<1> HIDE DEF x
<1>2. x \notin Range(Q) \cup Range(E) \cup Range(R) \cup P
  BY <1>1 DEF Placed
<1>3. Range(Append(Q, x)) = Range(Q) \cup {x} /\ IsInjective(Append(Q, x))
  BY <1>1, <1>2, AppendRange DEF Placed
<1>4. Len(Append(Q, x)) = Len(Q) + 1 /\ Len(Q) \in Nat /\ Len(E) \in Nat /\ Len(R) \in Nat
  BY <1>1, AppendFacts
<1>5. Cardinality(OfType(P, T)) \in Nat
  BY HeldFinite DEF Placed
<1>6. /\ Len(Append(Q, x)) + Len(E) > 0
      /\ Len(Append(Q, x)) + Len(E) + Len(R) + Cardinality(OfType(P, T))
            >= ActualCount + 1
  BY <1>4, <1>5, CountPositive DEF Placed
<1>7. \A y \in Range(Q) \cup Range(E) \cup Range(R) \cup P : Known(y, g, a + 1)
  <2>1. \A y \in Element : Known(y, g, a) => Known(y, g, a + 1)
    BY DEF Known, Element
  <2>2. Range(Q) \cup Range(E) \cup Range(R) \cup P \subseteq Element
    BY DEF Range
  <2> QED BY <2>1, <2>2 DEF Placed
<1> QED BY <1>1, <1>2, <1>3, <1>6, <1>7 DEF Placed, x

\* poll() hands out the oldest update, unless it is the last element.
LEMMA MovePoll ==
    ASSUME NEW Q \in Seq(Element), NEW E \in Seq(Element), NEW R \in Seq(Element),
           NEW P \in SUBSET Element, NEW T, NEW g \in Nat, NEW a \in Nat,
           Placed(Q, E, R, P, T, g, a), Q # <<>>, Len(Q) + Len(E) > 1
    PROVE  Placed(Tail(Q), E, R, P \cup {Head(Q)}, T, g, a)
<1> DEFINE x == Head(Q)
<1>1. /\ Range(Q) = Range(Tail(Q)) \cup {x} /\ IsInjective(Tail(Q)) /\ x \notin Range(Tail(Q))
      /\ x \in Element /\ Tail(Q) \in Seq(Element)
  BY TailFacts, TailRange DEF Placed
<1>2. Len(Tail(Q)) = Len(Q) - 1 /\ Len(Q) \in Nat /\ Len(E) \in Nat /\ Len(R) \in Nat
  BY TailFacts
<1> HIDE DEF x
<1>3. x \notin Range(E) \cup Range(R) \cup P /\ x.type = T
  BY <1>1 DEF Placed
<1>4. /\ IsFiniteSet(P \cup {x})
      /\ Cardinality(OfType(P, T)) \in Nat
      /\ Cardinality(OfType(P \cup {x}, T)) = Cardinality(OfType(P, T)) + 1
  <2>1. IsFiniteSet(P)
    BY DEF Placed
  <2> QED BY <2>1, <1>3, HeldAdd
<1>5. /\ Len(Tail(Q)) + Len(E) > 0
      /\ Len(Tail(Q)) + Len(E) + Len(R) + Cardinality(OfType(P \cup {x}, T))
            >= ActualCount + 1
  BY <1>2, <1>4, CountPositive DEF Placed
<1> QED BY <1>1, <1>3, <1>4, <1>5 DEF Placed, x

\* release() of an element of another type, or of one too many, drops it.
LEMMA MoveDrop ==
    ASSUME NEW Q \in Seq(Element), NEW E \in Seq(Element), NEW R \in Seq(Element),
           NEW P \in SUBSET Element, NEW T, NEW g \in Nat, NEW a \in Nat,
           Placed(Q, E, R, P, T, g, a), NEW x \in P,
           x.type # T \/ Len(E) + Len(R) >= ActualCount + 1
    PROVE  Placed(Q, E, R, P \ {x}, T, g, a)
<1>1. /\ IsFiniteSet(P \ {x})
      /\ Cardinality(OfType(P, T)) \in Nat
      /\ Cardinality(OfType(P \ {x}, T)) \in Nat
      /\ x.type # T => Cardinality(OfType(P \ {x}, T))
                          = Cardinality(OfType(P, T))
  BY HeldRemove DEF Placed
<1>2. Len(Q) \in Nat /\ Len(E) \in Nat /\ Len(R) \in Nat
  OBVIOUS
<1>3. Len(Q) + Len(E) + Len(R) + Cardinality(OfType(P \ {x}, T)) >= ActualCount + 1
  <2>1. CASE x.type # T
    BY <2>1, <1>1 DEF Placed
  <2>2. CASE Len(E) + Len(R) >= ActualCount + 1
    BY <2>2, <1>1, <1>2, CountPositive
  <2> QED BY <2>1, <2>2
<1> QED BY <1>1, <1>3 DEF Placed

\* release() puts the element at the front of the empty list.
LEMMA MoveRelease ==
    ASSUME NEW Q \in Seq(Element), NEW E \in Seq(Element), NEW R \in Seq(Element),
           NEW P \in SUBSET Element, NEW T, NEW g \in Nat, NEW a \in Nat,
           Placed(Q, E, R, P, T, g, a), NEW x \in P,
           x.type = T, ~(Len(E) + Len(R) >= ActualCount + 1)
    PROVE  /\ Placed(Q, <<x>> \o E, R, P \ {x}, T, g, a)
           /\ Placed(Q, E, Append(R, x), P \ {x}, T, g, a)
<1>1. /\ IsFiniteSet(P \ {x})
      /\ Cardinality(OfType(P, T)) \in Nat
      /\ Cardinality(OfType(P \ {x}, T)) = Cardinality(OfType(P, T)) - 1
  <2>1. IsFiniteSet(P)
    BY DEF Placed
  <2> QED BY <2>1, HeldRemove
<1>2. Len(Q) \in Nat /\ Len(E) \in Nat /\ Len(R) \in Nat /\ x \in Element
  OBVIOUS
<1>3. x \notin Range(Q) \cup Range(E) \cup Range(R)
  BY DEF Placed
<1>4. /\ Len(<<x>> \o E) = Len(E) + 1
      /\ Range(<<x>> \o E) = Range(E) \cup {x} /\ IsInjective(<<x>> \o E)
  <2>1. /\ <<x>> \in Seq(Element) /\ Len(<<x>>) = 1
        /\ Range(<<x>>) = {x} /\ IsInjective(<<x>>)
    BY <1>2, SingleFacts
  <2>2. IsInjective(E)
    BY DEF Placed
  <2>3. /\ Len(<<x>> \o E) = Len(<<x>>) + Len(E)
        /\ Range(<<x>> \o E) = Range(<<x>>) \cup Range(E)
        /\ Range(<<x>>) \cap Range(E) = {} => IsInjective(<<x>> \o E)
    BY <2>1, <2>2, ConcatRange
  <2> QED BY <2>1, <2>3, <1>2, <1>3
<1>5. /\ Len(Append(R, x)) = Len(R) + 1
      /\ Range(Append(R, x)) = Range(R) \cup {x} /\ IsInjective(Append(R, x))
  BY <1>2, <1>3, AppendFacts, AppendRange DEF Placed
<1>6. Placed(Q, <<x>> \o E, R, P \ {x}, T, g, a)
  <2>1. /\ Len(Q) + Len(<<x>> \o E) > 0
        /\ Len(Q) + Len(<<x>> \o E) + Len(R) + Cardinality(OfType(P \ {x}, T))
              >= ActualCount + 1
        /\ Len(<<x>> \o E) + Len(R) <= ActualCount + 1
    BY <1>1, <1>2, <1>4, CountPositive DEF Placed
  <2> QED BY <1>1, <1>3, <1>4, <2>1 DEF Placed
<1>7. Placed(Q, E, Append(R, x), P \ {x}, T, g, a)
  <2>1. /\ Len(Q) + Len(E) + Len(Append(R, x)) + Cardinality(OfType(P \ {x}, T))
              >= ActualCount + 1
        /\ Len(E) + Len(Append(R, x)) <= ActualCount + 1
    BY <1>1, <1>2, <1>5, CountPositive DEF Placed
  <2> QED BY <1>1, <1>3, <1>5, <2>1 DEF Placed
<1> QED BY <1>6, <1>7

\* reportRemoteQueueStatus() moves what was acknowledged to the empty list.
LEMMA MoveAck ==
    ASSUME NEW Q \in Seq(Element), NEW E \in Seq(Element), NEW R \in Seq(Element),
           NEW P \in SUBSET Element, NEW T, NEW g \in Nat, NEW a \in Nat,
           Placed(Q, E, R, P, T, g, a), NEW k \in 0..Len(R)
    PROVE  Placed(Q, E \o SubSeq(R, 1, k), SubSeq(R, k + 1, Len(R)), P, T, g, a)
<1> DEFINE A == SubSeq(R, 1, k)
           B == SubSeq(R, k + 1, Len(R))
<1>1. /\ A \in Seq(Element) /\ B \in Seq(Element)
      /\ Len(A) = k /\ Len(B) = Len(R) - k
      /\ Range(A) \subseteq Range(R) /\ Range(B) \subseteq Range(R)
      /\ Range(A) \cap Range(B) = {} /\ IsInjective(A) /\ IsInjective(B)
  BY CutFacts DEF Placed
<1>2. Len(Q) \in Nat /\ Len(E) \in Nat /\ Len(R) \in Nat
  OBVIOUS
<1> HIDE DEF A, B
<1>3. Range(E) \cap Range(A) = {} /\ IsInjective(E)
  BY <1>1 DEF Placed
<1>4. /\ Len(E \o A) = Len(E) + Len(A) /\ Range(E \o A) = Range(E) \cup Range(A)
      /\ IsInjective(E \o A)
  <2>1. A \in Seq(Element) /\ IsInjective(A)
    BY <1>1
  <2> QED BY <2>1, <1>3, ConcatRange
<1>5. Cardinality(OfType(P, T)) \in Nat
  BY HeldFinite DEF Placed
<1>6. /\ Len(Q) + Len(E \o A) > 0
      /\ Len(Q) + Len(E \o A) + Len(B) + Cardinality(OfType(P, T)) >= ActualCount + 1
      /\ Len(E \o A) + Len(B) <= ActualCount + 1
  BY <1>1, <1>2, <1>4, <1>5, CountPositive DEF Placed
<1> QED BY <1>1, <1>4, <1>6 DEF Placed, A, B

\* open() makes new elements; those that the consumer still holds are older.
LEMMA MoveOpen ==
    ASSUME NEW P \in SUBSET Element, IsFiniteSet(P), NEW T \in Types, NEW g \in Nat,
           \A x \in P : x.gen <= g
    PROVE  Placed(<<>>, [i \in 1..(ActualCount + 1) |-> [gen |-> g + 1, num |-> i, type |-> T]],
                  <<>>, P, T, g + 1, ActualCount + 1)
<1> DEFINE n == ActualCount + 1
           E == [i \in 1..n |-> [gen |-> g + 1, num |-> i, type |-> T]]
<1>1. n \in Nat /\ n > 0
  BY CountPositive
<1>2. IsInjective(E) /\ Range(E) = {[gen |-> g + 1, num |-> i, type |-> T] : i \in 1..n}
  BY DEF IsInjective, Range
<1>3. Len(E) = n /\ Len(<<>>) = 0
  BY <1>1
<1>4. \A x \in Range(E) : x.type = T /\ x.gen = g + 1 /\ x.num <= n /\ Known(x, g + 1, n)
  BY <1>1, <1>2 DEF Known
<1>5. \A x \in P : x.gen # g + 1 /\ Known(x, g + 1, n)
  BY DEF Known, Element
<1>6. Range(<<>>) = {} /\ IsInjective(<<>>)
  BY EmptyFacts DEF Range, IsInjective
<1>7. Cardinality(OfType(P, T)) \in Nat
  BY HeldFinite
<1> HIDE DEF n, E
<1>8. Range(E) \cap P = {}
  BY <1>4, <1>5
<1>9. /\ Len(<<>>) + Len(E) > 0
      /\ Len(<<>>) + Len(E) + Len(<<>>) + Cardinality(OfType(P, T)) >= n
      /\ Len(E) + Len(<<>>) <= n
  BY <1>1, <1>3, <1>7
<1>10. Placed(<<>>, E, <<>>, P, T, g + 1, n)
  BY <1>2, <1>4, <1>5, <1>6, <1>8, <1>9 DEF Placed, n
<1> QED BY <1>10 DEF n, E

\* The elements of a list of updates: the list, with one added at the back, without
\* its first.
ElemsOf(u) == [i \in DOMAIN u |-> u[i].elem]

\* ElemsOf() commutes with the operations on the queue.
LEMMA ElemsFacts ==
    ASSUME NEW u \in Seq(Update)
    PROVE  /\ ElemsOf(u) \in Seq(Element) /\ Len(ElemsOf(u)) = Len(u)
           /\ \A x \in Update : ElemsOf(Append(u, x)) = Append(ElemsOf(u), x.elem)
           /\ u # <<>> => /\ ElemsOf(Tail(u)) = Tail(ElemsOf(u))
                          /\ Head(ElemsOf(u)) = Head(u).elem
                          /\ ElemsOf(u) # <<>>
<1>1. \A i \in 1..Len(u) : u[i].elem \in Element
  <2>1. \A i \in 1..Len(u) : u[i] \in Update
    OBVIOUS
  <2>2. \A x \in Update : x.elem \in Element
    BY DEF Update
  <2> QED BY <2>1, <2>2
<1>2. DOMAIN u = 1..Len(u) /\ Len(u) \in Nat
  OBVIOUS
<1>3. ElemsOf(u) \in Seq(Element) /\ Len(ElemsOf(u)) = Len(u)
  <2>1. ElemsOf(u) = [i \in 1..Len(u) |-> u[i].elem]
    BY <1>2 DEF ElemsOf
  <2> QED BY <1>1, <1>2, <2>1
<1>4. ASSUME NEW x \in Update PROVE ElemsOf(Append(u, x)) = Append(ElemsOf(u), x.elem)
  <2>1. x.elem \in Element
    BY DEF Update
  <2> DEFINE A == ElemsOf(Append(u, x))
             B == Append(ElemsOf(u), x.elem)
  <2>2. A = [i \in 1..(Len(u) + 1) |-> Append(u, x)[i].elem]
    BY AppendFacts DEF ElemsOf
  <2>3. B \in Seq(Element) /\ DOMAIN B = 1..(Len(u) + 1)
    BY <1>3, <2>1, AppendFacts
  <2>4. B = [i \in 1..(Len(u) + 1) |-> B[i]]
    BY <2>3
  <2>5. ASSUME NEW i \in 1..(Len(u) + 1) PROVE Append(u, x)[i].elem = B[i]
    <3>1. CASE i = Len(u) + 1
      BY <3>1, <1>3, <2>1, AppendFacts
    <3>2. CASE i # Len(u) + 1
      <4>1. i \in DOMAIN u /\ i \in DOMAIN ElemsOf(u)
        BY <3>2, <1>2 DEF ElemsOf
      <4>2. Append(u, x)[i] = u[i] /\ B[i] = ElemsOf(u)[i]
        BY <4>1, <1>3, <2>1, AppendFacts
      <4> QED BY <4>1, <4>2 DEF ElemsOf
    <3> QED BY <3>1, <3>2
  <2> QED BY <2>2, <2>4, <2>5
<1>5. ASSUME u # <<>>
      PROVE  /\ ElemsOf(Tail(u)) = Tail(ElemsOf(u))
             /\ Head(ElemsOf(u)) = Head(u).elem
             /\ ElemsOf(u) # <<>>
  <2>1. ElemsOf(u) # <<>>
    BY <1>3, <1>5
  <2>2. Head(ElemsOf(u)) = Head(u).elem
    <3>1. Head(ElemsOf(u)) = ElemsOf(u)[1] /\ Head(u) = u[1] /\ 1 \in DOMAIN u
      BY <1>3, <1>5, <2>1, TailFacts
    <3> QED BY <3>1 DEF ElemsOf
  <2>3. ElemsOf(Tail(u)) = [i \in 1..(Len(u) - 1) |-> Tail(u)[i].elem]
    BY <1>5, TailFacts DEF ElemsOf
  <2>4. Tail(ElemsOf(u)) \in Seq(Element) /\ DOMAIN Tail(ElemsOf(u)) = 1..(Len(u) - 1)
    BY <1>3, <2>1, TailFacts
  <2>5. Tail(ElemsOf(u)) = [i \in 1..(Len(u) - 1) |-> Tail(ElemsOf(u))[i]]
    BY <2>4, ListIsFunction
  <2>6. ASSUME NEW i \in 1..(Len(u) - 1) PROVE Tail(u)[i].elem = Tail(ElemsOf(u))[i]
    <3>1. Tail(u)[i] = u[i + 1]
      BY <1>5
    <3>2. Tail(ElemsOf(u))[i] = ElemsOf(u)[i + 1]
      BY <1>3, <2>1
    <3>3. i + 1 \in DOMAIN u
      BY <1>2
    <3> QED BY <3>1, <3>2, <3>3 DEF ElemsOf
  <2> QED BY <2>1, <2>2, <2>3, <2>5, <2>6
<1> QED BY <1>3, <1>4, <1>5

\* Squashing an update into the last of a list leaves its elements alone.
LEMMA ElemsSquash ==
    ASSUME NEW u \in Seq(Update), u # <<>>, NEW x \in Update, x.elem = u[Len(u)].elem
    PROVE  ElemsOf([u EXCEPT ![Len(u)] = x]) = ElemsOf(u)
<1> DEFINE v == [u EXCEPT ![Len(u)] = x]
<1>1. DOMAIN v = DOMAIN u
  OBVIOUS
<1>2. \A i \in DOMAIN u : v[i].elem = u[i].elem
  OBVIOUS
<1> QED BY <1>1, <1>2 DEF ElemsOf

(***************************************************************************)
(* The inductive invariant: before the first open() there are no elements; *)
(* from then on they are placed.                                           *)
(***************************************************************************)
ElemInv ==
    /\ TypeOK
    /\ opened => gen > 0
    /\ IF gen = 0
       THEN inuse = <<>> /\ empty = <<>> /\ returned = <<>> /\ polled = {}
       ELSE Placed(ElemsOf(inuse), empty, returned, polled, type, gen, alloc)

\* It says what NoAliasing, AlwaysOneElement and NoSlotLeak say.
LEMMA ElemInvImplies == ElemInv => NoAliasing /\ AlwaysOneElement /\ NoSlotLeak
<1> SUFFICES ASSUME ElemInv PROVE NoAliasing /\ AlwaysOneElement /\ NoSlotLeak
  OBVIOUS
<1>1. Queued = ElemsOf(inuse)
  BY DEF Queued, ElemsOf
<1>2. CASE gen = 0
  <2>1. Range(<<>>) = {} /\ IsInjective(<<>>) /\ Queued = <<>>
    <3>1. Len(Queued) = 0 /\ Queued \in Seq(Element)
      BY <1>1, <1>2, ElemsFacts DEF ElemInv, TypeOK
    <3> QED BY <3>1, EmptyFacts DEF Range, IsInjective
  <2> QED BY <1>2, <2>1 DEF ElemInv, NoAliasing, AlwaysOneElement, NoSlotLeak
<1>3. CASE gen # 0
  <2>1. Placed(Queued, empty, returned, polled, type, gen, alloc)
    BY <1>1, <1>3 DEF ElemInv
  <2>2. Len(Queued) = Len(inuse)
    BY <1>1, ElemsFacts DEF ElemInv, TypeOK
  <2> QED BY <2>1, <2>2 DEF Placed, NoAliasing, AlwaysOneElement, NoSlotLeak
<1> QED BY <1>2, <1>3

\* The step of a thread that fills an empty element keeps the elements placed.
LEMMA TakeKeeps ==
    ASSUME ElemInv, TypeOK', NEW changed \in SUBSET Fields, NEW overrun \in SUBSET Fields,
           opened, empty # <<>>, Enqueue(Head(empty), Selected(changed), overrun),
           empty' = Tail(empty), UNCHANGED <<returned, polled, type, gen, alloc, opened>>
    PROVE  ElemInv'
<1>1. inuse' \in Seq(Update) /\ inuse \in Seq(Update) /\ Head(empty) \in Element
  BY TailFacts DEF ElemInv, TypeOK
<1>2. PICK x : inuse' = Append(inuse, x) /\ x.elem = Head(empty)
  BY DEF Enqueue
<1>3. x \in Update
  <2>1. inuse'[Len(inuse) + 1] = x /\ Len(inuse) + 1 \in DOMAIN inuse'
    BY <1>1, <1>2
  <2> QED BY <1>1, <2>1
<1>4. ElemsOf(inuse') = Append(ElemsOf(inuse), Head(empty))
  BY <1>1, <1>2, <1>3, ElemsFacts
<1>5. ElemsOf(inuse) \in Seq(Element)
  BY <1>1, ElemsFacts
<1>6. gen # 0 /\ Placed(ElemsOf(inuse), empty, returned, polled, type, gen, alloc)
  BY DEF ElemInv, TypeOK
<1>7. Placed(ElemsOf(inuse'), empty', returned, polled, type, gen, alloc)
  BY <1>4, <1>5, <1>6, MoveTake DEF ElemInv, TypeOK
<1> QED BY <1>6, <1>7 DEF ElemInv

\* So does tryPost().
LEMMA TryPostKeeps ==
    ASSUME ElemInv, TypeOK', NEW changed \in SUBSET Fields, NEW overrun \in SUBSET Fields,
           NEW force \in BOOLEAN, tryPost(changed, overrun, force)
    PROVE  ElemInv'
<1>1. opened /\ UNCHANGED <<returned, polled, type, gen, opened>>
  BY DEF tryPost, Relevant
<1>2. CASE /\ FreeCount(flowCount, empty) > 0
           /\ Enqueue(Head(empty), Selected(changed), overrun)
           /\ empty' = Tail(empty) /\ alloc' = alloc
  <2>1. empty # <<>>
    BY <1>2, FreeHasElement DEF ElemInv, TypeOK
  <2> QED BY <1>1, <1>2, <2>1, TakeKeeps
<1>3. CASE /\ Enqueue([gen |-> gen, num |-> alloc + 1, type |-> type], Selected(changed), overrun)
           /\ alloc' = alloc + 1 /\ empty' = empty
  <2> DEFINE e == [gen |-> gen, num |-> alloc + 1, type |-> type]
  <2>1. inuse' \in Seq(Update) /\ inuse \in Seq(Update)
    BY DEF ElemInv, TypeOK
  <2>2. PICK x : inuse' = Append(inuse, x) /\ x.elem = e
    BY <1>3 DEF Enqueue
  <2>3. x \in Update
    <3>1. inuse'[Len(inuse) + 1] = x /\ Len(inuse) + 1 \in DOMAIN inuse'
      BY <2>1, <2>2
    <3> QED BY <2>1, <3>1
  <2>4. ElemsOf(inuse') = Append(ElemsOf(inuse), e)
    BY <2>1, <2>2, <2>3, ElemsFacts
  <2>5. ElemsOf(inuse) \in Seq(Element)
    BY <2>1, ElemsFacts
  <2>6. gen # 0 /\ Placed(ElemsOf(inuse), empty, returned, polled, type, gen, alloc)
    BY <1>1 DEF ElemInv, TypeOK
  <2>7. Placed(ElemsOf(inuse'), empty, returned, polled, type, gen, alloc + 1)
    BY <2>4, <2>5, <2>6, MoveForce DEF ElemInv, TypeOK
  <2> QED BY <1>1, <1>3, <2>6, <2>7 DEF ElemInv
<1> QED BY <1>2, <1>3 DEF tryPost

\* Steps that leave the lists alone keep the elements placed.
LEMMA ListsKept ==
    ASSUME ElemInv, TypeOK', UNCHANGED listVars, opened' => opened
    PROVE  ElemInv'
  BY DEF ElemInv, listVars

\* The steps of the source keep the elements placed.
LEMMA UpKeeps == ASSUME ElemInv, TypeOK', UpNext PROVE ElemInv'
<1>1. ASSUME NEW t \in Types, open(t) PROVE ElemInv'
  <2>1. polled \in SUBSET Element /\ gen \in Nat /\ gen' = gen + 1 /\ polled' = polled
    BY <1>1 DEF ElemInv, TypeOK, open
  <2>2. IsFiniteSet(polled) /\ \A x \in polled : x.gen <= gen
    <3>1. CASE gen = 0
      BY <3>1, FS_EmptySet DEF ElemInv
    <3>2. CASE gen # 0
      BY <3>2 DEF ElemInv, Placed, Known
    <3> QED BY <3>1, <3>2
  <2>3. Placed(<<>>, empty', <<>>, polled, t, gen + 1, ActualCount + 1)
    BY <1>1, <2>1, <2>2, MoveOpen DEF open
  <2>4. ElemsOf(inuse') = <<>>
    <3>1. inuse' \in Seq(Update) /\ Len(inuse') = 0
      BY <1>1 DEF open, TypeOK
    <3>2. ElemsOf(inuse') \in Seq(Element) /\ Len(ElemsOf(inuse')) = 0
      BY <3>1, ElemsFacts
    <3> QED BY <3>2
  <2>5. gen' # 0 /\ gen' > 0
    BY <2>1
  <2>6. /\ returned' = <<>> /\ polled' = polled /\ type' = t /\ gen' = gen + 1
        /\ alloc' = ActualCount + 1
    BY <1>1 DEF open
  <2>7. Placed(ElemsOf(inuse'), empty', returned', polled', type', gen', alloc')
    BY <2>3, <2>4, <2>6
  <2> QED BY <2>5, <2>7 DEF ElemInv
<1>2. CASE close \/ finish \/ notify("up")
  BY <1>2, ListsKept DEF close, finish, notify
<1>3. ASSUME NEW changed \in SUBSET Fields, NEW overrun \in Overruns,
             PostToEmpty(changed, overrun)
      PROVE  ElemInv'
  <2>1. overrun \in SUBSET Fields
    BY ConfigAssumption
  <2> QED BY <1>3, <2>1, TakeKeeps DEF PostToEmpty, Relevant
<1>4. ASSUME NEW changed \in SUBSET Fields, NEW overrun \in Overruns,
             PostSquash(changed, overrun)
      PROVE  ElemInv'
  <2>1. overrun \in SUBSET Fields /\ inuse \in Seq(Update) /\ inuse # <<>> /\ TypeOK
    BY <1>4, ConfigAssumption DEF ElemInv, TypeOK, PostSquash
  <2> DEFINE u == inuse[Len(inuse)]
             v == Squash(u, Selected(changed), overrun)
  <2>2. u \in Update
    BY <2>1
  <2>3. v \in Update /\ v.elem = u.elem
    BY <2>1, <2>2, SquashType
  <2>4. inuse' = [inuse EXCEPT ![Len(inuse)] = v]
    BY <1>4 DEF PostSquash
  <2> HIDE DEF v
  <2>5. ElemsOf(inuse') = ElemsOf(inuse)
    BY <2>1, <2>3, <2>4, ElemsSquash
  <2>6. gen # 0
    BY <1>4, <2>1 DEF PostSquash, ElemInv
  <2> QED BY <1>4, <2>5, <2>6 DEF PostSquash, ElemInv, flagVars
<1>5. ASSUME NEW changed \in SUBSET Fields, NEW overrun \in Overruns, NEW force \in BOOLEAN,
             tryPost(changed, overrun, force)
      PROVE  ElemInv'
  BY <1>5, TryPostKeeps, ConfigAssumption
<1> QED BY <1>1, <1>2, <1>3, <1>4, <1>5 DEF UpNext

\* The steps of the consumer keep the elements placed.
LEMMA DownKeeps == ASSUME ElemInv, TypeOK', NEW t \in DownThreads, DownNext(t) PROVE ElemInv'
<1> DEFINE Q == ElemsOf(inuse)
<1>1. /\ Q \in Seq(Element) /\ Len(Q) = Len(inuse) /\ inuse \in Seq(Update)
      /\ empty \in Seq(Element) /\ returned \in Seq(Element) /\ polled \in SUBSET Element
      /\ gen \in Nat /\ alloc \in Nat
  BY ElemsFacts DEF ElemInv, TypeOK
<1>2. CASE start(t) \/ stop(t) \/ pollNull(t)
  BY <1>2, ListsKept DEF start, stop, pollNull, flagVars
<1>3. CASE poll(t)
  <2>1. inuse # <<>> /\ Len(inuse) + Len(empty) > 1 /\ gen # 0
    BY <1>3 DEF poll, Available, ElemInv
  <2>2. Placed(Q, empty, returned, polled, type, gen, alloc)
    BY <2>1 DEF ElemInv
  <2>3. ElemsOf(inuse') = Tail(Q) /\ Head(Q) = Head(inuse).elem /\ Q # <<>>
    BY <1>1, <1>3, <2>1, ElemsFacts DEF poll
  <2>4. Placed(Tail(Q), empty, returned, polled \cup {Head(Q)}, type, gen, alloc)
    BY <1>1, <2>1, <2>2, <2>3, MovePoll
  <2> QED BY <1>3, <2>1, <2>3, <2>4 DEF poll, ElemInv, flagVars
<1>4. ASSUME NEW e \in polled, release(t, e) PROVE ElemInv'
  <2>1. gen # 0
    BY <1>4 DEF ElemInv
  <2>2. Placed(Q, empty, returned, polled, type, gen, alloc)
    BY <2>1 DEF ElemInv
  <2>3. UNCHANGED <<inuse, gen, alloc, type, opened>> /\ polled' = polled \ {e}
    BY <1>4 DEF release, flagVars
  <2>4. CASE Unwanted(e)
    <3>1. empty' = empty /\ returned' = returned
      BY <1>4, <2>4 DEF release
    <3>2. Placed(Q, empty, returned, polled \ {e}, type, gen, alloc)
      BY <1>1, <2>2, <2>4, MoveDrop DEF Unwanted
    <3> QED BY <2>1, <2>3, <3>1, <3>2 DEF ElemInv
  <2>5. CASE ~Unwanted(e)
    <3>1. /\ Placed(Q, <<e>> \o empty, returned, polled \ {e}, type, gen, alloc)
          /\ Placed(Q, empty, Append(returned, e), polled \ {e}, type, gen, alloc)
      BY <1>1, <2>2, <2>5, MoveRelease DEF Unwanted
    <3>2. \/ empty' = <<e>> \o empty /\ returned' = returned
          \/ empty' = empty /\ returned' = Append(returned, e)
      BY <1>4, <2>5 DEF release
    <3> QED BY <2>1, <2>3, <3>1, <3>2 DEF ElemInv
  <2> QED BY <2>4, <2>5
<1>5. ASSUME NEW nfree \in 1..MaxWindow, reportRemoteQueueStatus(t, nfree) PROVE ElemInv'
  <2> DEFINE k == IF nfree < Len(returned) THEN nfree ELSE Len(returned)
  <2>1. k \in 0..Len(returned)
    BY <1>1
  <2>2. /\ empty' = empty \o SubSeq(returned, 1, k)
        /\ returned' = SubSeq(returned, k + 1, Len(returned))
        /\ UNCHANGED <<inuse, polled, gen, alloc, type, opened>>
    BY <1>5 DEF reportRemoteQueueStatus, flagVars
  <2> HIDE DEF k
  <2>3. CASE gen = 0
    <3>1. empty = <<>> /\ returned = <<>> /\ k = 0
      BY <2>1, <2>3 DEF ElemInv
    <3>2. empty' = <<>> /\ returned' = <<>>
      BY <2>2, <3>1
    <3> QED BY <2>2, <2>3, <3>2 DEF ElemInv
  <2>4. CASE gen # 0
    <3>1. Placed(Q, empty, returned, polled, type, gen, alloc)
      BY <2>4 DEF ElemInv
    <3>2. Placed(Q, empty', returned', polled, type, gen, alloc)
      BY <1>1, <2>1, <2>2, <3>1, MoveAck
    <3> QED BY <2>2, <2>4, <3>2 DEF ElemInv
  <2> QED BY <2>3, <2>4
<1> QED BY <1>2, <1>3, <1>4, <1>5 DEF DownNext

\* Callbacks touch the elements only through tryPost().
LEMMA CallKeeps == ASSUME ElemInv, TypeOK', NEW t \in Threads, CallNext(t) PROVE ElemInv'
<1>1. CASE deliver(t) \/ sourceReturn(t)
  BY <1>1, ListsKept DEF deliver, sourceReturn, flagVars
<1>2. ASSUME NEW changed \in SUBSET Fields, NEW overrun \in Overruns, NEW force \in BOOLEAN,
             sourcePost(t, changed, overrun, force)
      PROVE  ElemInv'
  BY <1>2, TryPostKeeps, ConfigAssumption DEF sourcePost
<1> QED BY <1>1, <1>2 DEF CallNext

\* The elements are placed in every reachable state.
THEOREM ElementsPlaced == Spec => []ElemInv
<1>1. Init => ElemInv
  <2> SUFFICES ASSUME Init, TypeOK PROVE ElemInv
    BY InitType
  <2> QED BY DEF Init, ElemInv
<1>2. ElemInv /\ TypeOK' /\ [Next]_vars => ElemInv'
  <2> SUFFICES ASSUME ElemInv, TypeOK', [Next]_vars PROVE ElemInv'
    OBVIOUS
  <2>1. CASE UNCHANGED vars
    BY <2>1, ListsKept DEF vars, listVars, flagVars
  <2>2. CASE UpNext
    BY <2>2, UpKeeps
  <2>3. ASSUME NEW t \in DownThreads, DownNext(t) PROVE ElemInv'
    BY <2>3, DownKeeps
  <2>4. ASSUME NEW t \in Threads, CallNext(t) PROVE ElemInv'
    BY <2>4, CallKeeps
  <2> QED BY <2>1, <2>2, <2>3, <2>4 DEF Next
<1> QED BY <1>1, <1>2, TypeCorrect, PTL DEF Spec

\* An element is never in two places: post() does not overwrite an update that is
\* queued or that the consumer is reading, through any sequence of open(), close(),
\* forced posts, releases and acknowledgements.
THEOREM ElementsNotAliased == Spec => []NoAliasing
  BY ElementsPlaced, ElemInvImplies, PTL

\* post() always has an element to write to, and the asserts of poll(), release()
\* and tryPost() hold.
THEOREM ElementAlwaysLeft == Spec => []AlwaysOneElement
  BY ElementsPlaced, ElemInvImplies, PTL

\* The queue never becomes smaller than open() made it, nor the lists of free
\* elements larger.
THEOREM SlotsConserved == Spec => []NoSlotLeak
  BY ElementsPlaced, ElemInvImplies, PTL

-----------------------------------------------------------------------------
(***************************************************************************)
(* No wakeup is lost.  An event is pending in the need flags or in the     *)
(* callbacks of a thread.  A thread that is in freeHighMark() has no other *)
(* callback to make, so that its notify() forgets none.  A forced post to  *)
(* a queue whose last element poll() withholds makes that element          *)
(* available without an event: the slots that are missing are then held by *)
(* the consumer (from Placed), which polls again when it releases them.    *)
(***************************************************************************)
WakeInv ==
    /\ ElemInv
    /\ \A t \in Threads : "freeHighMark" \in Range(calls[t]) => calls[t] = <<"freeHighMark">>
    /\ ~Pipeline => returned = <<>> /\ NoLostWakeup

\* notify() makes exactly the callbacks whose flags were set.
LEMMA PendingRange ==
    ASSUME NEW flags \in SUBSET Flags PROVE Range(Pending(flags)) = flags
<1> DEFINE If(c) == IF c \in flags THEN <<c>> ELSE <<>>
<1>1. \A c \in Flags : If(c) \in Seq(Flags) /\ Range(If(c)) = flags \cap {c}
  <2> SUFFICES ASSUME NEW c \in Flags
               PROVE  If(c) \in Seq(Flags) /\ Range(If(c)) = flags \cap {c}
    OBVIOUS
  <2>1. CASE c \in flags
    <3>1. If(c) = <<c>> /\ flags \cap {c} = {c}
      BY <2>1
    <3> QED BY <3>1, SingleFacts
  <2>2. CASE c \notin flags
    <3>1. If(c) = <<>> /\ flags \cap {c} = {}
      BY <2>2
    <3> QED BY <3>1, EmptyFacts DEF Range
  <2> QED BY <2>1, <2>2
<1>2. Flags = {"connect", "event", "unlisten", "close"}
  BY DEF Flags
<1> HIDE DEF If
<1> DEFINE a == If("connect") \o If("event")
           b == a \o If("unlisten")
           c == b \o If("close")
<1>3. a \in Seq(Flags) /\ Range(a) = flags \cap {"connect", "event"}
  BY <1>1, <1>2, ConcatRange
<1> HIDE DEF a
<1>4. b \in Seq(Flags) /\ Range(b) = flags \cap {"connect", "event", "unlisten"}
  BY <1>1, <1>2, <1>3, ConcatRange
<1> HIDE DEF b
<1>5. Range(c) = flags \cap {"connect", "event", "unlisten", "close"}
  BY <1>1, <1>2, <1>4, ConcatRange
<1>6. Pending(flags) = c
  BY DEF Pending, If, a, b
<1> QED BY <1>2, <1>5, <1>6

\* The callbacks that start(), poll() and release() may have to make.
LEMMA OneCall ==
    /\ Range(StartCalls) \subseteq {"event"} /\ Range(PollCalls) \subseteq {"unlisten"}
    /\ Range(<<"freeHighMark">>) = {"freeHighMark"} /\ Range(<<>>) = {}
<1>1. Range(<<>>) = {}
  BY EmptyFacts DEF Range
<1>2. /\ Range(<<"freeHighMark">>) = {"freeHighMark"}
      /\ Range(<<"event">>) = {"event"} /\ Range(<<"unlisten">>) = {"unlisten"}
  BY DEF Range
<1> QED BY <1>1, <1>2 DEF StartCalls, PollCalls

\* Filling an empty element of a running queue: the first one sets the event flag,
\* and when there was one before it could already be polled.
LEMMA TakeWakes ==
    ASSUME WakeInv, TypeOK', ~Pipeline, NEW scratch, NEW overrun, NEW e,
           empty # <<>>, Enqueue(e, scratch, overrun),
           UNCHANGED <<running, polled, mustPoll, calls>>
    PROVE  NoLostWakeup'
<1> SUFFICES ASSUME running PROVE (mustPoll \/ EventPending \/ polled # {})'
  BY DEF NoLostWakeup
<1>1. CASE inuse = <<>>
  BY <1>1 DEF Enqueue, EventPending
<1>2. CASE inuse # <<>>
  <2>1. Available
    BY <1>2 DEF Available, WakeInv, ElemInv, TypeOK
  <2>2. mustPoll \/ EventPending \/ polled # {}
    BY <2>1 DEF WakeInv, NoLostWakeup
  <2>3. need' = need
    BY <1>2 DEF Enqueue
  <2> QED BY <2>2, <2>3 DEF EventPending
<1> QED BY <1>1, <1>2

\* tryPost(): the same, and a forced element.
LEMMA TryPostWakes ==
    ASSUME WakeInv, TypeOK', ~Pipeline, NEW changed, NEW overrun, NEW force,
           tryPost(changed, overrun, force), UNCHANGED calls
    PROVE  NoLostWakeup'
<1>1. UNCHANGED <<running, polled, mustPoll>>
  BY DEF tryPost
<1>2. CASE FreeCount(flowCount, empty) > 0 /\ Enqueue(Head(empty), Selected(changed), overrun)
  <2>1. empty # <<>>
    BY <1>2, FreeHasElement DEF WakeInv, ElemInv, TypeOK
  <2> QED BY <1>1, <1>2, <2>1, TakeWakes
<1>3. CASE Enqueue([gen |-> gen, num |-> alloc + 1, type |-> type], Selected(changed), overrun)
  <2> SUFFICES ASSUME running PROVE (mustPoll \/ EventPending \/ polled # {})'
    BY <1>1 DEF NoLostWakeup
  <2>1. CASE inuse = <<>>
    BY <1>3, <2>1 DEF Enqueue, EventPending
  <2>2. CASE inuse # <<>> /\ Available
    <3>1. mustPoll \/ EventPending \/ polled # {}
      BY <2>2 DEF WakeInv, NoLostWakeup
    <3>2. need' = need
      BY <1>3, <2>2 DEF Enqueue
    <3> QED BY <1>1, <3>1, <3>2 DEF EventPending
  <2>3. CASE inuse # <<>> /\ ~Available
    <3>1. Len(inuse) + Len(empty) <= 1 /\ returned = <<>> /\ Len(returned) = 0
      BY <2>3 DEF Available, WakeInv, ElemInv, TypeOK
    <3>2. gen > 0
      BY <2>3 DEF WakeInv, ElemInv, TypeOK
    <3>3. Len(inuse) + Len(empty) + Len(returned) + Cardinality(OfType(polled, type))
            >= ActualCount + 1
      BY <3>2, ElemInvImplies DEF WakeInv, NoSlotLeak
    <3>4. Cardinality(OfType(polled, type)) # 0
      <4>1. Len(inuse) \in Nat /\ Len(empty) \in Nat
        BY DEF WakeInv, ElemInv, TypeOK
      <4> QED BY <3>1, <3>3, <4>1, CountPositive
    <3>5. polled # {}
      BY <3>4, FS_EmptySet DEF OfType
    <3> QED BY <1>1, <3>5
  <2> QED BY <2>1, <2>2, <2>3
<1> QED BY <1>2, <1>3 DEF tryPost

\* The callbacks of thread t, when it is given new ones.
LEMMA CallsOf ==
    ASSUME TypeOK, NEW t \in Threads, NEW s, calls' = [calls EXCEPT ![t] = s]
    PROVE  calls'[t] = s /\ \A u \in Threads \ {t} : calls'[u] = calls[u]
  BY DEF TypeOK

\* A thread that makes its next callback has the others left.
LEMMA CallsLeft ==
    ASSUME TypeOK, NEW t \in Threads, calls[t] # <<>>
    PROVE  Range(calls[t]) = Range(Tail(calls[t])) \cup {Head(calls[t])}
  BY TailRange DEF TypeOK

\* Every step keeps a thread in freeHighMark() without other callbacks.
LEMMA ShapeKept ==
    ASSUME WakeInv, TypeOK', [Next]_vars, NEW u \in Threads, "freeHighMark" \in Range(calls'[u])
    PROVE  calls'[u] = <<"freeHighMark">>
<1>1. "freeHighMark" \notin Flags /\ TypeOK /\ need \in SUBSET Flags
  BY DEF Flags, WakeInv, ElemInv, TypeOK
<1>2. CASE UNCHANGED calls
  BY <1>2 DEF WakeInv
<1>3. ASSUME NEW t \in Threads, calls' = [calls EXCEPT ![t] = <<"freeHighMark">>]
      PROVE  calls'[u] = <<"freeHighMark">>
  BY <1>1, <1>3, CallsOf DEF WakeInv
<1>4. ASSUME NEW t \in Threads, NEW s, calls' = [calls EXCEPT ![t] = s],
             "freeHighMark" \notin Range(s)
      PROVE  calls'[u] = <<"freeHighMark">>
  BY <1>1, <1>4, CallsOf DEF WakeInv
<1>5. Range(Pending(need)) = need
  BY <1>1, PendingRange
<1>6. CASE UpNext
  <2>1. UNCHANGED calls \/ calls' = [calls EXCEPT !["up"] = Pending(need)]
    BY <1>6 DEF UpNext, open, close, finish, PostToEmpty, PostSquash, notify
  <2> QED BY <1>1, <1>2, <1>4, <1>5, <2>1 DEF Threads
<1>7. ASSUME NEW t \in DownThreads, DownNext(t) PROVE calls'[u] = <<"freeHighMark">>
  <2>1. \/ UNCHANGED calls
        \/ calls' = [calls EXCEPT ![t] = <<"freeHighMark">>]
        \/ calls' = [calls EXCEPT ![t] = StartCalls]
        \/ calls' = [calls EXCEPT ![t] = PollCalls]
    BY <1>7 DEF DownNext, start, stop, poll, pollNull, release, reportRemoteQueueStatus
  <2>2. "freeHighMark" \notin Range(StartCalls) /\ "freeHighMark" \notin Range(PollCalls)
    BY OneCall
  <2> QED BY <1>2, <1>3, <1>4, <2>1, <2>2 DEF Threads
<1>8. ASSUME NEW t \in Threads, CallNext(t) PROVE calls'[u] = <<"freeHighMark">>
  <2>1. CASE deliver(t)
    <3>1. calls' = [calls EXCEPT ![t] = Tail(calls[t])] /\ calls[t] # <<>> /\ Head(calls[t]) \in Flags
      BY <2>1 DEF deliver
    <3>2. "freeHighMark" \notin Range(Tail(calls[t]))
      <4> SUFFICES ASSUME "freeHighMark" \in Range(Tail(calls[t])) PROVE FALSE
        OBVIOUS
      <4>1. calls[t] = <<"freeHighMark">>
        BY <1>1, <3>1, CallsLeft DEF WakeInv
      <4>2. Head(calls[t]) = "freeHighMark"
        BY <4>1
      <4> QED BY <4>2, <3>1, <1>1
    <3> QED BY <1>4, <3>1, <3>2
  <2>2. CASE \E changed \in SUBSET Fields, overrun \in Overruns, force \in BOOLEAN :
                sourcePost(t, changed, overrun, force)
    BY <2>2, <1>2 DEF sourcePost
  <2>3. CASE sourceReturn(t)
    BY <2>3, <1>1, <1>4, <1>5 DEF sourceReturn
  <2> QED BY <1>8, <2>1, <2>2, <2>3 DEF CallNext
<1>9. CASE UNCHANGED vars
  BY <1>9, <1>2 DEF vars
<1> QED BY <1>6, <1>7, <1>8, <1>9 DEF Next

\* An event that is pending stays so while no callback is made.
LEMMA EventKept ==
    ASSUME EventPending, "event" \in need => "event" \in need',
           \A u \in Threads : "event" \in Range(calls[u]) => "event" \in Range(calls'[u])
    PROVE  EventPending'
  BY DEF EventPending

\* The steps of the source lose no wakeup.
LEMMA UpWakes == ASSUME WakeInv, TypeOK', ~Pipeline, UpNext PROVE NoLostWakeup'
<1>1. ASSUME NEW t \in Types, open(t) PROVE NoLostWakeup'
  BY <1>1 DEF open, NoLostWakeup, Available
<1>2. CASE close \/ finish
  <2>1. /\ UNCHANGED <<running, mustPoll, polled, calls, inuse, empty>>
        /\ need \subseteq need'
    BY <1>2 DEF close, finish, listVars, obsVars
  <2>2. EventPending => EventPending'
    BY <2>1, EventKept
  <2> QED BY <2>1, <2>2 DEF WakeInv, NoLostWakeup, Available
<1>3. ASSUME NEW changed, NEW overrun, PostToEmpty(changed, overrun) PROVE NoLostWakeup'
  BY <1>3, TakeWakes DEF PostToEmpty
<1>4. ASSUME NEW changed, NEW overrun, PostSquash(changed, overrun) PROVE NoLostWakeup'
  <2>1. /\ UNCHANGED <<running, mustPoll, polled, calls, empty, need>>
        /\ inuse # <<>>
    BY <1>4 DEF PostSquash, flagVars
  <2>2. Len(inuse') = Len(inuse)
    BY <1>4 DEF PostSquash, WakeInv, ElemInv, TypeOK
  <2>3. EventPending => EventPending'
    BY <2>1, EventKept
  <2> QED BY <2>1, <2>2, <2>3 DEF WakeInv, NoLostWakeup, Available
<1>5. ASSUME NEW changed, NEW overrun, NEW force,
             tryPost(changed, overrun, force), UNCHANGED calls
      PROVE  NoLostWakeup'
  BY <1>5, TryPostWakes
<1>6. CASE notify("up")
  <2>1. /\ UNCHANGED <<running, mustPoll, polled, inuse, empty>>
        /\ calls["up"] = <<>> /\ calls' = [calls EXCEPT !["up"] = Pending(need)]
    BY <1>6 DEF notify, Idle, listVars, obsVars
  <2>2. Range(calls'["up"]) = need /\ \A u \in Threads \ {"up"} : calls'[u] = calls[u]
    BY <2>1, PendingRange, CallsOf DEF WakeInv, ElemInv, TypeOK, Threads
  <2>3. EventPending => EventPending'
    BY <2>1, <2>2, OneCall DEF EventPending, Threads
  <2> QED BY <2>1, <2>3 DEF WakeInv, NoLostWakeup, Available
<1> QED BY <1>1, <1>2, <1>3, <1>4, <1>5, <1>6 DEF UpNext

\* Nor do the steps of the consumer.
LEMMA DownWakes ==
    ASSUME WakeInv, TypeOK', ~Pipeline, NEW t \in DownThreads, DownNext(t)
    PROVE  NoLostWakeup'
<1>1. CASE start(t)
  <2> SUFFICES ASSUME Available' PROVE EventPending'
    BY DEF NoLostWakeup
  <2>1. inuse # <<>>
    BY <1>1 DEF start, Available, listVars
  <2>2. calls' = [calls EXCEPT ![t] = <<"event">>]
    BY <1>1, <2>1 DEF start, StartCalls
  <2>3. calls'[t] = <<"event">> /\ t \in Threads
    BY <2>2, CallsOf DEF WakeInv, ElemInv, Threads
  <2>4. "event" \in Range(calls'[t])
    BY <2>3 DEF Range
  <2> QED BY <2>3, <2>4 DEF EventPending
<1>2. CASE stop(t)
  BY <1>2 DEF stop, NoLostWakeup
<1>3. CASE poll(t)
  BY <1>3 DEF poll, NoLostWakeup
<1>4. CASE pollNull(t)
  BY <1>4 DEF pollNull, NoLostWakeup, Available, listVars
<1>5. ASSUME NEW e \in polled, release(t, e) PROVE NoLostWakeup'
  BY <1>5 DEF release, NoLostWakeup
<1>6. ASSUME NEW nfree, reportRemoteQueueStatus(t, nfree) PROVE NoLostWakeup'
  BY <1>6 DEF reportRemoteQueueStatus
<1> QED BY <1>1, <1>2, <1>3, <1>4, <1>5, <1>6 DEF DownNext

\* Nor do the callbacks.
LEMMA CallWakes ==
    ASSUME WakeInv, TypeOK', ~Pipeline, NEW t \in Threads, CallNext(t)
    PROVE  NoLostWakeup'
<1>1. TypeOK /\ need \in SUBSET Flags
  BY DEF WakeInv, ElemInv, TypeOK
<1>2. CASE deliver(t)
  <2>1. /\ UNCHANGED <<running, polled, inuse, empty, need>>
        /\ calls[t] # <<>> /\ calls' = [calls EXCEPT ![t] = Tail(calls[t])]
        /\ mustPoll' = (mustPoll \/ Head(calls[t]) = "event")
    BY <1>2 DEF deliver, listVars, flagVars
  <2>2. CASE Head(calls[t]) = "event"
    BY <2>1, <2>2 DEF NoLostWakeup
  <2>3. CASE Head(calls[t]) # "event"
    <3>1. calls'[t] = Tail(calls[t]) /\ \A u \in Threads \ {t} : calls'[u] = calls[u]
      BY <1>1, <2>1, CallsOf
    <3>2. "event" \in Range(calls[t]) => "event" \in Range(Tail(calls[t]))
      BY <1>1, <2>1, <2>3, CallsLeft
    <3>3. EventPending => EventPending'
      BY <2>1, <3>1, <3>2, EventKept
    <3> QED BY <2>1, <3>3 DEF WakeInv, NoLostWakeup, Available
  <2> QED BY <2>2, <2>3
<1>3. ASSUME NEW changed, NEW overrun, NEW force, sourcePost(t, changed, overrun, force)
      PROVE  NoLostWakeup'
  BY <1>3, TryPostWakes DEF sourcePost
<1>4. CASE sourceReturn(t)
  <2>1. /\ UNCHANGED <<running, mustPoll, polled, inuse, empty>>
        /\ calls[t] # <<>> /\ Head(calls[t]) = "freeHighMark"
        /\ calls' = [calls EXCEPT ![t] = Pending(need)]
    BY <1>4 DEF sourceReturn, listVars, obsVars
  <2>2. calls[t] = <<"freeHighMark">>
    BY <1>1, <2>1, CallsLeft DEF WakeInv
  <2>3. "event" \notin Range(calls[t])
    BY <2>2, OneCall
  <2>4. Range(calls'[t]) = need /\ \A u \in Threads \ {t} : calls'[u] = calls[u]
    BY <1>1, <2>1, PendingRange, CallsOf
  <2>5. EventPending => EventPending'
    BY <2>3, <2>4 DEF EventPending
  <2> QED BY <2>1, <2>5 DEF WakeInv, NoLostWakeup, Available
<1> QED BY <1>2, <1>3, <1>4 DEF CallNext

\* Without a pipeline nothing waits for an acknowledgement.
LEMMA ReturnedKept ==
    ASSUME WakeInv, ~Pipeline, [Next]_vars PROVE returned' = <<>>
<1>1. returned = <<>>
  BY DEF WakeInv
<1> QED BY <1>1 DEF Next, UpNext, DownNext, CallNext, open, close, finish, PostToEmpty,
        PostSquash, tryPost, notify, start, stop, poll, pollNull, release,
        reportRemoteQueueStatus, deliver, sourcePost, sourceReturn, vars, listVars

\* Without a pipeline, the consumer of a running subscription always comes back for
\* an update that poll() would hand out: for any queue size, number of threads,
\* and interleaving of posts, forced posts, notify(), start(), stop(), poll(),
\* release(), close() and open().
THEOREM WakeupsNotLost == Spec => [](~Pipeline => NoLostWakeup)
<1>1. Init => WakeInv
  <2> SUFFICES ASSUME Init PROVE WakeInv
    OBVIOUS
  <2>1. TypeOK
    BY InitType
  <2>2. ElemInv
    BY <2>1 DEF Init, ElemInv
  <2>3. \A t \in Threads : "freeHighMark" \notin Range(calls[t])
    BY OneCall DEF Init
  <2> QED BY <2>2, <2>3 DEF Init, WakeInv, NoLostWakeup
<1>2. WakeInv /\ ElemInv' /\ [Next]_vars => WakeInv'
  <2> SUFFICES ASSUME WakeInv, ElemInv', [Next]_vars PROVE WakeInv'
    OBVIOUS
  <2>1. TypeOK'
    BY DEF ElemInv
  <2>2. \A u \in Threads : "freeHighMark" \in Range(calls'[u]) => calls'[u] = <<"freeHighMark">>
    BY <2>1, ShapeKept
  <2>3. ASSUME ~Pipeline PROVE returned' = <<>> /\ NoLostWakeup'
    <3>1. returned' = <<>>
      BY <2>3, ReturnedKept
    <3>2. CASE UNCHANGED vars
      <4>1. UNCHANGED <<running, mustPoll, polled, inuse, empty, need, calls>>
        BY <3>2 DEF vars, listVars, flagVars, obsVars
      <4>2. EventPending => EventPending'
        BY <4>1, EventKept
      <4> QED BY <2>3, <3>1, <4>1, <4>2 DEF WakeInv, NoLostWakeup, Available
    <3>3. CASE UpNext
      BY <2>1, <2>3, <3>1, <3>3, UpWakes
    <3>4. ASSUME NEW t \in DownThreads, DownNext(t) PROVE NoLostWakeup'
      BY <2>1, <2>3, <3>4, DownWakes
    <3>5. ASSUME NEW t \in Threads, CallNext(t) PROVE NoLostWakeup'
      BY <2>1, <2>3, <3>5, CallWakes
    <3> QED BY <3>1, <3>2, <3>3, <3>4, <3>5 DEF Next
  <2> QED BY <2>2, <2>3 DEF WakeInv
<1>3. WakeInv => (~Pipeline => NoLostWakeup)
  BY DEF WakeInv
<1> QED BY <1>1, <1>2, <1>3, ElementsPlaced, PTL DEF Spec
=============================================================================
