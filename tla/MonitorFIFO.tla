------------------------------ MODULE MonitorFIFO ------------------------------
(***************************************************************************)
(* epics::pvAccess::MonitorFIFO (src/src/client/monitor.cpp): the bounded  *)
(* queue of subscription updates between a data source (upstream) and the  *)
(* consumer of a subscription (downstream).                                *)
(*                                                                         *)
(* Everything done under MonitorFIFO::mutex is one step.  The callbacks    *)
(* that the code makes after unlocking are steps of their own: they wait   *)
(* in calls[t] until thread t makes them, so that any step of another      *)
(* thread can fall between the unlock and the callback.                    *)
(*                                                                         *)
(* A value of a field is its ordinal among the updates of that field that  *)
(* entered the queue since the last open(), so that a value that a         *)
(* consumer never sees is a gap.                                           *)
(***************************************************************************)
EXTENDS Integers, Sequences, FiniteSets, Functions

CONSTANTS
    Fields,             \* fields of the published structure
    SelectMask,         \* the fields that the pvRequest selects
    IgnoreRequestMask,  \* Config::ignoreRequestMask
    MaxCount,           \* Config::maxCount
    DefCount,           \* Config::defCount
    PresetCount,        \* Config::actualCount as passed in
    QueueSize,          \* record._options.queueSize, 0 when absent or invalid
    FreeHighPercent,    \* the argument of setFreeHighMark(), in percent
    Pipeline,           \* record._options.pipeline
    HasUpstream,        \* a Source was given to the constructor
    Types,              \* structure types that open() may be given
    Overruns,           \* overrun sets that the source may pass to post()
    DownThreads,        \* threads of the consumer
    SizeRange,          \* number of values of size_t
    MaxOpens,           \* bound: calls of open()
    MaxPosts,           \* bound: updates of one field per open()
    MaxForced,          \* bound: elements allocated by tryPost(force=true) per open()
    MaxWindow           \* bound: the flow count that acknowledgements may reach

(***************************************************************************)
(* The constructor's choice of conf.actualCount, and the level that        *)
(* setFreeHighMark() computes from it.                                     *)
(***************************************************************************)
ActualCount ==
    LET max   == IF MaxCount = 0 THEN 1 ELSE MaxCount
        def   == IF DefCount = 0 THEN 1 ELSE DefCount
        asked == IF PresetCount = 0 THEN QueueSize ELSE PresetCount
        count == IF asked = 0 THEN def ELSE asked
    IN  IF count > max THEN max ELSE count

FreeHighLevel ==
    LET level == (ActualCount * FreeHighPercent) \div 100
    IN  IF level < ActualCount - 1 THEN level ELSE ActualCount - 1

ASSUME ConfigAssumption ==
    /\ MaxCount \in Nat /\ DefCount \in Nat
    /\ PresetCount \in Nat /\ QueueSize \in Nat
    /\ FreeHighPercent \in 0..100
    /\ Pipeline \in BOOLEAN /\ HasUpstream \in BOOLEAN
    /\ IgnoreRequestMask \in BOOLEAN
    /\ SelectMask \subseteq Fields
    /\ Overruns \subseteq SUBSET Fields
    /\ IsFiniteSet(Fields)
    /\ "up" \notin DownThreads
    /\ SizeRange \in Nat \ {0}
    /\ MaxOpens \in Nat /\ MaxPosts \in Nat /\ MaxForced \in Nat
    /\ MaxWindow \in Nat

Threads == {"up"} \cup DownThreads

VARIABLES
    opened, running, finished,
    type,       \* type of the elements made by the last open()
    need,       \* the need* flags that are set
    flowCount,
    inuse,      \* elements holding an update, oldest first
    empty,      \* elements available for a new update
    returned,   \* pipeline: released, not yet acknowledged
    polled,     \* elements held by the consumer (not tracked by the code)
    gen,        \* number of open() calls so far
    alloc,      \* number of elements made since the last open()
    calls,      \* callbacks that a thread has still to make
    latest,     \* per field, the number of updates since the last open()
    seen,       \* per field, the last value that poll() handed out
    mustPoll,   \* the consumer was told to poll() and has not seen it return null
    told,       \* the last connection callback that the consumer received
    unlistens   \* number of unlisten() callbacks received

listVars == <<inuse, empty, returned, polled, gen, alloc, type>>
flagVars == <<opened, running, finished, need>>
obsVars  == <<latest, seen, mustPoll, told, unlistens>>
vars     == <<listVars, flagVars, obsVars, flowCount, calls>>

Flags == {"connect", "event", "unlisten", "close"}

\* The fields that the subscription reports (selectMask).
Mask == IF IgnoreRequestMask THEN Fields ELSE SelectMask

\* Fault: the changed set is used as it comes.
Selected_unmasked(changed) == changed

\* The part of an update that the subscription reports (scratch).
Selected(changed) == changed \cap Mask

Element == [gen : Nat, num : Nat, type : Types]
Update  == [elem : Element, changed : SUBSET Mask, val : [Fields -> Nat],
            overrun : SUBSET Mask]

\* Fault: the window of a pipeline is not looked at.
FreeCount_unlimited(flow, e) == IF e = <<>> THEN 0 ELSE Len(e) - 1

\* _freeCount() of a queue with the given flow count and empty list.
FreeCount(flow, e) ==
    IF Pipeline
    THEN IF flow <= 0 THEN 0 ELSE IF flow < Len(e) THEN flow ELSE Len(e)
    ELSE IF e = <<>> THEN 0 ELSE Len(e) - 1

Idle(t) == calls[t] = <<>>

Init ==
    /\ opened = FALSE /\ running = FALSE /\ finished = FALSE
    /\ type \in Types
    /\ need = {}
    /\ flowCount = 0
    /\ inuse = <<>> /\ empty = <<>> /\ returned = <<>>
    /\ polled = {} /\ gen = 0 /\ alloc = 0
    /\ calls = [t \in Threads |-> <<>>]
    /\ latest = [f \in Fields |-> 0]
    /\ seen = [f \in Fields |-> 0]
    /\ mustPoll = FALSE /\ told = "none" /\ unlistens = 0

-----------------------------------------------------------------------------
(* Upstream: open(), close(), finish(), post(), tryPost(), notify().        *)

\* Fault: open() does not insist on a notify() after close().
MayOpen_unnotified == ~opened /\ ~finished

\* The throws of open().
MayOpen == ~opened /\ "close" \notin need /\ ~finished

\* flowCount, running and the other need* flags survive a re-open.
open(t) ==
    /\ gen < MaxOpens
    /\ MayOpen
    /\ gen' = gen + 1
    /\ type' = t
    /\ alloc' = ActualCount + 1
    /\ empty' = [i \in 1..(ActualCount + 1) |->
                    [gen |-> gen + 1, num |-> i, type |-> t]]
    /\ inuse' = <<>> /\ returned' = <<>>
    /\ opened' = TRUE
    /\ need' = need \cup {"connect"}
    /\ latest' = [f \in Fields |-> 0]
    /\ seen' = [f \in Fields |-> 0]
    /\ UNCHANGED <<polled, running, finished, mustPoll, told, unlistens, flowCount, calls>>

close ==
    /\ opened
    /\ opened' = FALSE
    /\ need' = need \cup {"close"}
    /\ UNCHANGED <<listVars, running, finished, obsVars, flowCount, calls>>

finish ==
    /\ opened /\ ~finished
    /\ finished' = TRUE
    /\ need' = IF inuse = <<>> /\ running THEN need \cup {"unlisten"} ELSE need
    /\ UNCHANGED <<listVars, opened, running, obsVars, flowCount, calls>>

\* What post() and tryPost() share: the update is stamped, the element goes to
\* the back of inuse, and a pipeline counts it against the window.
Enqueue(elem, scratch, overrun) ==
    /\ latest' = [f \in Fields |-> IF f \in scratch THEN latest[f] + 1 ELSE latest[f]]
    /\ inuse' = Append(inuse,
                    [elem |-> elem, changed |-> scratch,
                     val |-> [f \in Fields |-> IF f \in scratch THEN latest[f] + 1 ELSE 0],
                     overrun |-> overrun \cap Mask])
    /\ need' = IF inuse = <<>> /\ running THEN need \cup {"event"} ELSE need
    /\ flowCount' = IF Pipeline THEN flowCount - 1 ELSE flowCount

\* Fault: an update is accepted after finish().
Relevant_finished(scratch) ==
    /\ opened
    /\ scratch # {} \/ IgnoreRequestMask
    /\ \A f \in scratch : latest[f] < MaxPosts

\* An update without a selected field is dropped, which changes nothing.
Relevant(scratch) ==
    /\ opened /\ ~finished
    /\ scratch # {} \/ IgnoreRequestMask
    /\ \A f \in scratch : latest[f] < MaxPosts

\* tryPost(force): a free element, or with force one that is allocated.
\* Without either the queue is unchanged.
tryPost(changed, overrun, force) ==
    LET scratch == Selected(changed)
    IN  /\ Relevant(scratch)
        /\ \/ /\ FreeCount(flowCount, empty) > 0
              /\ Enqueue(Head(empty), scratch, overrun)
              /\ empty' = Tail(empty)
              /\ alloc' = alloc
           \/ /\ FreeCount(flowCount, empty) = 0
              /\ force
              /\ alloc < ActualCount + 1 + MaxForced
              /\ Enqueue([gen |-> gen, num |-> alloc + 1, type |-> type], scratch, overrun)
              /\ alloc' = alloc + 1
              /\ empty' = empty
        /\ UNCHANGED <<returned, polled, gen, type, opened, running, finished,
                       seen, mustPoll, told, unlistens>>

\* Fault: the element is left on the empty list.
PostToEmpty_kept(changed, overrun) ==
    /\ Relevant(Selected(changed))
    /\ empty # <<>>
    /\ Enqueue(Head(empty), Selected(changed), overrun)
    /\ UNCHANGED <<empty, returned, polled, gen, alloc, type, opened, running, finished,
                   seen, mustPoll, told, unlistens, calls>>

\* post(): an empty element whatever the window, else squash into the newest.
PostToEmpty(changed, overrun) ==
    LET scratch == Selected(changed)
    IN  /\ Relevant(scratch)
        /\ empty # <<>>
        /\ Enqueue(Head(empty), scratch, overrun)
        /\ empty' = Tail(empty)
        /\ UNCHANGED <<returned, polled, gen, alloc, type, opened, running, finished,
                       seen, mustPoll, told, unlistens, calls>>

\* Fault: the fields that already held an update keep their old value.
Squash_keepsOld(u, scratch, overrun) ==
    [u EXCEPT !.changed = @ \cup scratch,
              !.val = [f \in Fields |-> IF f \in scratch \ u.changed THEN latest[f] + 1 ELSE @[f]],
              !.overrun = @ \cup (u.changed \cap scratch) \cup (overrun \cap Mask)]

\* Fault: what is overwritten is not marked as overrun.
Squash_unmarked(u, scratch, overrun) ==
    [u EXCEPT !.changed = @ \cup scratch,
              !.val = [f \in Fields |-> IF f \in scratch THEN latest[f] + 1 ELSE @[f]],
              !.overrun = @ \cup (overrun \cap Mask)]

Squash(u, scratch, overrun) ==
    [u EXCEPT !.changed = @ \cup scratch,
              !.val = [f \in Fields |-> IF f \in scratch THEN latest[f] + 1 ELSE @[f]],
              !.overrun = @ \cup (u.changed \cap scratch) \cup (overrun \cap Mask)]

PostSquash(changed, overrun) ==
    LET scratch == Selected(changed)
    IN  /\ Relevant(scratch)
        /\ empty = <<>> /\ inuse # <<>>
        /\ inuse' = [inuse EXCEPT ![Len(inuse)] = Squash(@, scratch, overrun)]
        /\ latest' = [f \in Fields |-> IF f \in scratch THEN latest[f] + 1 ELSE latest[f]]
        /\ UNCHANGED <<empty, returned, polled, gen, alloc, type, flagVars,
                       seen, mustPoll, told, unlistens, flowCount, calls>>

\* The callbacks of notify(), in the order in which it makes them.
Pending(flags) ==
    LET If(c) == IF c \in flags THEN <<c>> ELSE <<>>
    IN  If("connect") \o If("event") \o If("unlisten") \o If("close")

\* notify() swaps the flags out under the lock.  A call of it that finds none
\* set does nothing.
notify(t) ==
    /\ Idle(t)
    /\ need # {}
    /\ calls' = [calls EXCEPT ![t] = Pending(need)]
    /\ need' = {}
    /\ UNCHANGED <<listVars, opened, running, finished, obsVars, flowCount>>

-----------------------------------------------------------------------------
(* Downstream: start(), stop(), poll(), release(), reportRemoteQueueStatus(). *)

\* Fault: start() forgets what was posted before it.
StartCalls_none == <<>>

StartCalls == IF inuse # <<>> THEN <<"event">> ELSE <<>>

start(t) ==
    /\ Idle(t)
    /\ opened /\ ~running
    /\ running' = TRUE
    /\ calls' = [calls EXCEPT ![t] = StartCalls]
    /\ UNCHANGED <<listVars, opened, finished, need, obsVars, flowCount>>

stop(t) ==
    /\ Idle(t)
    /\ running
    /\ running' = FALSE
    /\ UNCHANGED <<listVars, opened, finished, need, obsVars, flowCount, calls>>

\* Fault: poll() hands out the last element too.
Available_last == inuse # <<>>

\* poll() keeps the last element of inuse and empty together, so that post()
\* always has one to write to.
Available == inuse # <<>> /\ Len(inuse) + Len(empty) > 1

\* Fault: the end is announced while updates are left.
PollCalls_early == IF finished THEN <<"unlisten">> ELSE <<>>

\* poll() announces the end when it takes the last update of a finished queue.
PollCalls == IF Len(inuse) = 1 /\ finished THEN <<"unlisten">> ELSE <<>>

poll(t) ==
    /\ Idle(t)
    /\ Available
    /\ inuse' = Tail(inuse)
    /\ polled' = polled \cup {Head(inuse).elem}
    /\ seen' = [f \in Fields |->
                    IF f \in Head(inuse).changed THEN Head(inuse).val[f] ELSE seen[f]]
    /\ calls' = [calls EXCEPT ![t] = PollCalls]
    /\ UNCHANGED <<empty, returned, gen, alloc, type, flagVars,
                   latest, mustPoll, told, unlistens, flowCount>>

pollNull(t) ==
    /\ Idle(t)
    /\ gen > 0
    /\ ~Available
    /\ mustPoll' = FALSE
    /\ UNCHANGED <<listVars, flagVars, latest, seen, told, unlistens, flowCount, calls>>


\* Crossing the high mark: below it before, above it after.
Crosses(flow, e) ==
    /\ FreeCount(flowCount, empty) <= FreeHighLevel
    /\ FreeCount(flow, e) > FreeHighLevel
    /\ HasUpstream

\* An element of another type, or one more than the queue was made with, is dropped.
Unwanted(e) == e.type # type \/ Len(empty) + Len(returned) >= ActualCount + 1

\* The consumer must poll() after a release() (monitor.h:94).
release(t, e) ==
    /\ Idle(t)
    /\ e \in polled
    /\ polled' = polled \ {e}
    /\ mustPoll' = TRUE
    /\ IF Unwanted(e)
       THEN UNCHANGED <<empty, returned, calls>>
       ELSE IF Pipeline
       THEN returned' = Append(returned, e) /\ UNCHANGED <<empty, calls>>
       ELSE /\ empty' = <<e>> \o empty
            /\ returned' = returned
            /\ calls' = IF Crosses(flowCount, empty')
                        THEN [calls EXCEPT ![t] = <<"freeHighMark">>] ELSE calls
    /\ UNCHANGED <<inuse, gen, alloc, type, flagVars, latest, seen, told, unlistens, flowCount>>

\* What getStats() computes, in size_t.
noutstanding == (ActualCount - (Len(empty) + Len(returned)) - Len(inuse)) % SizeRange

\* Fault: everything returned is forgotten, not only what was acknowledged.
reportRemoteQueueStatus_drops(t, nfree) ==
    LET nack == IF nfree < Len(returned) THEN nfree ELSE Len(returned)
    IN  /\ Idle(t)
        /\ Pipeline /\ nfree > 0
        /\ flowCount' = flowCount + nfree
        /\ empty' = empty \o SubSeq(returned, 1, nack)
        /\ returned' = <<>>
        /\ UNCHANGED <<inuse, polled, gen, alloc, type, flagVars, obsVars, calls>>

reportRemoteQueueStatus(t, nfree) ==
    LET nack == IF nfree < Len(returned) THEN nfree ELSE Len(returned)
    IN  /\ Idle(t)
        /\ Pipeline /\ nfree > 0
        /\ flowCount' = flowCount + nfree
        /\ empty' = empty \o SubSeq(returned, 1, nack)
        /\ returned' = SubSeq(returned, nack + 1, Len(returned))
        /\ calls' = IF Crosses(flowCount', empty') /\ Len(empty') > 1
                    THEN [calls EXCEPT ![t] = <<"freeHighMark">>] ELSE calls
        /\ UNCHANGED <<inuse, polled, gen, alloc, type, flagVars, obsVars>>

-----------------------------------------------------------------------------
(* The callbacks, made without the lock.                                    *)

\* A callback of the requester is received by the consumer.
deliver(t) ==
    /\ calls[t] # <<>> /\ Head(calls[t]) \in Flags
    /\ calls' = [calls EXCEPT ![t] = Tail(@)]
    /\ LET c == Head(calls[t])
       IN  /\ mustPoll' = (mustPoll \/ c = "event")
           /\ told' = IF c \in {"connect", "close"} THEN c ELSE told
           /\ unlistens' = IF c = "unlisten" THEN unlistens + 1 ELSE unlistens
    /\ UNCHANGED <<listVars, flagVars, latest, seen, flowCount>>

\* Source::freeHighMark() fills the queue with tryPost() and returns; release()
\* and reportRemoteQueueStatus() then call notify() themselves.
sourcePost(t, changed, overrun, force) ==
    /\ calls[t] # <<>> /\ Head(calls[t]) = "freeHighMark"
    /\ tryPost(changed, overrun, force)
    /\ UNCHANGED calls

sourceReturn(t) ==
    /\ calls[t] # <<>> /\ Head(calls[t]) = "freeHighMark"
    /\ calls' = [calls EXCEPT ![t] = Pending(need)]
    /\ need' = {}
    /\ UNCHANGED <<listVars, opened, running, finished, obsVars, flowCount>>

UpNext ==
    /\ Idle("up")
    /\ \/ \E t \in Types : open(t)
       \/ close
       \/ finish
       \/ \E changed \in SUBSET Fields, overrun \in Overruns :
             \/ PostToEmpty(changed, overrun)
             \/ PostSquash(changed, overrun)
             \/ \E force \in BOOLEAN : tryPost(changed, overrun, force) /\ UNCHANGED calls
       \/ notify("up")

DownNext(t) ==
    \/ start(t)
    \/ stop(t)
    \/ poll(t)
    \/ pollNull(t)
    \/ \E e \in polled : release(t, e)
    \/ \E nfree \in 1..MaxWindow :
          /\ flowCount + nfree <= MaxWindow
          /\ reportRemoteQueueStatus(t, nfree)

CallNext(t) ==
    \/ deliver(t)
    \/ \E changed \in SUBSET Fields, overrun \in Overruns, force \in BOOLEAN :
          sourcePost(t, changed, overrun, force)
    \/ sourceReturn(t)

Next ==
    \/ UpNext
    \/ \E t \in DownThreads : DownNext(t)
    \/ \E t \in Threads : CallNext(t)

Spec == Init /\ [][Next]_vars

-----------------------------------------------------------------------------
(* Properties                                                               *)

\* Every variable has its type; updates and overrun marks are confined to the
\* fields that the pvRequest selects (scratch &= selectMask in post()).
TypeOK ==
    /\ opened \in BOOLEAN /\ running \in BOOLEAN /\ finished \in BOOLEAN
    /\ type \in Types
    /\ need \in SUBSET Flags
    /\ flowCount \in Int
    /\ inuse \in Seq(Update)
    /\ empty \in Seq(Element)
    /\ returned \in Seq(Element)
    /\ polled \in SUBSET Element
    /\ gen \in Nat /\ alloc \in Nat
    /\ calls \in [Threads -> Seq(Flags \cup {"freeHighMark"})]
    /\ latest \in [Fields -> Nat] /\ seen \in [Fields -> Nat]
    /\ mustPoll \in BOOLEAN
    /\ told \in {"none", "connect", "close"}
    /\ unlistens \in Nat

Queued == [i \in DOMAIN inuse |-> inuse[i].elem]

\* An element is in one place only: on one list, once, or with the consumer.
\* Otherwise post() would overwrite an update that is queued or being read.
NoAliasing ==
    /\ IsInjective(Queued) /\ IsInjective(empty) /\ IsInjective(returned)
    /\ Range(Queued) \cap (Range(empty) \cup Range(returned) \cup polled) = {}
    /\ Range(empty) \cap (Range(returned) \cup polled) = {}
    /\ Range(returned) \cap polled = {}

\* Once opened, post() has an element to write to: the asserts of poll(),
\* release() and tryPost(), and the comment at monitor.h:394-396.
AlwaysOneElement == gen > 0 => Len(inuse) + Len(empty) > 0

OfType(elements, t) == {e \in elements : e.type = t}

\* No sequence of polls and releases makes the queue smaller than open() made it,
\* counting what the consumer still holds of the current type; and the elements
\* waiting to be filled are never more than that, whatever was forced in.
NoSlotLeak ==
    gen > 0 =>
        /\ Len(inuse) + Len(empty) + Len(returned)
              + Cardinality(OfType(polled, type)) >= ActualCount + 1
        /\ Len(empty) + Len(returned) <= ActualCount + 1

\* The value of f before the i-th queued update, as the consumer will see it.
Before(i, f) ==
    LET S == {j \in 1..(i - 1) : f \in inuse[j].changed}
    IN  IF S = {} THEN seen[f]
        ELSE inuse[CHOOSE j \in S : \A k \in S : k <= j].val[f]

\* What the consumer has seen plus what is queued is the latest value of every
\* selected field: squashing may skip values but never the newest one.
LatestIsQueued == \A f \in Mask : Before(Len(inuse) + 1, f) = latest[f]

\* A queued update skips a value of a field exactly when it carries the field's
\* overrun bit (or the source itself passed one).
OverrunExact ==
    \A i \in DOMAIN inuse : \A f \in inuse[i].changed :
        /\ f \notin inuse[i].overrun => inuse[i].val[f] = Before(i, f) + 1
        /\ f \in inuse[i].overrun => \/ inuse[i].val[f] > Before(i, f) + 1
                                     \/ Overruns # {{}}

\* An event that is on its way to the consumer.
EventPending ==
    \/ "event" \in need
    \/ \E t \in Threads : "event" \in Range(calls[t])

\* While the subscription runs, the consumer will come back for an update that
\* poll() would hand out: a monitorEvent() is on its way, or the consumer has yet
\* to see poll() return null after an event or a release(), or it still holds an
\* element that it has to release().
NoLostWakeup == running /\ Available => mustPoll \/ EventPending \/ polled # {}

UnlistenPending ==
    \/ "unlisten" \in need
    \/ \E t \in Threads : "unlisten" \in Range(calls[t])

\* unlisten() is the last word: it is given once, after finish(), when no update
\* is left in the queue.
UnlistenIsFinal ==
    /\ unlistens <= 1
    /\ unlistens = 1 => ~UnlistenPending
    /\ unlistens = 1 \/ UnlistenPending => finished /\ inuse = <<>>


\* Stats::noutstanding, as getStats() reports it, is the number of elements that
\* were poll()d and not release()d (monitor.h:101).
StatsOutstanding ==
    gen = 1 /\ alloc = ActualCount + 1 => noutstanding = Cardinality(polled)

\* A running subscription that is finished and drained has been told so
\* (documentation/providers.h:308-309).
UnlistenNotLost ==
    opened /\ running /\ finished /\ inuse = <<>> => unlistens = 1 \/ UnlistenPending

ConnectionCallPending ==
    \/ need \cap {"connect", "close"} # {}
    \/ \E t \in Threads : Range(calls[t]) \cap {"connect", "close"} # {}

\* When no connection callback is outstanding, the last one that the consumer
\* received is the true state of the subscription.
ToldTheTruth ==
    ~ConnectionCallPending /\ gen > 0 => told = (IF opened THEN "connect" ELSE "close")
=============================================================================
