----------------------------- MODULE ClientMonitor -----------------------------
(***************************************************************************)
(* The client end of a remote subscription: ChannelMonitorImpl, its base   *)
(* class BaseRequestImpl and its queue MonitorStrategyQueue                *)
(* (src/src/remoteClient/clientContextImpl.cpp).                           *)
(*                                                                         *)
(* Four threads meet here: the user's, the receive and the send thread of  *)
(* the connection, and the one that reports that the channel was           *)
(* disconnected or connected.  The server is its part of the protocol: it  *)
(* answers the init request, sends updates while it is started and while   *)
(* the window lets it, and may end the subscription.                       *)
(*                                                                         *)
(* A value of a field is its ordinal among the updates received since the  *)
(* last start of the queue.                                                *)
(***************************************************************************)
EXTENDS Integers, Sequences, FiniteSets, Functions

CONSTANTS
    Fields,         \* fields of the structure
    Types,          \* structure types that the server may report
    QueueOption,    \* record._options.queueSize, 2 when absent
    Pipeline,       \* record._options.pipeline
    HasAckOption,   \* record._options.ackAny is given
    AckOption,      \* its value, as a number of elements
    UserStops,      \* the user may call stop(), and start() again
    UserDestroys,   \* the user may destroy() the subscription
    ServerEnds,     \* the server may end the subscription
    MaxInits,       \* bound: answers to init requests
    MaxUpdates,     \* bound: updates of one field per start
    MaxDrops,       \* bound: disconnections of the channel
    MaxStops        \* bound: calls of stop(), and of start() when started

ASSUME ClientAssumption ==
    /\ IsFiniteSet(Fields)
    /\ QueueOption \in Int /\ AckOption \in Int
    /\ Pipeline \in BOOLEAN /\ HasAckOption \in BOOLEAN
    /\ UserStops \in BOOLEAN /\ UserDestroys \in BOOLEAN /\ ServerEnds \in BOOLEAN
    /\ MaxInits \in Nat /\ MaxUpdates \in Nat /\ MaxDrops \in Nat /\ MaxStops \in Nat

\* m_queueSize and m_ackAny, as activate() computes them.
queueSize == IF QueueOption < 2 THEN 2 ELSE QueueOption

ackAny ==
    LET default == queueSize \div 2
    IN  IF ~HasAckOption THEN default
        ELSE IF AckOption <= 0 THEN 1
        ELSE IF default <= queueSize THEN AckOption ELSE queueSize

VARIABLES
    \* MonitorStrategyQueue
    freeQueue, monitorQueue, overrunInProgress,
    overrunElement,     \* <<>> or <<the element>>
    unlisten, releasedCount, reportInProgress, lastType,
    \* ChannelMonitorImpl and BaseRequestImpl
    started, initialized, destroyed, pending, subscribed,
    connected,          \* the channel is connected
    \* the threads
    recvCalls,          \* what the receive thread has still to do after unlocking
    userPc, restore,    \* the user inside start() or stop(), and m_started before it
    releasing,          \* the user inside release(): the element that passed the check
    reqQueued, ackQueued,   \* entries on the send queue of the connection
    \* the server
    srv, window,
    \* what is observed
    held,               \* elements that the user has polled and not released
    gen,                \* number of init() calls
    latest, seen,
    mustPoll,           \* the user was told to poll() and has not seen it return null
    told,               \* an unlisten() callback for the current subscription
    drops, stops

queueVars == <<freeQueue, monitorQueue, overrunInProgress, overrunElement, unlisten,
               releasedCount, reportInProgress, lastType>>
reqVars   == <<started, initialized, destroyed, pending, subscribed>>
netVars   == <<connected, reqQueued, ackQueued, srv, window>>
userVars  == <<userPc, restore, releasing>>
obsVars   == <<held, gen, latest, seen, mustPoll, told, drops, stops>>
vars      == <<queueVars, reqVars, netVars, userVars, obsVars, recvCalls>>

Element == [gen : Nat, num : Nat, type : Types]
Update  == [elem : Element, changed : SUBSET Fields, val : [Fields -> Nat],
            overrun : SUBSET Fields]

Elems(s) == {s[i].elem : i \in DOMAIN s}
Zero == [f \in Fields |-> 0]

Init ==
    /\ freeQueue = <<>> /\ monitorQueue = <<>>
    /\ overrunInProgress = FALSE /\ overrunElement = <<>>
    /\ unlisten = FALSE /\ releasedCount = 0 /\ reportInProgress = FALSE
    /\ lastType = "none"
    /\ started = FALSE /\ initialized = FALSE /\ destroyed = FALSE
    /\ pending = "none" /\ subscribed = FALSE /\ connected = FALSE
    /\ recvCalls = <<>>
    /\ userPc = "idle" /\ restore = FALSE /\ releasing = <<>>
    /\ reqQueued = 0 /\ ackQueued = 0
    /\ srv = "idle" /\ window = 0
    /\ held = {} /\ gen = 0 /\ latest = Zero /\ seen = Zero
    /\ mustPoll = FALSE /\ told = FALSE /\ drops = 0 /\ stops = 0

-----------------------------------------------------------------------------
(* The channel: reportStatus(DISCONNECTED) and resubscribeSubscription().    *)

Disconnect ==
    /\ connected /\ drops < MaxDrops
    /\ connected' = FALSE
    /\ subscribed' = FALSE
    /\ pending' = "none"
    /\ reqQueued' = 0 /\ ackQueued' = 0
    /\ srv' = "idle" /\ window' = 0
    /\ drops' = drops + 1
    /\ UNCHANGED <<queueVars, started, initialized, destroyed, userVars, recvCalls,
                   held, gen, latest, seen, mustPoll, told, stops>>

\* startRequest() refuses when a request is pending; then nothing is sent.
Connect ==
    /\ ~connected /\ ~destroyed
    /\ connected' = TRUE
    /\ IF ~subscribed /\ pending = "none"
       THEN /\ pending' = "init" /\ subscribed' = TRUE /\ reqQueued' = reqQueued + 1
       ELSE UNCHANGED <<pending, subscribed, reqQueued>>
    /\ UNCHANGED <<queueVars, started, initialized, destroyed, ackQueued, srv, window,
                   userVars, obsVars, recvCalls>>

-----------------------------------------------------------------------------
(* The send thread: ChannelMonitorImpl::send() and MonitorStrategyQueue::send(). *)

SendRequest ==
    /\ connected /\ reqQueued > 0
    /\ reqQueued' = reqQueued - 1
    /\ pending' = "none"
    /\ srv' = CASE pending = "init" -> "asked"
                [] pending = "start" /\ srv \in {"asked", "ready"} ->
                     (IF srv = "asked" THEN "askedStart" ELSE "running")
                [] pending = "stop" /\ srv \in {"askedStart", "running"} ->
                     (IF srv = "askedStart" THEN "asked" ELSE "ready")
                [] pending = "destroy" -> "idle"
                [] OTHER -> srv
    /\ window' = IF pending = "init" /\ Pipeline THEN queueSize ELSE window
    /\ UNCHANGED <<queueVars, started, initialized, destroyed, subscribed, connected,
                   ackQueued, userVars, obsVars, recvCalls>>

\* Fault: what was acknowledged is counted again.
SendAck_uncleared ==
    /\ connected /\ ackQueued > 0
    /\ ackQueued' = ackQueued - 1
    /\ window' = IF srv = "idle" THEN window ELSE window + releasedCount
    /\ reportInProgress' = FALSE
    /\ UNCHANGED <<freeQueue, monitorQueue, overrunInProgress, overrunElement, unlisten, releasedCount,
                   lastType, reqVars, connected, reqQueued, srv, userVars, obsVars, recvCalls>>

\* Fault: the report stays in progress.
SendAck_stuck ==
    /\ connected /\ ackQueued > 0
    /\ ackQueued' = ackQueued - 1
    /\ window' = IF srv = "idle" THEN window ELSE window + releasedCount
    /\ releasedCount' = 0
    /\ UNCHANGED <<freeQueue, monitorQueue, overrunInProgress, overrunElement, unlisten, reportInProgress,
                   lastType, reqVars, connected, reqQueued, srv, userVars, obsVars, recvCalls>>

SendAck ==
    /\ connected /\ ackQueued > 0
    /\ ackQueued' = ackQueued - 1
    /\ window' = IF srv = "idle" THEN window ELSE window + releasedCount
    /\ releasedCount' = 0
    /\ reportInProgress' = FALSE
    /\ UNCHANGED <<freeQueue, monitorQueue, overrunInProgress, overrunElement, unlisten,
                   lastType, reqVars, connected, reqQueued, srv, userVars, obsVars, recvCalls>>

-----------------------------------------------------------------------------
(* The receive thread: response() and what it calls.                        *)

Receiving == connected /\ ~destroyed /\ recvCalls = <<>>

\* MonitorStrategyQueue::init(), which leaves the overrun element alone.
QueueInit(t) ==
    /\ releasedCount' = 0 /\ reportInProgress' = FALSE
    /\ monitorQueue' = <<>>
    /\ freeQueue' = [i \in 1..queueSize |-> [gen |-> gen + 1, num |-> i, type |-> t]]
    /\ lastType' = t
    /\ UNCHANGED <<overrunInProgress, overrunElement, unlisten>>

InitResponse(t) ==
    /\ Receiving /\ srv \in {"asked", "askedStart"} /\ gen < MaxInits
    /\ initialized' = TRUE
    /\ QueueInit(t)
    /\ gen' = gen + 1
    /\ srv' = IF srv = "asked" THEN "ready" ELSE "running"
    /\ recvCalls' = IF started THEN <<"connect", "restart">> ELSE <<"connect">>
    /\ latest' = Zero /\ seen' = Zero /\ told' = FALSE
    /\ UNCHANGED <<started, destroyed, pending, subscribed, connected, reqQueued, ackQueued,
                   window, userVars, held, mustPoll, drops, stops>>

\* An unsuccessful answer is passed to monitorConnect().
InitFailed ==
    /\ Receiving /\ srv \in {"asked", "askedStart"}
    /\ srv' = "failed"
    /\ recvCalls' = <<"connect">>
    /\ UNCHANGED <<queueVars, reqVars, connected, reqQueued, ackQueued, window, userVars, obsVars>>

\* The structure after an update: unchanged fields are copied from the last one.
Stamp(changed) == [f \in Fields |-> IF f \in changed THEN latest[f] + 1 ELSE latest[f]]

\* Fault: what is overwritten is not marked as overrun.
Merge_unmarked(u, changed, overrun) ==
    [u EXCEPT !.changed = @ \cup changed,
              !.val = [f \in Fields |-> IF f \in changed THEN latest[f] + 1 ELSE @[f]],
              !.overrun = @ \cup overrun]

\* Fault: the fields that already held an update keep their old value.
Merge_keepsOld(u, changed, overrun) ==
    [u EXCEPT !.changed = @ \cup changed,
              !.val = [f \in Fields |-> IF f \in changed \ u.changed THEN latest[f] + 1 ELSE @[f]],
              !.overrun = @ \cup (u.changed \cap changed) \cup overrun]

\* An update that is merged into the overrun element.
Merge(u, changed, overrun) ==
    [u EXCEPT !.changed = @ \cup changed,
              !.val = [f \in Fields |-> IF f \in changed THEN latest[f] + 1 ELSE @[f]],
              !.overrun = @ \cup (u.changed \cap changed) \cup overrun]

\* Fault: the last free element is queued like the others.
QueueResponse_last(changed, overrun) ==
    LET new == [elem |-> freeQueue[Len(freeQueue)], changed |-> changed,
                val |-> Stamp(changed), overrun |-> overrun]
    IN  /\ freeQueue # <<>>
        /\ freeQueue' = SubSeq(freeQueue, 1, Len(freeQueue) - 1)
        /\ monitorQueue' = Append(monitorQueue, new)
        /\ UNCHANGED <<overrunInProgress, overrunElement>>

\* MonitorStrategyQueue::response().  The element that empties freeQueue becomes
\* the overrun element, into which later updates are merged.
QueueResponse(changed, overrun) ==
    IF overrunInProgress
    THEN /\ overrunElement' = <<Merge(overrunElement[1], changed, overrun)>>
         /\ UNCHANGED <<freeQueue, monitorQueue, overrunInProgress>>
    ELSE LET new == [elem |-> freeQueue[Len(freeQueue)], changed |-> changed,
                     val |-> Stamp(changed), overrun |-> overrun]
         IN  /\ freeQueue # <<>>
             /\ freeQueue' = SubSeq(freeQueue, 1, Len(freeQueue) - 1)
             /\ IF freeQueue' = <<>>
                THEN /\ overrunInProgress' = TRUE /\ overrunElement' = <<new>>
                     /\ monitorQueue' = monitorQueue
                ELSE /\ monitorQueue' = Append(monitorQueue, new)
                     /\ UNCHANGED <<overrunInProgress, overrunElement>>

\* An update; last says that it comes with the message that ends the subscription.
Data(changed, last) ==
    /\ Receiving /\ srv = "running" /\ changed # {}
    /\ last => ServerEnds
    /\ \A f \in changed : latest[f] < MaxUpdates
    /\ Pipeline => window > 0
    /\ QueueResponse(changed, {})
    /\ latest' = Stamp(changed)
    /\ window' = IF Pipeline THEN window - 1 ELSE window
    /\ srv' = IF last THEN "ended" ELSE srv
    /\ initialized' = (initialized /\ ~last)
    \* A merged update returns early; otherwise the flag is read again, unlocked.
    /\ recvCalls' = (IF overrunInProgress THEN <<>> ELSE <<"event?">>)
                       \o (IF last THEN <<"unlisten?">> ELSE <<>>)
    /\ UNCHANGED <<unlisten, releasedCount, reportInProgress, lastType, started, destroyed,
                   pending, subscribed, connected, reqQueued, ackQueued, userVars,
                   held, gen, seen, mustPoll, told, drops, stops>>

\* The end of the subscription without data.
End ==
    /\ Receiving /\ ServerEnds /\ srv = "running"
    /\ srv' = "ended"
    /\ initialized' = FALSE
    /\ recvCalls' = <<"unlisten?">>
    /\ UNCHANGED <<queueVars, started, destroyed, pending, subscribed, connected, reqQueued,
                   ackQueued, window, userVars, obsVars>>

\* Fault: the updates are handed back, but stay queued.
QueueStart_kept ==
    /\ freeQueue' = freeQueue \o [i \in DOMAIN monitorQueue |-> monitorQueue[i].elem]
                       \o [i \in DOMAIN overrunElement |-> overrunElement[i].elem]
    /\ overrunElement' = <<>>
    /\ overrunInProgress' = FALSE
    /\ latest' = Zero /\ seen' = Zero
    /\ UNCHANGED <<monitorQueue, unlisten, releasedCount, reportInProgress, lastType>>

\* Fault: the overrun goes on without its element.
QueueStart_overrun ==
    /\ freeQueue' = freeQueue \o [i \in DOMAIN monitorQueue |-> monitorQueue[i].elem]
                       \o [i \in DOMAIN overrunElement |-> overrunElement[i].elem]
    /\ monitorQueue' = <<>>
    /\ overrunElement' = <<>>
    /\ latest' = Zero /\ seen' = Zero
    /\ UNCHANGED <<overrunInProgress, unlisten, releasedCount, reportInProgress, lastType>>

\* MonitorStrategyQueue::start(): what is queued is thrown away.
QueueStart ==
    /\ freeQueue' = freeQueue \o [i \in DOMAIN monitorQueue |-> monitorQueue[i].elem]
                       \o [i \in DOMAIN overrunElement |-> overrunElement[i].elem]
    /\ monitorQueue' = <<>>
    /\ overrunElement' = <<>>
    /\ overrunInProgress' = FALSE
    /\ latest' = Zero /\ seen' = Zero
    /\ UNCHANGED <<unlisten, releasedCount, reportInProgress, lastType>>

Pop(q) == q' = Tail(q)

\* Fault: the test of the flag is inverted.
CallEvent_inverted ==
    /\ recvCalls # <<>> /\ Head(recvCalls) = "event?"
    /\ mustPoll' = (mustPoll \/ overrunInProgress)
    /\ Pop(recvCalls)
    /\ UNCHANGED <<queueVars, reqVars, netVars, userVars, held, gen, latest, seen, told, drops, stops>>

CallEvent ==
    /\ recvCalls # <<>> /\ Head(recvCalls) = "event?"
    /\ mustPoll' = (mustPoll \/ ~overrunInProgress)
    /\ Pop(recvCalls)
    /\ UNCHANGED <<queueVars, reqVars, netVars, userVars, held, gen, latest, seen, told, drops, stops>>

CallConnect ==
    /\ recvCalls # <<>> /\ Head(recvCalls) = "connect"
    /\ Pop(recvCalls)
    /\ UNCHANGED <<queueVars, reqVars, netVars, userVars, obsVars>>

\* MonitorStrategyQueue::unlisten() calls back at once when the queue is empty.
UnlistenNow == monitorQueue = <<>>

CallUnlisten ==
    /\ recvCalls # <<>> /\ Head(recvCalls) = "unlisten?"
    /\ unlisten' = ~UnlistenNow
    /\ told' = (told \/ UnlistenNow)
    /\ Pop(recvCalls)
    /\ UNCHANGED <<freeQueue, monitorQueue, overrunInProgress, overrunElement, releasedCount,
                   reportInProgress, lastType, reqVars, netVars, userVars,
                   held, gen, latest, seen, mustPoll, drops, stops>>

\* start() from initResponse() after a reconnect: the receive thread's own call.
CallRestart ==
    /\ recvCalls # <<>> /\ Head(recvCalls) = "restart"
    /\ Pop(recvCalls)
    /\ IF destroyed \/ ~initialized
       THEN UNCHANGED <<queueVars, pending, started, reqQueued, latest, seen>>
       ELSE /\ QueueStart
            /\ IF pending = "none" /\ connected
               THEN pending' = "start" /\ started' = TRUE /\ reqQueued' = reqQueued + 1
               ELSE UNCHANGED <<pending, started, reqQueued>>
    /\ UNCHANGED <<initialized, destroyed, subscribed, connected, ackQueued, srv, window,
                   userVars, held, gen, mustPoll, told, drops, stops>>

-----------------------------------------------------------------------------
(* The user: start(), stop(), poll(), release(), destroy().                  *)

UserIdle == userPc = "idle" /\ releasing = <<>>

\* Under the request's lock: refused when a request is pending, but only after
\* the queue was emptied.
start ==
    /\ UserIdle /\ ~destroyed /\ initialized
    /\ started => UserStops /\ stops < MaxStops
    /\ stops' = IF started THEN stops + 1 ELSE stops
    /\ QueueStart
    /\ IF pending = "none"
       THEN /\ pending' = "start" /\ started' = TRUE /\ restore' = started /\ userPc' = "enqueue"
       ELSE UNCHANGED <<pending, started, restore, userPc>>
    /\ UNCHANGED <<initialized, destroyed, subscribed, netVars, releasing,
                   held, gen, mustPoll, told, drops, recvCalls>>

stop ==
    /\ UserStops /\ stops < MaxStops
    /\ UserIdle /\ ~destroyed /\ initialized
    /\ pending = "none"
    /\ pending' = "stop" /\ started' = FALSE /\ restore' = started /\ userPc' = "enqueue"
    /\ stops' = stops + 1
    /\ UNCHANGED <<queueVars, initialized, destroyed, subscribed, netVars, releasing,
                   held, gen, latest, seen, mustPoll, told, drops, recvCalls>>

\* After unlocking: checkAndGetTransport() throws when the channel is not connected.
UserEnqueue ==
    /\ userPc = "enqueue"
    /\ IF connected
       THEN reqQueued' = reqQueued + 1 /\ userPc' = "idle"
       ELSE userPc' = "abort" /\ reqQueued' = reqQueued
    /\ UNCHANGED <<queueVars, reqVars, connected, ackQueued, srv, window, restore, releasing,
                   obsVars, recvCalls>>

\* The handler of that exception, with the lock taken again.
UserAbort ==
    /\ userPc = "abort"
    /\ started' = restore
    /\ pending' = "none"
    /\ userPc' = "idle"
    /\ UNCHANGED <<queueVars, initialized, destroyed, subscribed, netVars, restore, releasing,
                   obsVars, recvCalls>>

poll ==
    /\ UserIdle /\ monitorQueue # <<>>
    /\ LET u == Head(monitorQueue)
       IN  held' = held \cup {u.elem} /\ seen' = u.val
    /\ monitorQueue' = Tail(monitorQueue)
    /\ UNCHANGED <<freeQueue, overrunInProgress, overrunElement, unlisten, releasedCount,
                   reportInProgress, lastType, reqVars, netVars, userVars,
                   gen, latest, mustPoll, told, drops, stops, recvCalls>>

\* Fault: the end is forgotten instead of announced.
pollNull_silent ==
    /\ UserIdle /\ monitorQueue = <<>>
    /\ mustPoll' = FALSE
    /\ told' = told
    /\ unlisten' = FALSE
    /\ UNCHANGED <<freeQueue, monitorQueue, overrunInProgress, overrunElement, releasedCount,
                   reportInProgress, lastType, reqVars, netVars, userVars,
                   held, gen, latest, seen, drops, stops, recvCalls>>

pollNull ==
    /\ UserIdle /\ monitorQueue = <<>>
    /\ mustPoll' = FALSE
    /\ told' = (told \/ unlisten)
    /\ unlisten' = FALSE
    /\ UNCHANGED <<freeQueue, monitorQueue, overrunInProgress, overrunElement, releasedCount,
                   reportInProgress, lastType, reqVars, netVars, userVars,
                   held, gen, latest, seen, drops, stops, recvCalls>>

\* release() compares the type with m_lastStructure before it takes the lock.
releaseCheck(e) ==
    /\ UserIdle /\ e \in held
    /\ held' = held \ {e}
    /\ mustPoll' = TRUE
    /\ releasing' = IF e.type = lastType THEN <<e>> ELSE <<>>
    /\ UNCHANGED <<queueVars, reqVars, netVars, userPc, restore,
                   gen, latest, seen, told, drops, stops, recvCalls>>

\* Fault: the overrun element waits for the next release().
Requeue_late ==
    IF overrunInProgress /\ Len(freeQueue) > 0
    THEN monitorQueue' = monitorQueue \o overrunElement /\ overrunElement' = <<>>
         /\ overrunInProgress' = FALSE
    ELSE UNCHANGED <<monitorQueue, overrunElement, overrunInProgress>>

\* A free element ends the overrun: its element joins the queue.
Requeue ==
    IF overrunInProgress
    THEN monitorQueue' = monitorQueue \o overrunElement /\ overrunElement' = <<>>
         /\ overrunInProgress' = FALSE
    ELSE UNCHANGED <<monitorQueue, overrunElement, overrunInProgress>>

\* The rest of release(), under the lock, with the acknowledgement that it queues.
releaseLocked ==
    /\ releasing # <<>>
    /\ freeQueue' = freeQueue \o releasing
    /\ releasing' = <<>>
    /\ Requeue
    /\ releasedCount' = IF Pipeline THEN releasedCount + 1 ELSE releasedCount
    /\ IF Pipeline /\ ~reportInProgress /\ releasedCount' >= ackAny /\ connected
       THEN reportInProgress' = TRUE /\ ackQueued' = ackQueued + 1
       ELSE UNCHANGED <<reportInProgress, ackQueued>>
    /\ UNCHANGED <<unlisten, lastType, reqVars, connected, reqQueued, srv, window,
                   userPc, restore, obsVars, recvCalls>>

destroy ==
    /\ UserDestroys /\ UserIdle /\ ~destroyed
    /\ destroyed' = TRUE
    /\ pending' = IF initialized THEN "destroy" ELSE pending
    /\ reqQueued' = IF initialized /\ connected THEN reqQueued + 1 ELSE reqQueued
    /\ UNCHANGED <<queueVars, started, initialized, subscribed, connected, ackQueued, srv, window,
                   userVars, obsVars, recvCalls>>

-----------------------------------------------------------------------------
Network == Disconnect \/ Connect

Sending == SendRequest \/ SendAck

Response ==
    \/ \E t \in Types : InitResponse(t)
    \/ InitFailed
    \/ \E changed \in SUBSET Fields, last \in BOOLEAN : Data(changed, last)
    \/ End

Callback == CallEvent \/ CallConnect \/ CallUnlisten \/ CallRestart

Locked == UserEnqueue \/ UserAbort \/ releaseLocked

User ==
    \/ start \/ stop
    \/ poll \/ pollNull
    \/ \E e \in held : releaseCheck(e)
    \/ Locked
    \/ destroy

Next == Network \/ Sending \/ Response \/ Callback \/ User

Spec == Init /\ [][Next]_vars

\* Threads keep running, the server answers an init request, and the user starts
\* the subscription, polls after an event or a release() and releases what it polled.
FairSpec ==
    /\ Spec
    /\ WF_vars(Sending)
    /\ WF_vars(Callback)
    /\ WF_vars(Locked)
    /\ WF_vars(\E t \in Types : InitResponse(t))
    /\ WF_vars(start)
    /\ WF_vars(mustPoll /\ (poll \/ pollNull))
    /\ WF_vars(\E e \in held : releaseCheck(e))

-----------------------------------------------------------------------------
\* Every variable has its type.
TypeOK ==
    /\ freeQueue \in Seq(Element) /\ monitorQueue \in Seq(Update)
    /\ overrunElement \in Seq(Update) /\ Len(overrunElement) <= 1
    /\ overrunInProgress = (overrunElement # <<>>)
    /\ unlisten \in BOOLEAN /\ reportInProgress \in BOOLEAN /\ releasedCount \in Nat
    /\ lastType \in Types \cup {"none"}
    /\ started \in BOOLEAN /\ initialized \in BOOLEAN /\ destroyed \in BOOLEAN
    /\ pending \in {"none", "init", "start", "stop", "destroy"}
    /\ subscribed \in BOOLEAN /\ connected \in BOOLEAN
    /\ recvCalls \in Seq({"event?", "connect", "unlisten?", "restart"})
    /\ userPc \in {"idle", "enqueue", "abort"} /\ restore \in BOOLEAN
    /\ releasing \in Seq(Element) /\ Len(releasing) <= 1
    /\ reqQueued \in Nat /\ ackQueued \in Nat /\ window \in Nat
    /\ srv \in {"idle", "asked", "askedStart", "failed", "ready", "running", "ended"}
    /\ held \in SUBSET Element /\ gen \in Nat
    /\ latest \in [Fields -> Nat] /\ seen \in [Fields -> Nat]
    /\ mustPoll \in BOOLEAN /\ told \in BOOLEAN /\ drops \in Nat /\ stops \in Nat

\* An element is in one place only: otherwise an update that is received would be
\* written into one that is queued or that the user is reading.
NoAliasing ==
    LET all == freeQueue \o [i \in DOMAIN monitorQueue |-> monitorQueue[i].elem]
                 \o [i \in DOMAIN overrunElement |-> overrunElement[i].elem] \o releasing
    IN  /\ IsInjective(all)
        /\ Range(all) \cap held = {}

\* response() finds a free element whenever no overrun is in progress (it takes
\* m_freeQueue.back() without a test).
FreeElementForResponse == gen > 0 /\ ~overrunInProgress => freeQueue # <<>>

\* Updates are flowing: the queue was started for the current subscription.
Flowing == srv \in {"running", "ended"} /\ "restart" \notin Range(recvCalls)

Queued == monitorQueue \o overrunElement

\* The value of f before the i-th queued update, as the user will see it.
Before(i, f) ==
    LET S == {j \in 1..(i - 1) : f \in Queued[j].changed}
    IN  IF S = {} THEN seen[f]
        ELSE Queued[CHOOSE j \in S : \A k \in S : k <= j].val[f]

\* What the user has seen plus what is queued is the latest value of every field.
LatestIsQueued == Flowing => \A f \in Fields : Before(Len(Queued) + 1, f) = latest[f]

\* A queued update skips a value of a field exactly when it carries the overrun bit.
OverrunExact ==
    Flowing => \A i \in DOMAIN Queued : \A f \in Queued[i].changed :
        (f \in Queued[i].overrun) <=> (Queued[i].val[f] # Before(i, f) + 1)

\* The user will come back for what is queued, and for the overrun element.
NoLostWakeup ==
    /\ monitorQueue # <<>> =>
          mustPoll \/ "event?" \in Range(recvCalls) \/ held # {} \/ releasing # <<>>
    /\ Flowing /\ overrunInProgress =>
          monitorQueue # <<>> \/ held # {} \/ releasing # <<>>

\* The server's window and the elements in use add up to the queue size, so that
\* a pipelined subscription never overruns and never loses part of its window.
CreditAccounted ==
    Pipeline /\ srv \in {"ready", "running"} =>
        window + Len(Queued) + Cardinality({e \in held : e.gen = gen}) + Len(releasing)
          + releasedCount = queueSize

\* A channel that is connected has asked for the subscription or is about to.
Resubscribed ==
    connected /\ ~destroyed /\ srv = "idle" => pending = "init" /\ reqQueued > 0

\* A user that releases what it polls keeps a pipelined subscription going.
UpdatesFlow == (srv = "running") ~> (window > 0 \/ srv # "running")

\* Every update is seen, itself or merged into a later one.
EveryUpdateSeen ==
    \A f \in Fields : \A n \in 1..MaxUpdates : (latest[f] >= n) ~> (seen[f] >= n)

\* The end of the subscription reaches the user.
EndReachesUser == (srv = "ended") ~> told
=============================================================================
