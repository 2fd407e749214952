----------------------------- MODULE ServerMonitor -----------------------------
(***************************************************************************)
(* ServerMonitorRequesterImpl (src/src/server/responseHandlers.cpp) on top *)
(* of a MonitorFIFO: the server end of a remote subscription.              *)
(*                                                                         *)
(* Three threads meet here: the producer ("up"), the send thread of the    *)
(* connection, which runs send() once for each time that the requester was *)
(* put on the send queue, and its receive thread, which runs the handler   *)
(* of CMD_MONITOR requests (start, stop, ack, destroy).  The remote client *)
(* is its view of the window: what it was sent and has not acknowledged.   *)
(***************************************************************************)
EXTENDS MonitorFIFO

CONSTANTS
    Window,     \* the client's queueSize, granted by the init request
    AckAny,     \* the client acknowledges when it has released this many
    Producer,   \* "post" or "tryPost": what the producer calls
    AllowStop,  \* the client may send stop and destroy requests
    MaxQueued   \* bound: the client does not stop with a longer send queue

ASSUME WindowAssumption ==
    /\ Window \in Nat \ {0} /\ AckAny \in Nat \ {0}
    /\ Producer \in {"post", "tryPost"}
    /\ AllowStop \in BOOLEAN
    /\ MaxQueued \in Nat

VARIABLES
    windowOpen, windowClosed,   \* _window_open, _window_closed
    unlisten,                   \* _unlisten
    initPending,                \* the pending request is QOS_INIT
    alive,                      \* _channelMonitor is set
    queued,                     \* times that the requester is on the send queue
    sendPc, sending,            \* send(): where it is, the element that it holds
    ackPc, acking, ackCount,    \* the receive thread in ack()
    granted,                    \* the initial window was acknowledged
    unacked,                    \* updates sent to the client, not acknowledged
    outside,                    \* "send outside of window" was logged
    ended,                      \* the QOS_DESTROY message was sent
    initSent                    \* the reply to the init request was sent

reqVars  == <<windowOpen, windowClosed, unlisten, initPending, alive>>
sendVars == <<sendPc, sending>>
ackVars  == <<ackPc, acking, ackCount, granted>>
cliVars  == <<unacked, outside, ended, initSent>>
svars    == <<vars, reqVars, queued, sendVars, ackVars, cliVars>>

SInit ==
    /\ Init
    /\ windowOpen = 0 /\ windowClosed = <<>>
    /\ unlisten = FALSE /\ initPending = TRUE /\ alive = TRUE
    /\ queued = 0
    /\ sendPc = "idle" /\ sending = <<>>
    /\ ackPc = "idle" /\ acking = <<>> /\ ackCount = 0 /\ granted = ~Pipeline
    /\ unacked = 0 /\ outside = FALSE /\ ended = FALSE /\ initSent = FALSE

-----------------------------------------------------------------------------
(* The producer: the upstream interface of the queue.                       *)

Produce ==
    /\ Idle("up")
    /\ \/ \E t \in Types : open(t)
       \/ finish
       \/ \E changed \in SUBSET Fields, overrun \in Overruns :
             \/ Producer = "post" /\ PostToEmpty(changed, overrun)
             \/ Producer = "post" /\ PostSquash(changed, overrun)
             \/ /\ Producer = "tryPost"
                /\ tryPost(changed, overrun, FALSE)
                /\ UNCHANGED calls
       \/ notify("up")
    /\ UNCHANGED <<reqVars, queued, sendVars, ackVars, cliVars>>

\* monitorConnect(), monitorEvent() and unlisten() all end in enqueueSendRequest().
callback(t) ==
    /\ deliver(t)
    /\ unlisten' = (unlisten \/ Head(calls[t]) = "unlisten")
    /\ queued' = queued + 1
    /\ UNCHANGED <<windowOpen, windowClosed, initPending, alive, sendVars, ackVars, cliVars>>

-----------------------------------------------------------------------------
(* The send thread: send().                                                 *)

SendInit ==
    /\ sendPc = "idle" /\ queued > 0 /\ initPending
    /\ initPending' = FALSE
    /\ initSent' = TRUE
    /\ queued' = queued - 1
    /\ UNCHANGED <<vars, windowOpen, windowClosed, unlisten, alive, sendVars, ackVars,
                   unacked, outside, ended>>

\* The monitor was destroyed.
SendNothing ==
    /\ sendPc = "idle" /\ queued > 0 /\ ~initPending /\ ~alive
    /\ queued' = queued - 1
    /\ UNCHANGED <<vars, reqVars, sendVars, ackVars, cliVars>>

SendPoll ==
    /\ sendPc = "idle" /\ queued > 0 /\ ~initPending /\ alive
    /\ poll("send")
    /\ queued' = queued - 1
    /\ sending' = <<Head(inuse).elem>>
    /\ sendPc' = "polled"
    /\ UNCHANGED <<reqVars, ackVars, cliVars>>

\* Fault: the window is not consumed.
SendWindow_free ==
    /\ sendPc = "polled" /\ Idle("send")
    /\ unacked' = IF Pipeline THEN unacked + 1 ELSE unacked
    /\ IF Pipeline /\ windowOpen > 0
       THEN /\ windowClosed' = windowClosed \o sending
            /\ sending' = <<>>
            /\ sendPc' = "requeue"
       ELSE /\ sendPc' = "release"
            /\ UNCHANGED <<windowClosed, sending>>
    /\ outside' = (outside \/ (Pipeline /\ windowOpen = 0))
    /\ UNCHANGED <<vars, windowOpen, unlisten, initPending, alive, queued, ackVars, ended, initSent>>

\* The update is in the send buffer; the requester's lock is taken for the window.
SendWindow ==
    /\ sendPc = "polled" /\ Idle("send")
    /\ unacked' = IF Pipeline THEN unacked + 1 ELSE unacked
    /\ IF Pipeline /\ windowOpen > 0
       THEN /\ windowClosed' = windowClosed \o sending
            /\ windowOpen' = windowOpen - 1
            /\ sending' = <<>>
            /\ sendPc' = "requeue"
       ELSE /\ sendPc' = "release"
            /\ UNCHANGED <<windowOpen, windowClosed, sending>>
    /\ outside' = (outside \/ (Pipeline /\ windowOpen = 0))
    /\ UNCHANGED <<vars, unlisten, initPending, alive, queued, ackVars, ended, initSent>>

\* element.reset() releases what did not go to the window.
SendRelease ==
    /\ sendPc = "release"
    /\ release("send", Head(sending))
    /\ sending' = <<>>
    /\ sendPc' = "requeue"
    /\ UNCHANGED <<reqVars, queued, ackVars, cliVars>>

\* Fault: send() does not come back for the next update.
SendRequeue_once ==
    /\ sendPc = "requeue" /\ Idle("send")
    /\ queued' = queued
    /\ sendPc' = "idle"
    /\ UNCHANGED <<vars, reqVars, sending, ackVars, cliVars>>

SendRequeue ==
    /\ sendPc = "requeue" /\ Idle("send")
    /\ queued' = queued + 1
    /\ sendPc' = "idle"
    /\ UNCHANGED <<vars, reqVars, sending, ackVars, cliVars>>

\* No element: if the source has finished, the window is given up.
SendEmpty ==
    /\ sendPc = "idle" /\ queued > 0 /\ ~initPending /\ alive
    /\ pollNull("send")
    /\ queued' = queued - 1
    /\ sendPc' = "empty"
    /\ UNCHANGED <<reqVars, sending, ackVars, cliVars>>

\* Fault: the window shrinks by what it held instead of being closed.
SendTakeUnlisten_shrinks ==
    /\ sendPc = "empty"
    /\ unlisten' = FALSE
    /\ IF unlisten
       THEN /\ sending' = windowClosed
            /\ windowClosed' = <<>>
            /\ windowOpen' = windowOpen - Len(windowClosed)
            /\ sendPc' = "unlisten"
       ELSE /\ sendPc' = "idle"
            /\ UNCHANGED <<sending, windowClosed, windowOpen>>
    /\ UNCHANGED <<vars, initPending, alive, queued, ackVars, cliVars>>

SendTakeUnlisten ==
    /\ sendPc = "empty"
    /\ unlisten' = FALSE
    /\ IF unlisten
       THEN /\ sending' = windowClosed
            /\ windowClosed' = <<>>
            /\ windowOpen' = 0
            /\ sendPc' = "unlisten"
       ELSE /\ sendPc' = "idle"
            /\ UNCHANGED <<sending, windowClosed, windowOpen>>
    /\ UNCHANGED <<vars, initPending, alive, queued, ackVars, cliVars>>

SendReleaseWindow ==
    /\ sendPc = "unlisten" /\ sending # <<>>
    /\ release("send", Head(sending))
    /\ sending' = Tail(sending)
    /\ UNCHANGED <<reqVars, queued, sendPc, ackVars, cliVars>>

SendEnd ==
    /\ sendPc = "unlisten" /\ sending = <<>> /\ Idle("send")
    /\ ended' = TRUE
    /\ sendPc' = "idle"
    /\ UNCHANGED <<vars, reqVars, queued, sending, ackVars, unacked, outside, initSent>>

-----------------------------------------------------------------------------
(* The receive thread: ServerMonitorHandler::handleResponse() and ack().     *)

\* Fault: what is acknowledged stays in the window.
AckBegin_kept(cnt) ==
    LET nack == IF cnt < Len(windowClosed) THEN cnt ELSE Len(windowClosed)
    IN  /\ windowOpen' = windowOpen + cnt
        /\ acking' = SubSeq(windowClosed, 1, nack)
        /\ windowClosed' = windowClosed
        /\ ackCount' = cnt
        /\ ackPc' = "release"

\* ack(): the part under the requester's lock.
AckBegin(cnt) ==
    LET nack == IF cnt < Len(windowClosed) THEN cnt ELSE Len(windowClosed)
    IN  /\ windowOpen' = windowOpen + cnt
        /\ acking' = SubSeq(windowClosed, 1, nack)
        /\ windowClosed' = SubSeq(windowClosed, nack + 1, Len(windowClosed))
        /\ ackCount' = cnt
        /\ ackPc' = "release"

\* The init request carries the client's queue size.
RecvInit ==
    /\ ~granted /\ ackPc = "idle" /\ alive
    /\ AckBegin(Window)
    /\ granted' = TRUE
    /\ UNCHANGED <<vars, unlisten, initPending, alive, queued, sendVars, cliVars>>

\* An ack request: what the client released, at least AckAny.
RecvAck ==
    /\ granted /\ ackPc = "idle" /\ alive
    /\ \E cnt \in AckAny..unacked :
          /\ AckBegin(cnt)
          /\ unacked' = unacked - cnt
    /\ UNCHANGED <<vars, unlisten, initPending, alive, queued, sendVars, granted,
                   outside, ended, initSent>>

AckRelease ==
    /\ ackPc = "release" /\ acking # <<>>
    /\ release("recv", Head(acking))
    /\ acking' = Tail(acking)
    /\ UNCHANGED <<reqVars, queued, sendVars, ackPc, ackCount, granted, cliVars>>

AckReport ==
    /\ ackPc = "release" /\ acking = <<>>
    /\ reportRemoteQueueStatus("recv", ackCount)
    /\ ackPc' = "idle" /\ ackCount' = 0
    /\ UNCHANGED <<reqVars, queued, sendVars, acking, granted, cliVars>>

RecvStart ==
    /\ initSent /\ granted /\ ackPc = "idle" /\ alive
    /\ start("recv")
    /\ UNCHANGED <<reqVars, queued, sendVars, ackVars, cliVars>>

RecvStop ==
    /\ AllowStop /\ queued < MaxQueued
    /\ initSent /\ granted /\ ackPc = "idle" /\ alive
    /\ stop("recv")
    /\ UNCHANGED <<reqVars, queued, sendVars, ackVars, cliVars>>

\* destroy(): the window is dropped with its elements.
RecvDestroy ==
    /\ AllowStop
    /\ initSent /\ granted /\ ackPc = "idle" /\ Idle("recv") /\ alive
    /\ alive' = FALSE
    /\ windowClosed' = <<>>
    /\ UNCHANGED <<vars, windowOpen, unlisten, initPending, queued, sendVars, ackVars, cliVars>>

-----------------------------------------------------------------------------
Send ==
    \/ SendInit
    \/ SendNothing
    \/ SendPoll
    \/ SendWindow
    \/ SendRelease
    \/ SendRequeue
    \/ SendEmpty
    \/ SendTakeUnlisten
    \/ SendReleaseWindow
    \/ SendEnd

Ack == AckRelease \/ AckReport

Recv ==
    \/ RecvInit
    \/ RecvAck
    \/ Ack
    \/ RecvStart
    \/ RecvStop
    \/ RecvDestroy

SNext ==
    \/ Produce
    \/ \E t \in Threads : callback(t)
    \/ Send
    \/ Recv

SSpec == SInit /\ [][SNext]_svars

\* A producer calls notify() after what it did (monitor.h:234), threads keep
\* running, and the client starts the subscription and acknowledges what it was sent.
SFairSpec ==
    /\ SSpec
    /\ WF_svars(notify("up") /\ UNCHANGED <<reqVars, queued, sendVars, ackVars, cliVars>>)
    /\ \A t \in Threads : WF_svars(callback(t))
    /\ WF_svars(Send)
    /\ WF_svars(Ack)
    /\ WF_svars(RecvInit)
    /\ WF_svars(RecvAck)
    /\ WF_svars(RecvStart)

-----------------------------------------------------------------------------
\* Every variable of the requester has its type.
STypeOK ==
    /\ TypeOK
    /\ windowOpen \in Nat /\ windowClosed \in Seq(Element)
    /\ unlisten \in BOOLEAN /\ initPending \in BOOLEAN /\ alive \in BOOLEAN
    /\ queued \in Nat
    /\ sendPc \in {"idle", "polled", "release", "requeue", "empty", "unlisten"}
    /\ sending \in Seq(Element)
    /\ ackPc \in {"idle", "release"} /\ acking \in Seq(Element) /\ ackCount \in Nat
    /\ granted \in BOOLEAN /\ unacked \in Nat
    /\ outside \in BOOLEAN /\ ended \in BOOLEAN /\ initSent \in BOOLEAN

\* "Monitor Logic Error: send outside of window" is never logged: the queue
\* withholds updates that the client has not made room for (send(), lines 2131-2136).
NoSendOutsideWindow == ~outside

\* _window_open and the size of _window_closed together are the congestion
\* window (responseHandlers.h:502): nothing is lost from it or added to it, in
\* any interleaving of send() and ack(), until the subscription ends.
WindowConserved ==
    Pipeline /\ granted /\ alive /\ ~outside /\ ~ended /\ sendPc # "unlisten" =>
        /\ windowOpen + Len(windowClosed) = Window
        /\ unacked = Len(windowClosed)

\* An element waiting for its acknowledgement is one that was polled and not yet
\* released, and it is waited for once.
WindowHoldsPolled ==
    LET held == windowClosed \o acking \o sending
    IN  /\ Range(held) \subseteq polled
        /\ IsInjective(held)

\* The end of the stream is sent after the newest value of every field.
EndIsLast == ended /\ alive => inuse = <<>> /\ finished /\ \A f \in Mask : seen[f] = latest[f]

\* Every update is sent to the client, itself or squashed into a later one, unless
\* the client stops or destroys the subscription: each way in which an update, an
\* acknowledgement or start() makes one available brings send() back.
EveryUpdateSent ==
    \A f \in Mask : \A n \in 1..MaxPosts :
        (latest[f] >= n) ~> (seen[f] >= n \/ ~running \/ ~alive)

\* A subscription that finishes with something left to send ends for the client too.
EndReachesClient ==
    (finished /\ running /\ inuse # <<>>) ~> (ended \/ ~running \/ ~alive)
=============================================================================
