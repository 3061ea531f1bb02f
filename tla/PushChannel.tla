------------------------------ MODULE PushChannel ------------------------------
(***************************************************************************)
(* One upgraded connection of Socketify, an SSE stream (sse::Session) or a *)
(* WebSocket (pulse::Channel), seen from the three sides that touch it:    *)
(*                                                                         *)
(*   - application threads that call send and close on the handle.  Both   *)
(*     append under Impl::mu, copy Impl::notify and, with the lock         *)
(*     released, run it: EventLoop::post queues a flush, then writes the   *)
(*     wakeup eventfd;                                                     *)
(*   - the worker thread that owns the connection: epoll_wait, run_posted, *)
(*     the connection's event, and the flush functions that move the       *)
(*     shared `pending' buffer to `out' and `out' to the socket;           *)
(*   - the kernel socket and the peer.                                     *)
(*                                                                         *)
(* The model starts when handle_request_ has routed the upgrade request:   *)
(* the response head is in `out', the handle is already in the             *)
(* application's hands (the handler may have given it to other threads)    *)
(* and the connection has not adopted it yet.                              *)
(*                                                                         *)
(* The two flush functions of server.cpp are one text with different       *)
(* names; `kind' selects what differs: SSE's close() queues no frame, and  *)
(* SSE ignores what the peer sends.                                        *)
(***************************************************************************)
EXTENDS Naturals, Sequences

CONSTANTS
  Threads,      (* application threads that hold the handle                *)
  Worker,       (* the worker thread, as the author of pongs and echoes    *)
  Kinds,        (* which kinds of stream to consider: "sse", "pulse"       *)
  Inbound,      (* what a Pulse peer may send: a member of AllInbound *)
  MaxCalls,     (* bound: calls one application thread makes               *)
  MaxInbound,   (* bound: frames the peer sends                            *)
  MaxEvents,    (* bound: calls, frames sent, departure and stop together  *)
  SndCap        (* frames the socket's send buffer holds                   *)

AllInbound ==
  {"text",      \* a frame that only runs a callback: text, binary, pong
   "ping",      \* a ping, which is answered
   "close",     \* a close frame, which is echoed
   "bad",       \* bytes that decode_frame refuses
   "unknown"}   \* a frame with an opcode feed_bytes does not know

ASSUME PushAssumption ==
  /\ Worker \notin Threads
  /\ Kinds \subseteq {"sse", "pulse"}
  /\ Inbound \subseteq AllInbound
  /\ MaxCalls \in Nat
  /\ MaxInbound \in Nat
  /\ MaxEvents \in Nat
  /\ SndCap \in Nat \ {0}

(* A frame is known by its opcode, its author and which of the author's    *)
(* calls made it; the worker's own pongs and echoes are not told apart.    *)
Frame == [op : {"head", "data", "pong", "close"},
          by : Threads \cup {Worker}, n : 0 .. MaxCalls]

HeadFrame == [op |-> "head", by |-> Worker, n |-> 0]

VARIABLES
  kind,             (* "sse" or "pulse", fixed by the handler              *)
  \* Session::Impl / Channel::Impl, under its mutex
  pending,          (* frames accepted and not yet taken by the worker     *)
  closed,           (* the connection is gone; drop sends                  *)
  closeRequested,   (* the user asked to close the stream                  *)
  closeRuns,        (* how often the on_close handlers were run            *)
  notify,           (* Impl::notify is set                                 *)
  \* EventLoop
  posted,           (* flush closures queued by post()                     *)
  wake,             (* the wakeup eventfd is readable                      *)
  \* worker thread
  wpc,              (* where Worker::run stands                            *)
  ret,              (* where the flush in progress returns to              *)
  batch,            (* closures swapped out by run_posted, still to run    *)
  ev,               (* flags epoll_wait reported for this connection       *)
  creq,             (* flush's copy of close_requested                     *)
  stop,             (* Worker::stop_                                       *)
  \* Connection
  alive,            (* in conns_; its ConnToken can still be locked        *)
  out,              (* unsent part of Connection::out                      *)
  registered,       (* registered_write                                    *)
  inbuf,            (* Connection::in, then Impl::inbuf                    *)
  \* application threads
  tpc,              (* step of the call in progress                        *)
  calls,            (* calls made so far                                   *)
  \* kernel socket and peer
  wire,             (* every frame the kernel took for the peer            *)
  unread,           (* how many of them the peer has not read              *)
  arrived,          (* frames from the peer the worker has not read        *)
  sent,             (* frames the peer sent                                *)
  peer,             (* "open", "fin" (half closed) or "rst"                *)
  \* history
  events,           (* what came from outside so far, for MaxEvents        *)
  accepted,         (* frames put on the stream, in the order of Impl::mu  *)
  closeMark,        (* Len(accepted) when close_requested was first set    *)
  cause             (* why the connection was closed                       *)

implVars   == <<pending, closed, closeRequested, closeRuns, notify, accepted, closeMark>>
loopVars   == <<posted, wake>>
workerVars == <<wpc, ret, batch, ev, creq, stop>>
connVars   == <<alive, out, registered, inbuf, cause>>
threadVars == <<tpc, calls>>
peerVars   == <<wire, unread, arrived, sent, peer>>

vars == <<kind, events, implVars, loopVars, workerVars, connVars, threadVars, peerVars>>

WorkerSteps == {"adopt", "feedAdopt", "head", "take", "drain", "wait",
                "swap", "run", "read", "feed", "done"}
Returns     == {"reflush", "run", "read", "wait"}
Causes      == {"none", "requested", "peer", "error", "protocol", "stop"}
ThreadSteps == {"idle", "closeframe", "post", "wakeup"}

Init ==
  /\ kind \in Kinds /\ events = 0
  /\ pending = <<>> /\ closed = FALSE /\ closeRequested = FALSE
  /\ closeRuns = 0 /\ notify = FALSE
  /\ posted = 0 /\ wake = FALSE
  /\ wpc = "adopt" /\ ret = "wait" /\ batch = 0 /\ ev = {} /\ creq = FALSE
  /\ stop = FALSE
  /\ alive = TRUE /\ out = <<HeadFrame>> /\ registered = FALSE
  /\ cause = "none"
  \* Frames that came in the same read as the upgrade request.
  /\ inbuf \in {<<>>} \cup {<<f>> : f \in Inbound}
  /\ tpc = [t \in Threads |-> "idle"] /\ calls = [t \in Threads |-> 0]
  /\ wire = <<>> /\ unread = 0 /\ arrived = <<>> /\ peer = "open"
  /\ sent = Len(inbuf)
  /\ accepted = <<HeadFrame>> /\ closeMark = 0

-----------------------------------------------------------------------------
(* One more call, frame from the peer, departure or stop. *)
External == events < MaxEvents /\ events' = events + 1

(* Application threads.                                                    *)

(* Impl::enqueue, the part under the lock: a closed handle refuses. *)
Enqueue(f) ==
  IF closed THEN UNCHANGED <<pending, accepted>>
            ELSE /\ pending' = Append(pending, f)
                 /\ accepted' = Append(accepted, f)

(* Fault: notify is never copied out of the lock. *)
ForgottenNotify == "idle"

(* The caller leaves the lock with its copy of notify, null or not. *)
AfterEnqueue == IF notify /\ ~closed THEN "post" ELSE "idle"

(* send, send_event, send_text, ping, ...: on a closed handle they return  *)
(* false and change nothing.                                               *)
Send(t) ==
  /\ External
  /\ ~closed /\ tpc[t] = "idle" /\ calls[t] < MaxCalls
  /\ calls' = [calls EXCEPT ![t] = @ + 1]
  /\ Enqueue([op |-> "data", by |-> t, n |-> calls[t] + 1])
  /\ tpc' = [tpc EXCEPT ![t] = AfterEnqueue]
  /\ UNCHANGED <<kind, closed, closeRequested, closeRuns, notify, closeMark,
                 loopVars, workerVars, connVars, peerVars>>

RequestClose ==
  /\ closeRequested' = TRUE
  /\ closeMark' = IF closeRequested THEN closeMark ELSE Len(accepted)

(* sse::Session::close: set the flag, then notify. *)
CloseSse(t) ==
  /\ External
  /\ kind = "sse" /\ ~closed /\ tpc[t] = "idle" /\ calls[t] < MaxCalls
  /\ calls' = [calls EXCEPT ![t] = @ + 1]
  /\ RequestClose
  /\ tpc' = [tpc EXCEPT ![t] = AfterEnqueue]
  /\ UNCHANGED <<kind, pending, closed, closeRuns, notify, accepted,
                 loopVars, workerVars, connVars, peerVars>>

(* pulse::Channel::close: the flag is set under the lock, and the lock is  *)
(* released before the close frame is queued.                              *)
ClosePulse(t) ==
  /\ External
  /\ kind = "pulse" /\ ~closed /\ tpc[t] = "idle" /\ calls[t] < MaxCalls
  /\ calls' = [calls EXCEPT ![t] = @ + 1]
  /\ RequestClose
  /\ tpc' = [tpc EXCEPT ![t] = "closeframe"]
  /\ UNCHANGED <<kind, pending, closed, closeRuns, notify, accepted,
                 loopVars, workerVars, connVars, peerVars>>

QueueCloseFrame(t) ==
  /\ tpc[t] = "closeframe"
  /\ Enqueue([op |-> "close", by |-> t, n |-> calls[t]])
  /\ tpc' = [tpc EXCEPT ![t] = AfterEnqueue]
  /\ UNCHANGED <<kind, events, closed, closeRequested, closeRuns, notify, closeMark,
                 calls, loopVars, workerVars, connVars, peerVars>>

(* EventLoop::post: queue the closure under posted_mu_, ... *)
Post(t) ==
  /\ tpc[t] = "post"
  /\ posted' = posted + 1
  /\ tpc' = [tpc EXCEPT ![t] = "wakeup"]
  /\ UNCHANGED <<kind, events, implVars, wake, workerVars, connVars, calls, peerVars>>

(* ... and with the lock released write the eventfd. *)
Wakeup(t) ==
  /\ tpc[t] = "wakeup"
  /\ wake' = TRUE
  /\ tpc' = [tpc EXCEPT ![t] = "idle"]
  /\ UNCHANGED <<kind, events, implVars, posted, workerVars, connVars, calls, peerVars>>

-----------------------------------------------------------------------------
(* The worker.                                                             *)

(* The worker goes on at `where'; a flush it starts there returns to `back'. *)
(* Its locals are forgotten when they are dead.                              *)
Goto(where, back) ==
  /\ wpc' = where /\ ret' = back /\ creq' = FALSE
  /\ ev' = IF where = "wait" THEN {} ELSE ev

(* Fault: the close handlers run whether or not feed_bytes ran them. *)
CloseConnFiringAgain(why) ==
  /\ closed' = TRUE /\ notify' = FALSE /\ pending' = <<>>
  /\ closeRuns' = IF kind = "pulse" THEN closeRuns + 1 ELSE closeRuns
  /\ alive' = FALSE /\ out' = <<>> /\ registered' = FALSE /\ inbuf' = <<>>
  /\ cause' = why
  /\ UNCHANGED <<kind, events, closeRequested, accepted, closeMark, loopVars, batch,
                 stop, threadVars>>

(* close_conn_ with release_sse_ and release_pulse_: `closed' is set and   *)
(* the waiting frames are dropped under the lock, the close handlers run   *)
(* unless feed_bytes ran them, and the Connection with its token is gone.  *)
CloseConn(why) ==
  /\ closed' = TRUE /\ notify' = FALSE /\ pending' = <<>>
  /\ closeRuns' = IF kind = "pulse" /\ closeRuns = 0 THEN 1 ELSE closeRuns
  /\ alive' = FALSE /\ out' = <<>> /\ registered' = FALSE /\ inbuf' = <<>>
  /\ cause' = why
  /\ UNCHANGED <<kind, events, closeRequested, accepted, closeMark, loopVars, batch, stop,
                 threadVars>>

(* adopt_sse_ and adopt_pulse_ install notify.  SSE flushes at once and    *)
(* process_input_ flushes again; Pulse first handles coalesced frames.     *)
Adopt ==
  /\ wpc = "adopt"
  /\ notify' = TRUE
  /\ IF kind = "sse" THEN Goto("take", "reflush") ELSE Goto("feedAdopt", "wait")
  /\ UNCHANGED <<kind, events, pending, closed, closeRequested, closeRuns, accepted,
                 closeMark, loopVars, batch, stop, connVars, threadVars, peerVars>>

(* Fault: EPOLLOUT is armed but never disarmed. *)
StickyInterest == registered' = (registered \/ out # <<>>)

(* Fault: a stalled write does not arm EPOLLOUT. *)
NoInterest == UNCHANGED registered

(* update_interest_: EPOLLOUT exactly when output is waiting. *)
UpdateInterest == registered' = (out # <<>>)

(* A flush that leaves the connection open.  The one adopt_sse_ made is    *)
(* followed by process_input_'s own.                                       *)
ReturnFromFlush ==
  IF ret = "reflush" THEN Goto("head", "wait") ELSE Goto(ret, "wait")

(* A flush that closed it goes back to the closures that are left, or to   *)
(* epoll_wait.                                                             *)
ReturnClosed == IF ret = "run" THEN Goto("run", "wait") ELSE Goto("wait", "wait")

SocketHasRoom == unread < SndCap

(* One turn of a write loop: the kernel takes a frame. *)
WriteFrame ==
  /\ wpc \in {"head", "drain"} /\ out # <<>>
  /\ peer # "rst" /\ SocketHasRoom
  /\ wire' = Append(wire, Head(out))
  /\ unread' = unread + 1
  /\ out' = Tail(out)
  /\ UNCHANGED <<kind, events, implVars, loopVars, workerVars, alive, registered,
                 inbuf, cause, threadVars, arrived, sent, peer>>

(* The kernel's buffer is full: arm EPOLLOUT and leave. *)
WriteStalls ==
  /\ wpc \in {"head", "drain"} /\ out # <<>>
  /\ peer # "rst" /\ ~SocketHasRoom
  /\ UpdateInterest
  /\ ReturnFromFlush
  /\ UNCHANGED <<kind, events, implVars, loopVars, batch, stop, alive, out,
                 inbuf, cause, threadVars, peerVars>>

WriteFails ==
  /\ wpc \in {"head", "drain"} /\ out # <<>>
  /\ peer = "rst"
  /\ CloseConn("error")
  /\ ReturnClosed
  /\ UNCHANGED peerVars

(* flush_output_ wrote everything: go on with the push flush. *)
HeadDone ==
  /\ wpc = "head" /\ out = <<>>
  /\ Goto("take", ret)
  /\ UNCHANGED <<kind, events, implVars, loopVars, batch, stop, connVars, threadVars, peerVars>>

(* Fault: the shared buffer is swapped in even over unsent output. *)
TakeOverUnsent ==
  /\ wpc = "take"
  /\ out' = pending
  /\ pending' = <<>>
  /\ creq' = closeRequested
  /\ wpc' = "drain"
  /\ UNCHANGED <<kind, events, closed, closeRequested, closeRuns, notify, accepted,
                 closeMark, loopVars, ret, batch, ev, stop, alive, registered,
                 inbuf, cause, threadVars, peerVars>>

(* flush_pulse_ and flush_sse_, the part under the lock: everything        *)
(* pending moves behind what is still unsent, with a copy of               *)
(* close_requested.                                                        *)
TakePending ==
  /\ wpc = "take"
  /\ out' = out \o pending
  /\ pending' = <<>>
  /\ creq' = closeRequested
  /\ wpc' = "drain"
  /\ UNCHANGED <<kind, events, closed, closeRequested, closeRuns, notify, accepted,
                 closeMark, loopVars, ret, batch, ev, stop, alive, registered,
                 inbuf, cause, threadVars, peerVars>>

(* flush_pulse_ and flush_sse_ wrote everything: close if that was asked. *)
DrainedOpen ==
  /\ wpc = "drain" /\ out = <<>> /\ ~creq
  /\ UpdateInterest
  /\ ReturnFromFlush
  /\ UNCHANGED <<kind, events, implVars, loopVars, batch, stop, alive, out,
                 inbuf, cause, threadVars, peerVars>>

(* Fault: close_requested is read after the writes, outside the lock. *)
DrainedCloseLate ==
  /\ wpc = "drain" /\ out = <<>> /\ closeRequested
  /\ CloseConn("requested")
  /\ ReturnClosed
  /\ UNCHANGED peerVars

DrainedClose ==
  /\ wpc = "drain" /\ out = <<>> /\ creq
  /\ CloseConn("requested")
  /\ ReturnClosed
  /\ UNCHANGED peerVars

(* The loop condition of Worker::run; on stop it closes every connection.  *)
(* A stop that comes after the condition was read finds epoll_wait woken.  *)
LoopStops ==
  /\ wpc = "wait" /\ stop
  /\ Goto("done", "wait")
  /\ IF alive THEN CloseConn("stop")
              ELSE UNCHANGED <<kind, events, implVars, loopVars, batch, stop, connVars, threadVars>>
  /\ UNCHANGED peerVars

(* Worker::request_stop, called from another thread. *)
RequestStop ==
  /\ External
  /\ ~stop
  /\ stop' = TRUE /\ wake' = TRUE
  /\ UNCHANGED <<kind, implVars, posted, wpc, ret, batch, ev, creq, connVars,
                 threadVars, peerVars>>

(* The connection's epoll flags: EPOLLIN and EPOLLRDHUP are always         *)
(* registered, EPOLLOUT while `registered'.                                *)
Ready ==
  {f \in {"readable", "writable", "error"} :
     /\ alive
     /\ \/ f = "readable" /\ (arrived # <<>> \/ peer # "open")
        \/ f = "writable" /\ registered /\ (SocketHasRoom \/ peer = "rst")
        \/ f = "error"    /\ peer # "open"}

(* EventLoop::wait: returns with the socket's flags and the eventfd drained. *)
Wait ==
  /\ wpc = "wait" /\ ~stop /\ (wake \/ Ready # {})
  /\ ev' = Ready /\ wake' = FALSE
  /\ wpc' = "swap"
  /\ UNCHANGED <<kind, events, implVars, posted, ret, batch, creq, stop, connVars,
                 threadVars, peerVars>>

(* epoll_wait's 500 ms timeout. *)
WaitTimesOut ==
  /\ wpc = "wait" /\ ~stop /\ ~wake /\ Ready = {}
  /\ wpc' = "swap"
  /\ UNCHANGED <<kind, events, implVars, loopVars, ret, batch, ev, creq, stop, connVars,
                 threadVars, peerVars>>

(* EventLoop::run_posted: swap the queue out under the lock, ... *)
SwapPosted ==
  /\ wpc = "swap"
  /\ batch' = posted /\ posted' = 0
  /\ wpc' = "run"
  /\ UNCHANGED <<kind, events, implVars, wake, ret, ev, creq, stop, connVars, threadVars, peerVars>>

(* Fault: the loop over the closures runs once too often. *)
RunOneTooMany ==
  /\ wpc = "run"
  /\ batch' = batch - 1
  /\ IF alive THEN Goto("take", "run") ELSE Goto("run", "wait")
  /\ UNCHANGED <<kind, events, implVars, loopVars, stop, connVars, threadVars, peerVars>>

(* ... then run each closure: it flushes if the token can be locked. *)
RunPosted ==
  /\ wpc = "run" /\ batch > 0
  /\ batch' = batch - 1
  /\ IF alive THEN Goto("take", "run") ELSE Goto("run", "wait")
  /\ UNCHANGED <<kind, events, implVars, loopVars, stop, connVars, threadVars, peerVars>>

(* After the closures, the event of the connection, if it has one and was  *)
(* not closed by a closure.                                                *)
Dispatching == wpc = "run" /\ batch = 0

(* Fault: the eventfd is drained at the end of the round, not before the   *)
(* queue is swapped out.                                                   *)
DrainAtEnd ==
  /\ Dispatching /\ (~alive \/ ev = {})
  /\ Goto("wait", "wait")
  /\ wake' = FALSE
  /\ UNCHANGED <<kind, events, implVars, posted, batch, stop, connVars, threadVars, peerVars>>

DispatchNone ==
  /\ Dispatching /\ (~alive \/ ev = {})
  /\ Goto("wait", "wait")
  /\ UNCHANGED <<kind, events, implVars, loopVars, batch, stop, connVars, threadVars, peerVars>>

DispatchError ==
  /\ Dispatching /\ alive /\ "error" \in ev
  /\ CloseConn("peer")
  /\ Goto("wait", "wait")
  /\ UNCHANGED peerVars

DispatchIo ==
  /\ Dispatching /\ alive /\ ev # {} /\ "error" \notin ev
  /\ IF "writable" \in ev /\ out # <<>> THEN Goto("head", "read")
                                        ELSE Goto("read", "wait")
  /\ UNCHANGED <<kind, events, implVars, loopVars, batch, stop, connVars, threadVars, peerVars>>

(* on_readable_ and process_input_ in phase Sse or Pulse: an end of stream *)
(* closes at once, even when data came with it; SSE discards the data.     *)
ReadNothing ==
  /\ wpc = "read"
  /\ "readable" \notin ev \/ (arrived = <<>> /\ peer = "open")
  /\ Goto("wait", "wait")
  /\ UNCHANGED <<kind, events, implVars, loopVars, batch, stop, connVars, threadVars, peerVars>>

ReadEnd ==
  /\ wpc = "read" /\ "readable" \in ev /\ peer # "open"
  /\ CloseConn("peer")
  /\ Goto("wait", "wait")
  /\ UNCHANGED peerVars

(* A channel that adopt_pulse_ found in error is closed to feed_bytes. *)
ReadRefused ==
  /\ wpc = "read" /\ "readable" \in ev /\ peer = "open" /\ arrived # <<>>
  /\ kind = "pulse" /\ closed
  /\ CloseConn("protocol")
  /\ Goto("wait", "wait")
  /\ UNCHANGED peerVars

ReadData ==
  /\ wpc = "read" /\ "readable" \in ev /\ peer = "open" /\ arrived # <<>>
  /\ kind = "pulse" => ~closed
  /\ arrived' = <<>>
  /\ IF kind = "sse" THEN Goto("wait", "wait") /\ inbuf' = <<>>
                     ELSE Goto("feed", "wait") /\ inbuf' = inbuf \o arrived
  /\ UNCHANGED <<kind, events, implVars, loopVars, batch, stop, alive, out,
                 registered, cause, threadVars, wire, unread, sent, peer>>

(* feed_bytes, one frame of inbuf at a time. *)
Feeding(op) ==
  /\ wpc \in {"feed", "feedAdopt"} /\ inbuf # <<>> /\ Head(inbuf) = op

(* A pong or an echoed close is queued like any thread's frame; its post   *)
(* and wakeup are the worker's own, so nothing can happen between them     *)
(* that the worker would notice.                                           *)
FeedEnqueue(f) ==
  /\ Enqueue(f)
  /\ IF notify /\ ~closed THEN posted' = posted + 1 /\ wake' = TRUE
                          ELSE UNCHANGED loopVars

FeedText ==
  /\ Feeding("text")
  /\ inbuf' = Tail(inbuf)
  /\ UNCHANGED <<kind, events, implVars, loopVars, workerVars, alive, out, registered,
                 cause, threadVars, peerVars>>

FeedPing ==
  /\ Feeding("ping")
  /\ inbuf' = Tail(inbuf)
  /\ FeedEnqueue([op |-> "pong", by |-> Worker, n |-> 0])
  /\ UNCHANGED <<kind, events, closed, closeRequested, closeRuns, notify, closeMark,
                 workerVars, alive, out, registered, cause, threadVars, peerVars>>

(* feed_bytes returns: process_input_ flushes what it queued; adopt_pulse_ *)
(* leaves that to flush_output_.                                           *)
AfterFeed == IF wpc = "feed" THEN Goto("take", "wait") ELSE Goto("head", "wait")

(* The peer's close frame is echoed, the close handlers run once, and      *)
(* feed_bytes returns: frames behind it stay in inbuf.                     *)
FeedClose ==
  /\ Feeding("close")
  /\ inbuf' = Tail(inbuf)
  /\ IF closed THEN UNCHANGED <<closeRequested, closeMark>> ELSE RequestClose
  /\ FeedEnqueue([op |-> "close", by |-> Worker, n |-> 0])
  /\ closeRuns' = IF closeRuns = 0 THEN 1 ELSE closeRuns
  /\ AfterFeed
  /\ UNCHANGED <<kind, events, closed, notify, batch, stop, alive, out,
                 registered, cause, threadVars, peerVars>>

(* feed_bytes returns false: process_input_ closes the connection, ... *)
FeedBad ==
  /\ wpc = "feed" /\ inbuf # <<>> /\ Head(inbuf) \in {"bad", "unknown"}
  /\ CloseConn("protocol")
  /\ Goto("wait", "wait")
  /\ UNCHANGED peerVars

(* ... but adopt_pulse_ only asks for that.  Bytes that cannot be decoded   *)
(* have marked the channel closed; an unknown opcode has not, and is behind *)
(* it.                                                                      *)
FeedBadAdopt ==
  /\ Feeding("bad") /\ wpc = "feedAdopt"
  /\ closed' = TRUE
  /\ RequestClose
  /\ Goto("head", "wait")
  /\ UNCHANGED <<kind, events, pending, closeRuns, notify, accepted, loopVars, batch,
                 stop, connVars, threadVars, peerVars>>

FeedUnknownAdopt ==
  /\ Feeding("unknown") /\ wpc = "feedAdopt"
  /\ inbuf' = Tail(inbuf)
  /\ RequestClose
  /\ Goto("head", "wait")
  /\ UNCHANGED <<kind, events, pending, closed, closeRuns, notify, accepted, loopVars, batch,
                 stop, alive, out, registered, cause, threadVars, peerVars>>

FeedDone ==
  /\ wpc \in {"feed", "feedAdopt"} /\ inbuf = <<>>
  /\ AfterFeed
  /\ UNCHANGED <<kind, events, implVars, loopVars, batch, stop, connVars, threadVars, peerVars>>

-----------------------------------------------------------------------------
(* The peer and the kernel, while the server has the socket open.          *)

PeerReads ==
  /\ alive /\ unread > 0
  /\ unread' = unread - 1
  /\ UNCHANGED <<kind, events, implVars, loopVars, workerVars, connVars, threadVars,
                 wire, arrived, sent, peer>>

PeerSends(f) ==
  /\ External
  /\ alive /\ peer = "open" /\ sent < MaxInbound
  /\ arrived' = Append(arrived, f)
  /\ sent' = sent + 1
  /\ UNCHANGED <<kind, implVars, loopVars, workerVars, connVars, threadVars,
                 wire, unread, peer>>

PeerLeaves(how) ==
  /\ External
  /\ alive /\ peer = "open"
  /\ peer' = how
  /\ UNCHANGED <<kind, implVars, loopVars, workerVars, connVars, threadVars,
                 wire, unread, arrived, sent>>

-----------------------------------------------------------------------------
ThreadStep(t) ==
  \/ QueueCloseFrame(t)
  \/ Post(t)
  \/ Wakeup(t)

Flush ==
  \/ WriteFrame \/ WriteStalls \/ WriteFails
  \/ HeadDone \/ TakePending \/ DrainedOpen \/ DrainedClose

Feed ==
  \/ FeedText \/ FeedPing \/ FeedClose
  \/ FeedBad \/ FeedBadAdopt \/ FeedUnknownAdopt \/ FeedDone

WorkerStep ==
  \/ Adopt \/ Flush \/ Feed
  \/ LoopStops \/ Wait \/ SwapPosted \/ RunPosted
  \/ DispatchNone \/ DispatchError \/ DispatchIo
  \/ ReadNothing \/ ReadEnd \/ ReadRefused \/ ReadData

(* The worker has returned from run() and nobody is inside a call. *)
Finished ==
  /\ wpc = "done" /\ \A t \in Threads : tpc[t] = "idle"
  /\ UNCHANGED vars

Next ==
  \/ \E t \in Threads : Send(t) \/ CloseSse(t) \/ ClosePulse(t) \/ ThreadStep(t)
  \/ WorkerStep \/ WaitTimesOut \/ RequestStop
  \/ PeerReads
  \/ \E f \in Inbound : PeerSends(f)
  \/ \E how \in {"fin", "rst"} : PeerLeaves(how)
  \/ Finished

Spec == Init /\ [][Next]_vars

(* A thread inside a call is scheduled, and so is the worker; the peer     *)
(* reads what it is sent.  Nothing makes anyone call send or close, the    *)
(* peer send or leave, or the 500 ms timeout of epoll_wait fire.           *)
Fairness ==
  /\ \A t \in Threads : WF_vars(ThreadStep(t))
  /\ WF_vars(WorkerStep)
  /\ WF_vars(PeerReads)

FairSpec == Spec /\ Fairness

-----------------------------------------------------------------------------
(* Properties.                                                             *)

ImplTypes ==
  /\ pending \in Seq(Frame) /\ closed \in BOOLEAN /\ closeRequested \in BOOLEAN
  /\ closeRuns \in Nat /\ notify \in BOOLEAN
  /\ accepted \in Seq(Frame) /\ closeMark \in Nat

LoopTypes == posted \in Nat /\ wake \in BOOLEAN

WorkerTypes ==
  /\ wpc \in WorkerSteps /\ ret \in Returns /\ batch \in Nat
  /\ ev \in SUBSET {"readable", "writable", "error"}
  /\ creq \in BOOLEAN /\ stop \in BOOLEAN

ConnTypes ==
  /\ alive \in BOOLEAN /\ out \in Seq(Frame) /\ registered \in BOOLEAN
  /\ inbuf \in Seq(Inbound) /\ cause \in Causes

ThreadTypes ==
  /\ tpc \in [Threads -> ThreadSteps]
  /\ calls \in [Threads -> 0 .. MaxCalls]

PeerTypes ==
  /\ wire \in Seq(Frame) /\ unread \in 0 .. SndCap
  /\ arrived \in Seq(Inbound) /\ sent \in Nat /\ peer \in {"open", "fin", "rst"}

(* Every variable has its type. *)
TypeOK ==
  /\ kind \in {"sse", "pulse"} /\ events \in Nat
  /\ ImplTypes /\ LoopTypes /\ WorkerTypes /\ ConnTypes /\ ThreadTypes /\ PeerTypes

(* Accepted frames are in three places, in order and once: on the wire, in *)
(* the connection's output, in the shared buffer (the swap and append of   *)
(* flush_sse_ and flush_pulse_).  After the connection is gone the wire    *)
(* still shows a prefix of what was accepted.                              *)
StreamIntact ==
  /\ alive => wire \o out \o pending = accepted
  /\ \A i \in 1 .. Len(wire) : i <= Len(accepted) /\ wire[i] = accepted[i]

(* A flush for what is waiting will come: a closure is queued or being run, *)
(* a thread is about to queue one, a write is pending, or the worker is on  *)
(* its way into the locked part of a flush.                                 *)
FlushIsComing ==
  \/ posted > 0 \/ batch > 0
  \/ \E t \in Threads : tpc[t] \in {"closeframe", "post"}
  \/ out # <<>>
  \/ wpc \in {"adopt", "feedAdopt", "head", "take", "feed"}

(* No frame and no close request is forgotten, although notify is copied   *)
(* under the lock and run outside it and is null before adoption.          *)
NothingForgotten ==
  alive =>
    /\ pending # <<>> => FlushIsComing
    /\ closeRequested => FlushIsComing \/ (wpc = "drain" /\ creq)

(* The worker does not sleep through a posted closure until epoll_wait     *)
(* times out: the eventfd is drained before the queue is swapped.          *)
NoSleepOnWork ==
  posted > 0 =>
    \/ wake
    \/ wpc \in {"swap", "done"}
    \/ \E t \in Threads : tpc[t] = "wakeup"

(* Outside a flush EPOLLOUT is armed exactly when output is waiting, so a  *)
(* stalled write is resumed and an idle connection does not spin.          *)
OutputArmed ==
  alive /\ wpc \in {"wait", "swap", "run", "read", "feed"}
    => (registered <=> out # <<>>)

(* The close handlers of a Pulse channel run at most once, and have run    *)
(* when its connection is gone, whoever noticed the end first.             *)
CloseHandlersOnce ==
  /\ closeRuns <= 1
  /\ kind = "pulse" /\ ~alive => closeRuns = 1

(* A connection that is closed because somebody asked has written all that *)
(* was accepted before the first such call.                                *)
CleanClose ==
  cause = "requested" => Len(wire) >= closeMark

(* The handle implements an ordered stream, and under fairness delivers it. *)
Stream == INSTANCE OrderedStream WITH delivered <- wire, open <- alive

StreamRefined == Stream!LiveSpec
=============================================================================
