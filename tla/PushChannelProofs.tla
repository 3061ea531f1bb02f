--------------------------- MODULE PushChannelProofs ---------------------------
(***************************************************************************)
(* Proofs about PushChannel for every set of threads, every bound and      *)
(* every size of the socket buffer: that it implements OrderedStream, and  *)
(* then what it promises about wake-ups, epoll interest, the close         *)
(* handlers and a requested close.                                         *)
(***************************************************************************)
EXTENDS PushChannel, SequenceTheorems, TLAPS

-----------------------------------------------------------------------------
(* Types.                                                                  *)

(* The frames that the actions build. *)
LEMMA FrameTypes ==
  /\ HeadFrame \in Frame
  /\ [op |-> "pong", by |-> Worker, n |-> 0] \in Frame
  /\ [op |-> "close", by |-> Worker, n |-> 0] \in Frame
  /\ \A t \in Threads, k \in 0 .. MaxCalls :
       /\ [op |-> "data", by |-> t, n |-> k] \in Frame
       /\ [op |-> "close", by |-> t, n |-> k] \in Frame
BY PushAssumption DEF HeadFrame, Frame

(* Queueing a frame keeps the two sequences it goes to well typed. *)
LEMMA EnqueueType ==
  ASSUME ImplTypes, NEW f \in Frame, Enqueue(f)
  PROVE  pending' \in Seq(Frame) /\ accepted' \in Seq(Frame)
<1>1. pending \in Seq(Frame) /\ accepted \in Seq(Frame)
  BY DEF ImplTypes
<1>2. CASE closed
  BY <1>1, <1>2 DEF Enqueue
<1>3. CASE ~closed
  <2>1. pending' = Append(pending, f) /\ accepted' = Append(accepted, f)
    BY <1>3 DEF Enqueue
  <2> QED
    BY <1>1, <2>1
<1> QED BY <1>2, <1>3

(* A group of variables that does not change keeps its types. *)
LEMMA UnchangedTypes ==
  /\ ImplTypes /\ UNCHANGED implVars => ImplTypes'
  /\ LoopTypes /\ UNCHANGED loopVars => LoopTypes'
  /\ WorkerTypes /\ UNCHANGED workerVars => WorkerTypes'
  /\ ConnTypes /\ UNCHANGED connVars => ConnTypes'
  /\ ThreadTypes /\ UNCHANGED threadVars => ThreadTypes'
  /\ PeerTypes /\ UNCHANGED peerVars => PeerTypes'
BY DEF ImplTypes, LoopTypes, WorkerTypes, ConnTypes, ThreadTypes, PeerTypes,
       implVars, loopVars, workerVars, connVars, threadVars, peerVars

(* Wherever the worker goes next, its variables keep their types. *)
LEMMA GotoTypes ==
  ASSUME WorkerTypes, UNCHANGED <<batch, stop>>,
         NEW where \in WorkerSteps, NEW back \in Returns, Goto(where, back)
  PROVE  WorkerTypes'
BY DEF WorkerTypes, Goto

LEMMA ReturnTypes ==
  ASSUME WorkerTypes, UNCHANGED <<batch, stop>>,
         ReturnFromFlush \/ ReturnClosed \/ AfterFeed
  PROVE  WorkerTypes'
<1>1. PICK where \in WorkerSteps, back \in Returns : Goto(where, back)
  <2>1. /\ "head" \in WorkerSteps /\ "take" \in WorkerSteps /\ "run" \in WorkerSteps
        /\ "wait" \in WorkerSteps /\ "wait" \in Returns
        /\ ret \in Returns /\ (ret # "reflush" => ret \in WorkerSteps)
    BY DEF WorkerSteps, Returns, WorkerTypes
  <2>2. CASE ReturnFromFlush
    BY <2>1, <2>2 DEF ReturnFromFlush
  <2>3. CASE ReturnClosed
    BY <2>1, <2>3 DEF ReturnClosed
  <2>4. CASE AfterFeed
    BY <2>1, <2>4 DEF AfterFeed
  <2> QED
    BY <2>2, <2>3, <2>4
<1> QED
  BY <1>1, GotoTypes

LEMMA CloseConnTypes ==
  ASSUME TypeOK, NEW why \in Causes, CloseConn(why)
  PROVE  /\ ImplTypes' /\ LoopTypes' /\ ConnTypes' /\ ThreadTypes'
         /\ UNCHANGED <<kind, events, batch, stop>>
<1>1. ImplTypes'
  <2>1. pending' \in Seq(Frame)
    BY DEF CloseConn
  <2>2. closeRuns' \in Nat
    BY DEF CloseConn, TypeOK, ImplTypes
  <2> QED
    BY <2>1, <2>2 DEF CloseConn, TypeOK, ImplTypes
<1>2. ConnTypes'
  <2>1. out' \in Seq(Frame) /\ inbuf' \in Seq(Inbound)
    BY DEF CloseConn
  <2> QED
    BY <2>1 DEF CloseConn, TypeOK, ConnTypes
<1> QED
  BY <1>1, <1>2, UnchangedTypes DEF CloseConn, TypeOK

(* TypeOK holds initially and every step keeps it. *)
LEMMA TypeInit == Init => TypeOK
<1> SUFFICES ASSUME Init PROVE TypeOK
  OBVIOUS
<1>1. inbuf \in Seq(Inbound) /\ Len(inbuf) \in Nat
  <2>1. CASE inbuf = <<>>
    BY <2>1
  <2>2. ASSUME NEW f \in Inbound, inbuf = <<f>> PROVE inbuf \in Seq(Inbound) /\ Len(inbuf) \in Nat
    BY <2>2
  <2>3. inbuf = <<>> \/ inbuf \in {<<f>> : f \in Inbound}
    BY DEF Init
  <2> QED BY <2>1, <2>2, <2>3
<1>2. out \in Seq(Frame) /\ accepted \in Seq(Frame)
  <2>1. out = <<HeadFrame>> /\ accepted = <<HeadFrame>>
    BY DEF Init
  <2>2. HeadFrame \in Frame
    BY FrameTypes
  <2> QED BY <2>1, <2>2
<1>3. ImplTypes /\ LoopTypes /\ WorkerTypes
  <2>1. pending \in Seq(Frame)
    BY DEF Init
  <2>2. ImplTypes
    BY <1>2, <2>1 DEF Init, ImplTypes
  <2> QED
    BY <2>2 DEF Init, LoopTypes, WorkerTypes, WorkerSteps, Returns
<1>4. ConnTypes
  BY <1>1, <1>2 DEF Init, ConnTypes, Causes
<1>5. ThreadTypes
  BY PushAssumption DEF Init, ThreadTypes, ThreadSteps
<1>6. PeerTypes
  BY <1>1, PushAssumption DEF Init, PeerTypes
<1>7. kind \in {"sse", "pulse"} /\ events \in Nat
  BY PushAssumption DEF Init
<1> QED
  BY <1>3, <1>4, <1>5, <1>6, <1>7 DEF TypeOK

LEMMA TypeNext == TypeOK /\ [Next]_vars => TypeOK'
<1> SUFFICES ASSUME TypeOK, [Next]_vars PROVE TypeOK'
  OBVIOUS
<1>a. /\ kind \in {"sse", "pulse"} /\ events \in Nat
      /\ ImplTypes /\ LoopTypes /\ WorkerTypes /\ ConnTypes /\ ThreadTypes /\ PeerTypes
  BY DEF TypeOK
<1>b. /\ "feedAdopt" \in WorkerSteps /\ "head" \in WorkerSteps /\ "take" \in WorkerSteps
      /\ "wait" \in WorkerSteps /\ "run" \in WorkerSteps /\ "read" \in WorkerSteps
      /\ "feed" \in WorkerSteps /\ "done" \in WorkerSteps
      /\ "reflush" \in Returns /\ "run" \in Returns /\ "read" \in Returns /\ "wait" \in Returns
      /\ ret \in Returns /\ "error" \in Causes /\ "requested" \in Causes /\ "peer" \in Causes
      /\ "stop" \in Causes /\ "protocol" \in Causes
  BY <1>a DEF WorkerSteps, Returns, WorkerTypes, Causes
<1>1. ASSUME NEW t \in Threads, Send(t) PROVE TypeOK'
  <2>1. calls[t] + 1 \in 0 .. MaxCalls
    BY <1>1, <1>a, PushAssumption DEF Send, ThreadTypes
  <2>2. pending' \in Seq(Frame) /\ accepted' \in Seq(Frame)
    BY <1>1, <1>a, <2>1, EnqueueType, FrameTypes DEF Send
  <2>3. ImplTypes'
    BY <1>1, <1>a, <2>2 DEF Send, ImplTypes
  <2>4. ThreadTypes'
    BY <1>1, <1>a, <2>1 DEF Send, ThreadTypes, AfterEnqueue, ThreadSteps
  <2> QED
    BY <1>1, <2>3, <2>4, <1>a, UnchangedTypes DEF Send, TypeOK, External
<1>2. ASSUME NEW t \in Threads, CloseSse(t) PROVE TypeOK'
  <2>1. calls[t] + 1 \in 0 .. MaxCalls
    BY <1>2, <1>a, PushAssumption DEF CloseSse, ThreadTypes
  <2>2. ImplTypes'
    BY <1>2, <1>a DEF CloseSse, RequestClose, ImplTypes
  <2>3. ThreadTypes'
    BY <1>2, <1>a, <2>1 DEF CloseSse, ThreadTypes, AfterEnqueue, ThreadSteps
  <2> QED
    BY <1>2, <2>2, <2>3, <1>a, UnchangedTypes DEF CloseSse, TypeOK, External
<1>3. ASSUME NEW t \in Threads, ClosePulse(t) PROVE TypeOK'
  <2>1. calls[t] + 1 \in 0 .. MaxCalls
    BY <1>3, <1>a, PushAssumption DEF ClosePulse, ThreadTypes
  <2>2. ImplTypes'
    BY <1>3, <1>a DEF ClosePulse, RequestClose, ImplTypes
  <2>3. ThreadTypes'
    BY <1>3, <1>a, <2>1 DEF ClosePulse, ThreadTypes, AfterEnqueue, ThreadSteps
  <2> QED
    BY <1>3, <2>2, <2>3, <1>a, UnchangedTypes DEF ClosePulse, TypeOK, External
<1>4. ASSUME NEW t \in Threads, QueueCloseFrame(t) PROVE TypeOK'
  <2>1. calls[t] \in 0 .. MaxCalls
    BY <1>a DEF ThreadTypes
  <2>2. pending' \in Seq(Frame) /\ accepted' \in Seq(Frame)
    BY <1>4, <1>a, <2>1, EnqueueType, FrameTypes DEF QueueCloseFrame
  <2>3. ImplTypes'
    BY <1>4, <1>a, <2>2 DEF QueueCloseFrame, ImplTypes
  <2>4. ThreadTypes'
    BY <1>4, <1>a DEF QueueCloseFrame, ThreadTypes, AfterEnqueue, ThreadSteps
  <2> QED
    BY <1>4, <2>3, <2>4, <1>a, UnchangedTypes DEF QueueCloseFrame, TypeOK
<1>5. ASSUME NEW t \in Threads, Post(t) PROVE TypeOK'
  <2>1. LoopTypes' /\ ThreadTypes'
    BY <1>5, <1>a DEF Post, LoopTypes, ThreadTypes, ThreadSteps
  <2> QED
    BY <1>5, <2>1, <1>a, UnchangedTypes DEF Post, TypeOK
<1>6. ASSUME NEW t \in Threads, Wakeup(t) PROVE TypeOK'
  <2>1. LoopTypes' /\ ThreadTypes'
    BY <1>6, <1>a DEF Wakeup, LoopTypes, ThreadTypes, ThreadSteps
  <2> QED
    BY <1>6, <2>1, <1>a, UnchangedTypes DEF Wakeup, TypeOK
<1>7. CASE Adopt
  <2>1. WorkerTypes'
    BY <1>7, <1>a, <1>b, GotoTypes DEF Adopt
  <2>2. ImplTypes'
    BY <1>7, <1>a DEF Adopt, ImplTypes
  <2> QED
    BY <1>7, <2>1, <2>2, <1>a, UnchangedTypes DEF Adopt, TypeOK
<1>8. CASE WriteFrame
  <2>1. out \in Seq(Frame) /\ out # <<>> /\ wire \in Seq(Frame)
    BY <1>8, <1>a DEF WriteFrame, ConnTypes, PeerTypes
  <2>2. Head(out) \in Frame /\ Tail(out) \in Seq(Frame)
    BY <2>1
  <2>3. wire' \in Seq(Frame) /\ out' \in Seq(Frame)
    BY <1>8, <2>1, <2>2 DEF WriteFrame
  <2>4. ConnTypes' /\ PeerTypes'
    BY <1>8, <1>a, <2>3, PushAssumption DEF WriteFrame, SocketHasRoom, ConnTypes, PeerTypes
  <2> QED
    BY <1>8, <2>4, <1>a, UnchangedTypes DEF WriteFrame, TypeOK
<1>9. CASE WriteStalls
  <2>1. WorkerTypes'
    BY <1>9, <1>a, ReturnTypes DEF WriteStalls
  <2>2. ConnTypes'
    BY <1>9, <1>a DEF WriteStalls, UpdateInterest, ConnTypes
  <2> QED
    BY <1>9, <2>1, <2>2, <1>a, UnchangedTypes DEF WriteStalls, TypeOK
<1>10. CASE WriteFails
  <2>1. ImplTypes' /\ LoopTypes' /\ ConnTypes' /\ ThreadTypes' /\ UNCHANGED <<kind, events, batch, stop>>
    BY <1>10, <1>b, CloseConnTypes DEF WriteFails
  <2>2. WorkerTypes'
    BY <1>10, <1>a, <1>b, <2>1, ReturnTypes DEF WriteFails
  <2> QED
    BY <1>10, <2>1, <2>2, <1>a, UnchangedTypes DEF WriteFails, TypeOK
<1>11. CASE HeadDone
  <2>1. WorkerTypes'
    BY <1>11, <1>a, <1>b, GotoTypes DEF HeadDone
  <2> QED
    BY <1>11, <2>1, <1>a, UnchangedTypes DEF HeadDone, TypeOK
<1>12. CASE TakePending
  <2>1. out' \in Seq(Frame)
    BY <1>12, <1>a DEF TakePending, ConnTypes, ImplTypes
  <2>2. ImplTypes' /\ ConnTypes'
    BY <1>12, <1>a, <2>1 DEF TakePending, ConnTypes, ImplTypes
  <2>3. WorkerTypes'
    BY <1>12, <1>a DEF TakePending, ImplTypes, WorkerTypes, WorkerSteps
  <2> QED
    BY <1>12, <2>2, <2>3, <1>a, UnchangedTypes DEF TakePending, TypeOK
<1>13. CASE DrainedOpen
  <2>1. WorkerTypes'
    BY <1>13, <1>a, ReturnTypes DEF DrainedOpen
  <2>2. ConnTypes'
    BY <1>13, <1>a DEF DrainedOpen, UpdateInterest, ConnTypes
  <2> QED
    BY <1>13, <2>1, <2>2, <1>a, UnchangedTypes DEF DrainedOpen, TypeOK
<1>14. CASE DrainedClose
  <2>1. ImplTypes' /\ LoopTypes' /\ ConnTypes' /\ ThreadTypes' /\ UNCHANGED <<kind, events, batch, stop>>
    BY <1>14, <1>b, CloseConnTypes DEF DrainedClose
  <2>2. WorkerTypes'
    BY <1>14, <1>a, <1>b, <2>1, ReturnTypes DEF DrainedClose
  <2> QED
    BY <1>14, <2>1, <2>2, <1>a, UnchangedTypes DEF DrainedClose, TypeOK
<1>15. CASE FeedText
  <2>1. inbuf \in Seq(Inbound) /\ inbuf # <<>>
    BY <1>15, <1>a DEF FeedText, Feeding, ConnTypes
  <2>2. inbuf' \in Seq(Inbound)
    BY <1>15, <2>1 DEF FeedText
  <2>3. ConnTypes'
    BY <1>15, <1>a, <2>2 DEF FeedText, ConnTypes
  <2> QED
    BY <1>15, <2>3, <1>a, UnchangedTypes DEF FeedText, TypeOK
<1>16. CASE FeedPing
  <2>1. inbuf \in Seq(Inbound) /\ inbuf # <<>>
    BY <1>16, <1>a DEF FeedPing, Feeding, ConnTypes
  <2>2. inbuf' \in Seq(Inbound)
    BY <1>16, <2>1 DEF FeedPing
  <2>3. ConnTypes'
    BY <1>16, <1>a, <2>2 DEF FeedPing, ConnTypes
  <2>4. pending' \in Seq(Frame) /\ accepted' \in Seq(Frame)
    BY <1>16, <1>a, EnqueueType, FrameTypes DEF FeedPing, FeedEnqueue
  <2>5. LoopTypes'
    <3>1. CASE notify /\ ~closed
      BY <1>16, <1>a, <3>1 DEF FeedPing, FeedEnqueue, LoopTypes
    <3>2. CASE ~(notify /\ ~closed)
      BY <1>16, <1>a, <3>2, UnchangedTypes DEF FeedPing, FeedEnqueue
    <3> QED
      BY <3>1, <3>2
  <2>6. ImplTypes'
    BY <1>16, <1>a, <2>4 DEF FeedPing, ImplTypes
  <2> QED
    BY <1>16, <2>3, <2>5, <2>6, <1>a, UnchangedTypes DEF FeedPing, TypeOK
<1>17. CASE FeedClose
  <2>1. inbuf \in Seq(Inbound) /\ inbuf # <<>>
    BY <1>17, <1>a DEF FeedClose, Feeding, ConnTypes
  <2>2. inbuf' \in Seq(Inbound)
    BY <1>17, <2>1 DEF FeedClose
  <2>3. ConnTypes'
    BY <1>17, <1>a, <2>2 DEF FeedClose, ConnTypes
  <2>4. pending' \in Seq(Frame) /\ accepted' \in Seq(Frame)
    BY <1>17, <1>a, EnqueueType, FrameTypes DEF FeedClose, FeedEnqueue
  <2>5. LoopTypes'
    <3>1. CASE notify /\ ~closed
      BY <1>17, <1>a, <3>1 DEF FeedClose, FeedEnqueue, LoopTypes
    <3>2. CASE ~(notify /\ ~closed)
      BY <1>17, <1>a, <3>2, UnchangedTypes DEF FeedClose, FeedEnqueue
    <3> QED
      BY <3>1, <3>2
  <2>6. closeRequested' \in BOOLEAN /\ closeMark' \in Nat /\ closeRuns' \in Nat
    <3>1. Len(accepted) \in Nat
      BY <1>a DEF ImplTypes
    <3>2. closeRuns' \in Nat
      BY <1>17, <1>a DEF FeedClose, ImplTypes
    <3>3. CASE closed
      BY <1>17, <1>a, <3>2, <3>3 DEF FeedClose, ImplTypes
    <3>4. CASE ~closed
      BY <1>17, <1>a, <3>1, <3>2, <3>4 DEF FeedClose, RequestClose, ImplTypes
    <3> QED
      BY <3>3, <3>4
  <2>7. ImplTypes'
    BY <1>17, <1>a, <2>4, <2>6 DEF FeedClose, ImplTypes
  <2>8. WorkerTypes'
    BY <1>17, <1>a, ReturnTypes DEF FeedClose
  <2> QED
    BY <1>17, <2>3, <2>5, <2>7, <2>8, <1>a, UnchangedTypes DEF FeedClose, TypeOK
<1>18. CASE FeedBad
  <2>1. ImplTypes' /\ LoopTypes' /\ ConnTypes' /\ ThreadTypes' /\ UNCHANGED <<kind, events, batch, stop>>
    BY <1>18, <1>b, CloseConnTypes DEF FeedBad
  <2>2. WorkerTypes'
    BY <1>18, <1>a, <1>b, <2>1, GotoTypes DEF FeedBad
  <2> QED
    BY <1>18, <2>1, <2>2, <1>a, UnchangedTypes DEF FeedBad, TypeOK
<1>19. CASE FeedBadAdopt
  <2>1. WorkerTypes'
    BY <1>19, <1>a, <1>b, GotoTypes DEF FeedBadAdopt
  <2>2. ImplTypes'
    BY <1>19, <1>a DEF FeedBadAdopt, RequestClose, ImplTypes
  <2> QED
    BY <1>19, <2>1, <2>2, <1>a, UnchangedTypes DEF FeedBadAdopt, TypeOK
<1>20. CASE FeedDone
  <2>1. WorkerTypes'
    BY <1>20, <1>a, ReturnTypes DEF FeedDone
  <2> QED
    BY <1>20, <2>1, <1>a, UnchangedTypes DEF FeedDone, TypeOK
<1>21. CASE LoopStops
  <2>1. CASE alive
    <3>1. ImplTypes' /\ LoopTypes' /\ ConnTypes' /\ ThreadTypes' /\ UNCHANGED <<kind, events, batch, stop>>
      BY <1>21, <2>1, <1>b, CloseConnTypes DEF LoopStops
    <3>2. WorkerTypes'
      BY <1>21, <1>a, <1>b, <3>1, GotoTypes DEF LoopStops
    <3> QED
      BY <1>21, <3>1, <3>2, <1>a, UnchangedTypes DEF LoopStops, TypeOK
  <2>2. CASE ~alive
    <3>1. WorkerTypes'
      BY <1>21, <2>2, <1>a, <1>b, GotoTypes DEF LoopStops
    <3> QED
      BY <1>21, <2>2, <3>1, <1>a, UnchangedTypes DEF LoopStops, TypeOK
  <2> QED
    BY <2>1, <2>2
<1>22. CASE Wait
  <2>1. WorkerTypes' /\ LoopTypes'
    BY <1>22, <1>a DEF Wait, Ready, WorkerTypes, WorkerSteps, LoopTypes
  <2> QED
    BY <1>22, <2>1, <1>a, UnchangedTypes DEF Wait, TypeOK
<1>23. CASE SwapPosted
  <2>1. WorkerTypes' /\ LoopTypes'
    BY <1>23, <1>a DEF SwapPosted, WorkerTypes, WorkerSteps, LoopTypes
  <2> QED
    BY <1>23, <2>1, <1>a, UnchangedTypes DEF SwapPosted, TypeOK
<1>24. CASE RunPosted
  <2>1. PICK where \in WorkerSteps, back \in Returns : Goto(where, back)
    BY <1>24, <1>b DEF RunPosted
  <2>2. batch' \in Nat /\ stop' = stop
    BY <1>24, <1>a DEF RunPosted, WorkerTypes
  <2>3. WorkerTypes'
    BY <1>a, <2>1, <2>2 DEF WorkerTypes, Goto
  <2> QED
    BY <1>24, <2>3, <1>a, UnchangedTypes DEF RunPosted, TypeOK
<1>25. CASE DispatchNone
  <2>1. WorkerTypes'
    BY <1>25, <1>a, <1>b, GotoTypes DEF DispatchNone
  <2> QED
    BY <1>25, <2>1, <1>a, UnchangedTypes DEF DispatchNone, TypeOK
<1>26. CASE DispatchError
  <2>1. ImplTypes' /\ LoopTypes' /\ ConnTypes' /\ ThreadTypes' /\ UNCHANGED <<kind, events, batch, stop>>
    BY <1>26, <1>b, CloseConnTypes DEF DispatchError
  <2>2. WorkerTypes'
    BY <1>26, <1>a, <1>b, <2>1, GotoTypes DEF DispatchError
  <2> QED
    BY <1>26, <2>1, <2>2, <1>a, UnchangedTypes DEF DispatchError, TypeOK
<1>27. CASE DispatchIo
  <2>1. WorkerTypes'
    BY <1>27, <1>a, <1>b, GotoTypes DEF DispatchIo
  <2> QED
    BY <1>27, <2>1, <1>a, UnchangedTypes DEF DispatchIo, TypeOK
<1>28. CASE ReadNothing
  <2>1. WorkerTypes'
    BY <1>28, <1>a, <1>b, GotoTypes DEF ReadNothing
  <2> QED
    BY <1>28, <2>1, <1>a, UnchangedTypes DEF ReadNothing, TypeOK
<1>29. CASE ReadEnd
  <2>1. ImplTypes' /\ LoopTypes' /\ ConnTypes' /\ ThreadTypes' /\ UNCHANGED <<kind, events, batch, stop>>
    BY <1>29, <1>b, CloseConnTypes DEF ReadEnd
  <2>2. WorkerTypes'
    BY <1>29, <1>a, <1>b, <2>1, GotoTypes DEF ReadEnd
  <2> QED
    BY <1>29, <2>1, <2>2, <1>a, UnchangedTypes DEF ReadEnd, TypeOK
<1>37. CASE ReadRefused
  <2>1. ImplTypes' /\ LoopTypes' /\ ConnTypes' /\ ThreadTypes' /\ UNCHANGED <<kind, events, batch, stop>>
    BY <1>37, <1>b, CloseConnTypes DEF ReadRefused
  <2>2. WorkerTypes'
    BY <1>37, <1>a, <1>b, <2>1, GotoTypes DEF ReadRefused
  <2> QED
    BY <1>37, <2>1, <2>2, <1>a, UnchangedTypes DEF ReadRefused, TypeOK
<1>38. CASE FeedUnknownAdopt
  <2>1. WorkerTypes'
    BY <1>38, <1>a, <1>b, GotoTypes DEF FeedUnknownAdopt
  <2>2. ImplTypes'
    BY <1>38, <1>a DEF FeedUnknownAdopt, RequestClose, ImplTypes
  <2>3. inbuf' \in Seq(Inbound)
    BY <1>38, <1>a DEF FeedUnknownAdopt, Feeding, ConnTypes
  <2>4. ConnTypes'
    BY <1>38, <1>a, <2>3 DEF FeedUnknownAdopt, ConnTypes
  <2> QED
    BY <1>38, <2>1, <2>2, <2>4, <1>a, UnchangedTypes DEF FeedUnknownAdopt, TypeOK
<1>30. CASE ReadData
  <2>1. WorkerTypes'
    BY <1>30, <1>a, <1>b, GotoTypes DEF ReadData
  <2>2. inbuf \o arrived \in Seq(Inbound) /\ <<>> \in Seq(Inbound)
    BY <1>a DEF ConnTypes, PeerTypes
  <2>4. inbuf' \in Seq(Inbound) /\ arrived' \in Seq(Inbound)
    BY <1>30, <2>2 DEF ReadData
  <2>3. ConnTypes' /\ PeerTypes'
    BY <1>30, <1>a, <2>4 DEF ReadData, ConnTypes, PeerTypes
  <2> QED
    BY <1>30, <2>1, <2>3, <1>a, UnchangedTypes DEF ReadData, TypeOK
<1>31. CASE WaitTimesOut
  <2>1. WorkerTypes'
    BY <1>31, <1>a DEF WaitTimesOut, WorkerTypes, WorkerSteps
  <2> QED
    BY <1>31, <2>1, <1>a, UnchangedTypes DEF WaitTimesOut, TypeOK
<1>32. CASE RequestStop
  <2>1. WorkerTypes' /\ LoopTypes'
    BY <1>32, <1>a DEF RequestStop, WorkerTypes, LoopTypes
  <2> QED
    BY <1>32, <2>1, <1>a, UnchangedTypes DEF RequestStop, TypeOK, External
<1>33. CASE PeerReads
  <2>1. PeerTypes'
    BY <1>33, <1>a, PushAssumption DEF PeerReads, PeerTypes
  <2> QED
    BY <1>33, <2>1, <1>a, UnchangedTypes DEF PeerReads, TypeOK
<1>34. ASSUME NEW f \in Inbound, PeerSends(f) PROVE TypeOK'
  <2>1. arrived' \in Seq(Inbound)
    BY <1>34, <1>a DEF PeerSends, PeerTypes
  <2>2. PeerTypes'
    BY <1>34, <1>a, <2>1 DEF PeerSends, PeerTypes
  <2> QED
    BY <1>34, <2>2, <1>a, UnchangedTypes DEF PeerSends, TypeOK, External
<1>35. ASSUME NEW how \in {"fin", "rst"}, PeerLeaves(how) PROVE TypeOK'
  <2>1. PeerTypes'
    BY <1>35, <1>a DEF PeerLeaves, PeerTypes
  <2> QED
    BY <1>35, <2>1, <1>a, UnchangedTypes DEF PeerLeaves, TypeOK, External
<1>36. CASE UNCHANGED vars
  BY <1>36, <1>a, UnchangedTypes DEF vars, TypeOK
<1> QED
  BY <1>1, <1>2, <1>3, <1>4, <1>5, <1>6, <1>7, <1>8, <1>9, <1>10, <1>11, <1>12, <1>13, <1>14, <1>15, <1>16, <1>17, <1>18, <1>19, <1>20, <1>21, <1>22, <1>23, <1>24, <1>25, <1>26, <1>27, <1>28, <1>29, <1>30, <1>31, <1>32, <1>33, <1>34, <1>35, <1>36, <1>37, <1>38
     DEF Next, ThreadStep, WorkerStep, Flush, Feed, Finished

(* Every variable has its type in every reachable state. *)
THEOREM TypeCorrect == Spec => []TypeOK
<1>1. Init => TypeOK
  BY TypeInit
<1>2. TypeOK /\ [Next]_vars => TypeOK'
  BY TypeNext
<1> QED
  BY <1>1, <1>2, PTL DEF Spec

-----------------------------------------------------------------------------
(* The stream.                                                             *)

(* Moving frames between the three places leaves their concatenation. *)
LEMMA MoveHead ==
  ASSUME NEW S, NEW w \in Seq(S), NEW o \in Seq(S), NEW p \in Seq(S)
  PROVE  o # <<>> => Append(w, Head(o)) \o Tail(o) \o p = w \o o \o p
<1> SUFFICES ASSUME o # <<>> PROVE Append(w, Head(o)) \o Tail(o) \o p = w \o o \o p
  OBVIOUS
<1>1. Head(o) \in S /\ Tail(o) \in Seq(S)
  BY HeadTailProperties
<1>2. o = <<Head(o)>> \o Tail(o)
  BY <1>1
<1>3. Append(w, Head(o)) \o Tail(o) = w \o o
  BY <1>1, <1>2
<1> QED
  BY <1>3

LEMMA NextFrame ==
  ASSUME NEW S, NEW w \in Seq(S), NEW o \in Seq(S), NEW p \in Seq(S), o # <<>>
  PROVE  /\ Len(w) < Len(w \o o \o p)
         /\ (w \o o \o p)[Len(w) + 1] = Head(o)
<1>1. Len(w \o o \o p) = Len(w) + Len(o) + Len(p) /\ Len(o) > 0
  OBVIOUS
<1>2. (w \o o \o p)[Len(w) + 1] = o[1]
  BY <1>1
<1> QED
  BY <1>1, <1>2

LEMMA AppendLast ==
  ASSUME NEW S, NEW w \in Seq(S), NEW o \in Seq(S), NEW p \in Seq(S), NEW f \in S
  PROVE  w \o o \o Append(p, f) = Append(w \o o \o p, f)
OBVIOUS

LEMMA MoveAll ==
  ASSUME NEW S, NEW w \in Seq(S), NEW o \in Seq(S), NEW p \in Seq(S)
  PROVE  w \o (o \o p) \o <<>> = w \o o \o p
OBVIOUS

LEMMA ConcatPrefix ==
  ASSUME NEW S, NEW w \in Seq(S), NEW o \in Seq(S), NEW p \in Seq(S)
  PROVE  \A i \in 1 .. Len(w) : i <= Len(w \o o \o p) /\ w[i] = (w \o o \o p)[i]
OBVIOUS

(* The worker stands inside a handler of the connection only while the     *)
(* connection exists, and a connection that is gone is closed for sends.   *)
ServingAlive ==
  wpc \in {"adopt", "feedAdopt", "head", "take", "drain", "read", "feed"} => alive

GoneIsClosed == ~alive => closed /\ out = <<>> /\ pending = <<>>

(* What a step can do to the stream. *)
AcceptsFrame(f) ==
  /\ ~closed
  /\ pending' = Append(pending, f) /\ accepted' = Append(accepted, f)
  /\ UNCHANGED <<closed, alive, out, wire>>

WritesFrame ==
  /\ alive /\ out # <<>>
  /\ wire' = Append(wire, Head(out)) /\ out' = Tail(out)
  /\ UNCHANGED <<closed, alive, pending, accepted>>

TakesFrames ==
  /\ alive
  /\ out' = out \o pending /\ pending' = <<>>
  /\ UNCHANGED <<closed, alive, accepted, wire>>

ClosesStream ==
  /\ alive /\ ~alive'
  /\ closed' /\ out' = <<>> /\ pending' = <<>>
  /\ UNCHANGED <<accepted, wire>>

LeavesStream ==
  /\ closed => closed'
  /\ UNCHANGED <<alive, out, pending, accepted, wire>>

StreamStep ==
  \/ \E f \in Frame : AcceptsFrame(f)
  \/ WritesFrame
  \/ TakesFrames
  \/ ClosesStream
  \/ LeavesStream

(* Every step of the program is one of these. *)
LEMMA StreamEffects ==
  ASSUME TypeOK, ServingAlive, [Next]_vars
  PROVE  StreamStep /\ ServingAlive'
<1> USE DEF ServingAlive
<1>a. ASSUME NEW f \in Frame, Enqueue(f), UNCHANGED <<closed, alive, out, wire>>
      PROVE  StreamStep
  BY <1>a DEF Enqueue, StreamStep, AcceptsFrame, LeavesStream
<1>b. ASSUME NEW why \in Causes, CloseConn(why), alive, UNCHANGED peerVars
      PROVE  StreamStep /\ ~alive'
  BY <1>b DEF CloseConn, StreamStep, ClosesStream, peerVars
<1>c. /\ "error" \in Causes /\ "requested" \in Causes /\ "peer" \in Causes
      /\ "stop" \in Causes /\ "protocol" \in Causes
  BY DEF Causes
<1>d. ASSUME UNCHANGED <<wire, out, pending, accepted, alive, closed>> PROVE StreamStep
  BY <1>d DEF StreamStep, LeavesStream
<1>1. ASSUME NEW t \in Threads, Send(t) PROVE StreamStep /\ ServingAlive'
  <2>1. calls[t] + 1 \in 0 .. MaxCalls
    BY <1>1, PushAssumption DEF Send, TypeOK, ThreadTypes
  <2> QED
    BY <1>1, <1>a, <2>1, FrameTypes DEF Send, workerVars, connVars, peerVars
<1>2. ASSUME NEW t \in Threads, CloseSse(t) PROVE StreamStep /\ ServingAlive'
  BY <1>2, <1>d DEF CloseSse, workerVars, connVars, peerVars
<1>3. ASSUME NEW t \in Threads, ClosePulse(t) PROVE StreamStep /\ ServingAlive'
  BY <1>3, <1>d DEF ClosePulse, workerVars, connVars, peerVars
<1>4. ASSUME NEW t \in Threads, QueueCloseFrame(t) PROVE StreamStep /\ ServingAlive'
  <2>1. calls[t] \in 0 .. MaxCalls
    BY DEF TypeOK, ThreadTypes
  <2> QED
    BY <1>4, <1>a, <2>1, FrameTypes DEF QueueCloseFrame, workerVars, connVars, peerVars
<1>5. ASSUME NEW t \in Threads, Post(t) PROVE StreamStep /\ ServingAlive'
  BY <1>5, <1>d DEF Post, implVars, workerVars, connVars, peerVars
<1>6. ASSUME NEW t \in Threads, Wakeup(t) PROVE StreamStep /\ ServingAlive'
  BY <1>6, <1>d DEF Wakeup, implVars, workerVars, connVars, peerVars
<1>7. CASE Adopt
  BY <1>7, <1>d DEF Adopt, Goto, implVars, connVars, peerVars
<1>8. CASE WriteFrame
  <2>1. WritesFrame /\ wpc' = wpc
    BY <1>8 DEF WriteFrame, WritesFrame, implVars, workerVars
  <2> QED
    BY <2>1 DEF StreamStep, WritesFrame
<1>9. CASE WriteStalls
  BY <1>9, <1>d DEF WriteStalls, ReturnFromFlush, Goto, implVars, connVars, peerVars
<1>10. CASE WriteFails
  BY <1>10, <1>b, <1>c DEF WriteFails, Goto, ReturnClosed
<1>11. CASE HeadDone
  BY <1>11, <1>d DEF HeadDone, Goto, implVars, connVars, peerVars
<1>12. CASE TakePending
  <2>1. TakesFrames /\ wpc' = "drain"
    BY <1>12 DEF TakePending, TakesFrames, peerVars
  <2> QED
    BY <2>1 DEF StreamStep, TakesFrames
<1>13. CASE DrainedOpen
  BY <1>13, <1>d DEF DrainedOpen, ReturnFromFlush, Goto, implVars, connVars, peerVars
<1>14. CASE DrainedClose
  BY <1>14, <1>b, <1>c DEF DrainedClose, Goto, ReturnClosed
<1>15. CASE FeedText
  BY <1>15, <1>d DEF FeedText, workerVars, implVars, connVars, peerVars
<1>16. CASE FeedPing
  <2>1. [op |-> "pong", by |-> Worker, n |-> 0] \in Frame
    BY FrameTypes
  <2> QED
    BY <1>16, <1>a, <2>1 DEF FeedPing, FeedEnqueue, workerVars, peerVars
<1>17. CASE FeedClose
  <2>1. [op |-> "close", by |-> Worker, n |-> 0] \in Frame
    BY FrameTypes
  <2>2. StreamStep
    BY <1>17, <1>a, <2>1 DEF FeedClose, FeedEnqueue, peerVars
  <2>3. ServingAlive'
    BY <1>17 DEF FeedClose, Feeding, AfterFeed, Goto
  <2> QED
    BY <2>2, <2>3
<1>18. CASE FeedBad
  BY <1>18, <1>b, <1>c DEF FeedBad, Goto
<1>19. CASE FeedBadAdopt
  <2>1. StreamStep
    BY <1>19 DEF FeedBadAdopt, StreamStep, LeavesStream, connVars, peerVars
  <2> QED
    BY <1>19, <2>1 DEF FeedBadAdopt, Goto, connVars
<1>20. CASE FeedDone
  BY <1>20, <1>d DEF FeedDone, AfterFeed, Goto, implVars, connVars, peerVars
<1>21. CASE LoopStops
  <2>1. CASE alive
    BY <1>21, <2>1, <1>b, <1>c DEF LoopStops, Goto
  <2>2. CASE ~alive
    BY <1>21, <2>2, <1>d DEF LoopStops, Goto, implVars, connVars, peerVars
  <2> QED
    BY <2>1, <2>2
<1>22. CASE Wait
  BY <1>22, <1>d DEF Wait, implVars, connVars, peerVars
<1>23. CASE SwapPosted
  BY <1>23, <1>d DEF SwapPosted, implVars, connVars, peerVars
<1>24. CASE RunPosted
  BY <1>24, <1>d DEF RunPosted, Goto, implVars, connVars, peerVars
<1>25. CASE DispatchNone
  BY <1>25, <1>d DEF DispatchNone, Goto, implVars, connVars, peerVars
<1>26. CASE DispatchError
  BY <1>26, <1>b, <1>c DEF DispatchError, Goto
<1>27. CASE DispatchIo
  BY <1>27, <1>d DEF DispatchIo, Goto, implVars, connVars, peerVars
<1>28. CASE ReadNothing
  BY <1>28, <1>d DEF ReadNothing, Goto, implVars, connVars, peerVars
<1>29. CASE ReadEnd
  BY <1>29, <1>b, <1>c DEF ReadEnd, Goto
<1>37. CASE ReadRefused
  BY <1>37, <1>b, <1>c DEF ReadRefused, Goto
<1>38. CASE FeedUnknownAdopt
  <2>1. StreamStep
    BY <1>38 DEF FeedUnknownAdopt, StreamStep, LeavesStream, peerVars
  <2> QED
    BY <1>38, <2>1 DEF FeedUnknownAdopt, Goto
<1>30. CASE ReadData
  BY <1>30, <1>d DEF ReadData, Goto, implVars, connVars, peerVars
<1>31. CASE WaitTimesOut
  BY <1>31, <1>d DEF WaitTimesOut, implVars, connVars, peerVars
<1>32. CASE RequestStop
  BY <1>32, <1>d DEF RequestStop, implVars, connVars, peerVars
<1>33. CASE PeerReads
  BY <1>33, <1>d DEF PeerReads, workerVars, implVars, connVars, peerVars
<1>34. ASSUME NEW f \in Inbound, PeerSends(f) PROVE StreamStep /\ ServingAlive'
  BY <1>34, <1>d DEF PeerSends, implVars, workerVars, connVars
<1>35. ASSUME NEW how \in {"fin", "rst"}, PeerLeaves(how) PROVE StreamStep /\ ServingAlive'
  BY <1>35, <1>d DEF PeerLeaves, implVars, workerVars, connVars
<1>36. CASE UNCHANGED vars
  BY <1>36, <1>d DEF vars, implVars, loopVars, workerVars, connVars, threadVars, peerVars
<1> QED
  BY <1>1, <1>2, <1>3, <1>4, <1>5, <1>6, <1>7, <1>8, <1>9, <1>10, <1>11, <1>12, <1>13, <1>14, <1>15, <1>16, <1>17, <1>18, <1>19, <1>20, <1>21, <1>22, <1>23, <1>24, <1>25, <1>26, <1>27, <1>28, <1>29, <1>30, <1>31, <1>32, <1>33, <1>34, <1>35, <1>36, <1>37, <1>38
     DEF Next, ThreadStep, WorkerStep, Flush, Feed, Finished

(* What makes StreamIntact inductive. *)
StreamInv == TypeOK /\ ServingAlive /\ GoneIsClosed /\ StreamIntact

LEMMA StreamInit == Init => StreamInv
<1> SUFFICES ASSUME Init PROVE StreamInv
  OBVIOUS
<1>1. TypeOK
  BY TypeInit
<1>2. ServingAlive /\ GoneIsClosed
  BY DEF Init, ServingAlive, GoneIsClosed
<1>3. StreamIntact
  <2>1. /\ wire = <<>> /\ pending = <<>> /\ out = <<HeadFrame>> /\ accepted = <<HeadFrame>>
    BY DEF Init
  <2>2. HeadFrame \in Frame
    BY FrameTypes
  <2>3. wire \o out \o pending = accepted
    BY <2>1, <2>2
  <2> QED
    BY <2>1, <2>3 DEF StreamIntact
<1> QED
  BY <1>1, <1>2, <1>3 DEF StreamInv

LEMMA StreamNext == StreamInv /\ [Next]_vars => StreamInv'
<1> SUFFICES ASSUME StreamInv, [Next]_vars PROVE StreamInv'
  OBVIOUS
<1>1. TypeOK'
  BY TypeNext DEF StreamInv
<1>2. StreamStep /\ ServingAlive'
  BY StreamEffects DEF StreamInv
<1>3. /\ wire \in Seq(Frame) /\ out \in Seq(Frame) /\ pending \in Seq(Frame)
      /\ accepted \in Seq(Frame)
  BY DEF StreamInv, TypeOK, ImplTypes, ConnTypes, PeerTypes
<1>4. /\ wire' \in Seq(Frame) /\ out' \in Seq(Frame) /\ pending' \in Seq(Frame)
      /\ accepted' \in Seq(Frame)
  BY <1>1 DEF TypeOK, ImplTypes, ConnTypes, PeerTypes
<1>5. GoneIsClosed'
  BY <1>2 DEF StreamStep, AcceptsFrame, WritesFrame, TakesFrames, ClosesStream,
              LeavesStream, GoneIsClosed, StreamInv
<1>6. alive' => wire' \o out' \o pending' = accepted'
  <2> SUFFICES ASSUME alive' PROVE wire' \o out' \o pending' = accepted'
    OBVIOUS
  <2>1. alive /\ wire \o out \o pending = accepted
    BY <1>2 DEF StreamStep, AcceptsFrame, WritesFrame, TakesFrames, ClosesStream,
                LeavesStream, StreamInv, StreamIntact
  <2>2. ASSUME NEW f \in Frame, AcceptsFrame(f) PROVE wire' \o out' \o pending' = accepted'
    <3>1. /\ wire' = wire /\ out' = out /\ pending' = Append(pending, f)
          /\ accepted' = Append(accepted, f)
      BY <2>2 DEF AcceptsFrame
    <3>2. wire \o out \o Append(pending, f) = Append(wire \o out \o pending, f)
      BY <1>3, AppendLast
    <3> QED
      BY <2>1, <3>1, <3>2
  <2>3. CASE WritesFrame
    <3>1. /\ out # <<>> /\ wire' = Append(wire, Head(out)) /\ out' = Tail(out)
          /\ pending' = pending /\ accepted' = accepted
      BY <2>3 DEF WritesFrame
    <3>2. out # <<>>
      BY <3>1
    <3>3. Append(wire, Head(out)) \o Tail(out) \o pending = wire \o out \o pending
      <4>1. \A w, o, p \in Seq(Frame) :
              o # <<>> => Append(w, Head(o)) \o Tail(o) \o p = w \o o \o p
        BY MoveHead
      <4> QED
        BY <1>3, <3>2, <4>1
    <3> QED
      BY <2>1, <3>1, <3>3
  <2>4. CASE TakesFrames
    <3>1. /\ wire' = wire /\ out' = out \o pending /\ pending' = <<>>
          /\ accepted' = accepted
      BY <2>4 DEF TakesFrames
    <3>2. wire \o (out \o pending) \o <<>> = wire \o out \o pending
      BY <1>3, MoveAll
    <3> QED
      BY <2>1, <3>1, <3>2
  <2>5. CASE LeavesStream
    <3>1. wire' = wire /\ out' = out /\ pending' = pending /\ accepted' = accepted
      BY <2>5 DEF LeavesStream
    <3> QED
      BY <2>1, <3>1
  <2>6. ~ClosesStream
    BY DEF ClosesStream
  <2> QED
    BY <1>2, <2>6, <2>2, <2>3, <2>4, <2>5 DEF StreamStep
<1>7. \A i \in 1 .. Len(wire') : i <= Len(accepted') /\ wire'[i] = accepted'[i]
  <2>1. CASE alive'
    <3>1. wire' \o out' \o pending' = accepted'
      BY <1>6, <2>1
    <3>2. \A i \in 1 .. Len(wire') : i <= Len(wire' \o out' \o pending')
                                  /\ wire'[i] = (wire' \o out' \o pending')[i]
      BY <1>4, ConcatPrefix
    <3> QED
      BY <3>1, <3>2
  <2>2. CASE ~alive'
    <3>1. wire' = wire /\ accepted' = accepted
      BY <1>2, <2>2 DEF StreamStep, AcceptsFrame, WritesFrame, TakesFrames, ClosesStream,
                        LeavesStream, StreamInv, GoneIsClosed
    <3> QED
      BY <3>1 DEF StreamInv, StreamIntact
  <2> QED
    BY <2>1, <2>2
<1>8. StreamIntact'
  BY <1>6, <1>7 DEF StreamIntact
<1> QED
  BY <1>1, <1>2, <1>5, <1>8 DEF StreamInv

(* No frame is lost, repeated or reordered between enqueue and the socket. *)
THEOREM StreamIsIntact == Spec => []StreamIntact
<1>1. Init => StreamInv
  BY StreamInit
<1>2. StreamInv /\ [Next]_vars => StreamInv'
  BY StreamNext
<1>3. StreamInv => StreamIntact
  BY DEF StreamInv
<1> QED
  BY <1>1, <1>2, <1>3, PTL DEF Spec

(* The handle implements the ordered stream: each step of the program      *)
(* accepts a frame, delivers the next one, closes the stream or stutters.  *)
THEOREM ImplementsStream == Spec => Stream!Spec
<1>1. Init => Stream!Init
  <2> SUFFICES ASSUME Init PROVE Stream!Init
    OBVIOUS
  <2>1. HeadFrame \in Frame
    BY FrameTypes
  <2>2. accepted = <<HeadFrame>> /\ wire = <<>> /\ alive = TRUE
    BY DEF Init
  <2>3. accepted \in [1 .. 1 -> Frame]
    BY <2>1, <2>2
  <2> QED
    BY <2>2, <2>3 DEF Stream!Init
<1>2. StreamInv /\ [Next]_vars => [Stream!Next]_(Stream!vars)
  <2> SUFFICES ASSUME StreamInv, [Next]_vars PROVE [Stream!Next]_(Stream!vars)
    OBVIOUS
  <2>1. StreamStep
    BY StreamEffects DEF StreamInv
  <2>2. /\ wire \in Seq(Frame) /\ out \in Seq(Frame) /\ pending \in Seq(Frame)
        /\ accepted \in Seq(Frame)
    BY DEF StreamInv, TypeOK, ImplTypes, ConnTypes, PeerTypes
  <2>3. ASSUME NEW f \in Frame, AcceptsFrame(f) PROVE Stream!Accept(f)
    BY <2>3 DEF AcceptsFrame, Stream!Accept, StreamInv, GoneIsClosed
  <2>4. CASE WritesFrame
    <3>1. wire \o out \o pending = accepted
      BY <2>4 DEF WritesFrame, StreamInv, StreamIntact
    <3>2. Len(wire) < Len(accepted) /\ accepted[Len(wire) + 1] = Head(out)
      BY <2>2, <2>4, <3>1, NextFrame DEF WritesFrame
    <3> QED
      BY <2>4, <3>2 DEF WritesFrame, Stream!Next, Stream!Deliver
  <2>5. CASE TakesFrames \/ LeavesStream
    BY <2>5 DEF TakesFrames, LeavesStream, Stream!vars
  <2>6. CASE ClosesStream
    BY <2>6 DEF ClosesStream, Stream!Next, Stream!Close, StreamInv, TypeOK, ConnTypes
  <2> QED
    BY <2>1, <2>3, <2>4, <2>5, <2>6 DEF StreamStep, Stream!Next
<1>3. Spec => []StreamInv
  <2>1. Init => StreamInv
    BY StreamInit
  <2>2. StreamInv /\ [Next]_vars => StreamInv'
    BY StreamNext
  <2> QED
    BY <2>1, <2>2, PTL DEF Spec
<1> QED
  BY <1>1, <1>2, <1>3, PTL DEF Spec, Stream!Spec

-----------------------------------------------------------------------------
(* Next, by who acts.                                                      *)

Call(t) == Send(t) \/ CloseSse(t) \/ ClosePulse(t)

Loop == LoopStops \/ Wait \/ WaitTimesOut \/ SwapPosted \/ RunPosted \/ Adopt

Dispatch == DispatchNone \/ DispatchError \/ DispatchIo

Read == ReadNothing \/ ReadEnd \/ ReadRefused \/ ReadData

Outside ==
  \/ RequestStop \/ PeerReads
  \/ \E f \in Inbound : PeerSends(f)
  \/ \E how \in {"fin", "rst"} : PeerLeaves(how)

LEMMA StepKinds ==
  ASSUME [Next]_vars
  PROVE  \/ \E t \in Threads : Call(t) \/ ThreadStep(t)
         \/ Loop \/ Dispatch \/ Read \/ Flush \/ Feed \/ Outside \/ UNCHANGED vars
BY DEF Next, Call, Loop, Dispatch, Read, Outside, WorkerStep, Finished

-----------------------------------------------------------------------------
(* No sleep on posted work.                                                *)

LEMMA NoSleepNext == TypeOK /\ NoSleepOnWork /\ [Next]_vars => NoSleepOnWork'
<1> SUFFICES ASSUME TypeOK, NoSleepOnWork, [Next]_vars PROVE NoSleepOnWork'
  OBVIOUS
<1>a. posted \in Nat /\ tpc \in [Threads -> ThreadSteps]
  BY DEF TypeOK, LoopTypes, ThreadTypes
<1> USE <1>a DEF NoSleepOnWork
<1>1. ASSUME NEW t \in Threads, Call(t) PROVE NoSleepOnWork'
  BY <1>1 DEF Call, Send, CloseSse, ClosePulse, workerVars, loopVars
<1>2. ASSUME NEW t \in Threads, ThreadStep(t) PROVE NoSleepOnWork'
  <2>1. CASE QueueCloseFrame(t)
    BY <2>1 DEF QueueCloseFrame, workerVars, loopVars
  <2>2. CASE Post(t)
    BY <2>2 DEF Post
  <2>3. CASE Wakeup(t)
    BY <2>3 DEF Wakeup
  <2> QED
    BY <1>2, <2>1, <2>2, <2>3 DEF ThreadStep
<1>3. CASE Loop
  BY <1>3 DEF Loop, LoopStops, Wait, WaitTimesOut, SwapPosted, RunPosted, Adopt, Goto, CloseConn,
              loopVars, threadVars
<1>4. CASE Dispatch
  BY <1>4 DEF Dispatch, DispatchNone, DispatchError, DispatchIo, Dispatching, Goto, CloseConn,
              loopVars, threadVars
<1>5. CASE Read
  BY <1>5 DEF Read, ReadNothing, ReadEnd, ReadRefused, ReadData, Goto, CloseConn,
              loopVars, threadVars
<1>6. CASE Flush
  BY <1>6 DEF Flush, WriteFrame, WriteStalls, WriteFails, HeadDone, TakePending, DrainedOpen,
              DrainedClose, ReturnFromFlush, ReturnClosed, Goto, CloseConn, loopVars, threadVars,
              workerVars
<1>7. CASE Feed
  BY <1>7 DEF Feed, FeedText, FeedPing, FeedClose, FeedBad, FeedBadAdopt, FeedUnknownAdopt,
              FeedDone, Feeding, FeedEnqueue, AfterFeed, Goto, CloseConn, loopVars, threadVars,
              workerVars
<1>8. CASE Outside
  BY <1>8 DEF Outside, RequestStop, PeerReads, PeerSends, PeerLeaves, loopVars, threadVars,
              workerVars
<1>9. CASE UNCHANGED vars
  BY <1>9 DEF vars, loopVars, threadVars, workerVars
<1> QED
  BY <1>1, <1>2, <1>3, <1>4, <1>5, <1>6, <1>7, <1>8, <1>9, StepKinds

(* The worker never sleeps through a closure that somebody posted.         *)
THEOREM WakeupsArrive == Spec => []NoSleepOnWork
<1>1. Init => NoSleepOnWork
  BY DEF Init, NoSleepOnWork
<1>2. TypeOK /\ NoSleepOnWork /\ [Next]_vars => NoSleepOnWork'
  BY NoSleepNext
<1> QED
  BY <1>1, <1>2, TypeCorrect, PTL DEF Spec

-----------------------------------------------------------------------------
(* EPOLLOUT.                                                               *)

LEMMA OutputArmedNext ==
  TypeOK /\ ServingAlive /\ OutputArmed /\ [Next]_vars => OutputArmed'
<1> SUFFICES ASSUME TypeOK, ServingAlive, OutputArmed, [Next]_vars PROVE OutputArmed'
  OBVIOUS
<1> USE DEF OutputArmed
<1>1. ASSUME NEW t \in Threads, Call(t) \/ ThreadStep(t) PROVE OutputArmed'
  BY <1>1 DEF Call, Send, CloseSse, ClosePulse, ThreadStep, QueueCloseFrame, Post, Wakeup,
              workerVars, connVars
<1>3. CASE Loop
  BY <1>3 DEF Loop, LoopStops, Wait, WaitTimesOut, SwapPosted, RunPosted, Adopt, Goto, CloseConn,
              connVars
<1>4. CASE Dispatch
  BY <1>4 DEF Dispatch, DispatchNone, DispatchError, DispatchIo, Dispatching, Goto, CloseConn,
              connVars
<1>5. CASE Read
  BY <1>5 DEF Read, ReadNothing, ReadEnd, ReadRefused, ReadData, Goto, CloseConn, connVars
<1>6. CASE Flush
  BY <1>6 DEF Flush, WriteFrame, WriteStalls, WriteFails, HeadDone, TakePending, DrainedOpen,
              DrainedClose, UpdateInterest, ReturnFromFlush, ReturnClosed, Goto, CloseConn,
              connVars, workerVars
<1>7. CASE Feed
  BY <1>7 DEF Feed, FeedText, FeedPing, FeedClose, FeedBad, FeedBadAdopt, FeedUnknownAdopt,
              FeedDone, Feeding, AfterFeed, Goto, CloseConn, connVars, workerVars
<1>8. CASE Outside
  BY <1>8 DEF Outside, RequestStop, PeerReads, PeerSends, PeerLeaves, connVars, workerVars
<1>9. CASE UNCHANGED vars
  BY <1>9 DEF vars, connVars, workerVars
<1> QED
  BY <1>1, <1>3, <1>4, <1>5, <1>6, <1>7, <1>8, <1>9, StepKinds

(* A stalled write is always resumed by EPOLLOUT, and nothing else arms it. *)
THEOREM InterestIsRight == Spec => []OutputArmed
<1>1. Init => OutputArmed
  BY DEF Init, OutputArmed
<1>2. StreamInv /\ OutputArmed /\ [Next]_vars => OutputArmed'
  BY OutputArmedNext DEF StreamInv
<1>3. Spec => []StreamInv
  BY StreamInit, StreamNext, PTL DEF Spec
<1> QED
  BY <1>1, <1>2, <1>3, PTL DEF Spec

-----------------------------------------------------------------------------
(* The close handlers.                                                     *)

LEMMA CloseHandlersNext ==
  TypeOK /\ CloseHandlersOnce /\ [Next]_vars => CloseHandlersOnce'
<1> SUFFICES ASSUME TypeOK, CloseHandlersOnce, [Next]_vars PROVE CloseHandlersOnce'
  OBVIOUS
<1>a. closeRuns \in Nat
  BY DEF TypeOK, ImplTypes
<1> USE <1>a DEF CloseHandlersOnce
<1>1. ASSUME NEW t \in Threads, Call(t) \/ ThreadStep(t) PROVE CloseHandlersOnce'
  BY <1>1 DEF Call, Send, CloseSse, ClosePulse, ThreadStep, QueueCloseFrame, Post, Wakeup,
              implVars, connVars
<1>3. CASE Loop
  BY <1>3 DEF Loop, LoopStops, Wait, WaitTimesOut, SwapPosted, RunPosted, Adopt, CloseConn,
              implVars, connVars
<1>4. CASE Dispatch
  BY <1>4 DEF Dispatch, DispatchNone, DispatchError, DispatchIo, CloseConn, implVars, connVars
<1>5. CASE Read
  BY <1>5 DEF Read, ReadNothing, ReadEnd, ReadRefused, ReadData, CloseConn, implVars, connVars
<1>6. CASE Flush
  BY <1>6 DEF Flush, WriteFrame, WriteStalls, WriteFails, HeadDone, TakePending, DrainedOpen,
              DrainedClose, CloseConn, implVars, connVars
<1>7. CASE Feed
  BY <1>7 DEF Feed, FeedText, FeedPing, FeedClose, FeedBad, FeedBadAdopt, FeedUnknownAdopt,
              FeedDone, CloseConn, implVars, connVars
<1>8. CASE Outside
  BY <1>8 DEF Outside, RequestStop, PeerReads, PeerSends, PeerLeaves, implVars, connVars
<1>9. CASE UNCHANGED vars
  BY <1>9 DEF vars, implVars, connVars
<1> QED
  BY <1>1, <1>3, <1>4, <1>5, <1>6, <1>7, <1>8, <1>9, StepKinds

(* Whoever notices the end of a Pulse connection first, its close handlers *)
(* have run once when it is gone.                                          *)
THEOREM CloseHandlersRunOnce == Spec => []CloseHandlersOnce
<1>1. Init => CloseHandlersOnce
  BY DEF Init, CloseHandlersOnce
<1>2. TypeOK /\ CloseHandlersOnce /\ [Next]_vars => CloseHandlersOnce'
  BY CloseHandlersNext
<1> QED
  BY <1>1, <1>2, TypeCorrect, PTL DEF Spec

-----------------------------------------------------------------------------
(* No frame and no close request is forgotten.  FlushIsComing is not       *)
(* inductive: what keeps it is where the closures of a batch are run, that *)
(* notify is set once the connection is adopted, and what may arrive       *)
(* behind the back of a flush that has already taken the shared buffer.    *)

Queued ==
  posted > 0 \/ batch > 0 \/ \E t \in Threads : tpc[t] \in {"closeframe", "post"}

Notifying == alive /\ wpc # "adopt" => notify

BatchPlace ==
  batch > 0 => wpc = "run" \/ (wpc \in {"take", "drain"} /\ ret = "run")

(* A connection that is open although its channel is closed (adopt_pulse_  *)
(* saw a frame it cannot decode) is on its way to being closed.            *)
ClosingSoon ==
  alive /\ closed =>
    /\ closeRequested
    /\ wpc \notin {"adopt", "feedAdopt", "feed"}
    /\ out # <<>> \/ wpc \in {"head", "take"} \/ (wpc = "drain" /\ creq)

BehindTheFlush ==
  alive /\ wpc = "drain" =>
    /\ pending # <<>> => Queued
    /\ closeRequested /\ ~creq => Queued
    /\ closed => creq /\ pending = <<>>

WakeInv ==
  /\ ServingAlive /\ GoneIsClosed
  /\ Notifying /\ BatchPlace /\ ClosingSoon /\ BehindTheFlush /\ NothingForgotten

LEMMA WakeNext == TypeOK /\ WakeInv /\ [Next]_vars => WakeInv'
<1> SUFFICES ASSUME TypeOK, WakeInv, [Next]_vars PROVE WakeInv'
  OBVIOUS
<1>a. /\ posted \in Nat /\ batch \in Nat /\ tpc \in [Threads -> ThreadSteps]
      /\ closed \in BOOLEAN /\ closeRequested \in BOOLEAN /\ creq \in BOOLEAN
      /\ alive \in BOOLEAN /\ notify \in BOOLEAN
  BY DEF TypeOK, LoopTypes, WorkerTypes, ThreadTypes, ImplTypes, ConnTypes
<1> USE <1>a DEF WakeInv, ServingAlive, GoneIsClosed, Notifying, BatchPlace, ClosingSoon,
                 BehindTheFlush, NothingForgotten, FlushIsComing, Queued
<1>1. ASSUME NEW t \in Threads, Call(t) PROVE WakeInv'
  <2>1. CASE Send(t)
    BY <2>1 DEF Send, Enqueue, AfterEnqueue, workerVars, loopVars, connVars
  <2>2. CASE CloseSse(t)
    BY <2>2 DEF CloseSse, RequestClose, AfterEnqueue, workerVars, loopVars, connVars
  <2>3. CASE ClosePulse(t)
    BY <2>3 DEF ClosePulse, RequestClose, workerVars, loopVars, connVars
  <2> QED
    BY <1>1, <2>1, <2>2, <2>3 DEF Call
<1>2. ASSUME NEW t \in Threads, ThreadStep(t) PROVE WakeInv'
  <2>1. CASE QueueCloseFrame(t)
    BY <2>1 DEF QueueCloseFrame, Enqueue, AfterEnqueue, workerVars, loopVars, connVars
  <2>2. CASE Post(t)
    BY <2>2 DEF Post, implVars, workerVars, connVars
  <2>3. CASE Wakeup(t)
    BY <2>3 DEF Wakeup, implVars, workerVars, connVars
  <2> QED
    BY <1>2, <2>1, <2>2, <2>3 DEF ThreadStep
<1>3. CASE Loop
  BY <1>3 DEF Loop, LoopStops, Wait, WaitTimesOut, SwapPosted, RunPosted, Adopt, Goto, CloseConn,
              implVars, loopVars, threadVars, connVars
<1>4. CASE Dispatch
  BY <1>4 DEF Dispatch, DispatchNone, DispatchError, DispatchIo, Dispatching, Goto, CloseConn,
              implVars, loopVars, threadVars, connVars
<1>5. CASE Read
  <2>1. CASE ReadNothing
    BY <2>1 DEF ReadNothing, Goto, implVars, loopVars, connVars, threadVars
  <2>2. CASE ReadEnd
    BY <2>2 DEF ReadEnd, Goto, CloseConn, loopVars, threadVars
  <2>3. CASE ReadRefused
    BY <2>3 DEF ReadRefused, Goto, CloseConn, loopVars, threadVars
  <2>4. CASE ReadData
    BY <2>4 DEF ReadData, Goto, implVars, loopVars, threadVars, TypeOK
  <2> QED
    BY <1>5, <2>1, <2>2, <2>3, <2>4 DEF Read
<1>6. CASE Flush
  <2>1. CASE WriteFrame
    BY <2>1 DEF WriteFrame, implVars, loopVars, workerVars, threadVars
  <2>2. CASE WriteStalls
    <3>1. ret \in {"reflush", "run", "read", "wait"}
      BY DEF TypeOK, WorkerTypes, Returns
    <3> QED
      BY <2>2, <3>1 DEF WriteStalls, ReturnFromFlush, Goto, implVars, loopVars, threadVars
  <2>3. CASE WriteFails
    BY <2>3 DEF WriteFails, ReturnClosed, Goto, CloseConn, loopVars, threadVars
  <2>4. CASE HeadDone
    BY <2>4 DEF HeadDone, Goto, implVars, loopVars, connVars, threadVars
  <2>5. CASE TakePending
    BY <2>5 DEF TakePending, loopVars, threadVars
  <2>6. CASE DrainedOpen
    BY <2>6 DEF DrainedOpen, ReturnFromFlush, Goto, implVars, loopVars, threadVars
  <2>7. CASE DrainedClose
    BY <2>7 DEF DrainedClose, ReturnClosed, Goto, CloseConn, loopVars, threadVars
  <2> QED
    BY <1>6, <2>1, <2>2, <2>3, <2>4, <2>5, <2>6, <2>7 DEF Flush
<1>7. CASE Feed
  <2>1. CASE FeedText
    BY <2>1 DEF FeedText, Feeding, implVars, loopVars, workerVars, threadVars
  <2>2. CASE FeedPing
    BY <2>2 DEF FeedPing, Feeding, FeedEnqueue, Enqueue, loopVars, workerVars, threadVars
  <2>3. CASE FeedClose
    BY <2>3 DEF FeedClose, Feeding, FeedEnqueue, Enqueue, RequestClose, AfterFeed, Goto,
                loopVars, threadVars
  <2>4. CASE FeedBad
    BY <2>4 DEF FeedBad, Goto, CloseConn, loopVars, threadVars
  <2>5. CASE FeedBadAdopt
    BY <2>5 DEF FeedBadAdopt, Feeding, RequestClose, Goto, connVars, loopVars, threadVars
  <2>6. CASE FeedUnknownAdopt
    BY <2>6 DEF FeedUnknownAdopt, Feeding, RequestClose, Goto, loopVars, threadVars
  <2>7. CASE FeedDone
    BY <2>7 DEF FeedDone, AfterFeed, Goto, implVars, loopVars, connVars, threadVars
  <2> QED
    BY <1>7, <2>1, <2>2, <2>3, <2>4, <2>5, <2>6, <2>7 DEF Feed
<1>8. CASE Outside
  BY <1>8 DEF Outside, RequestStop, PeerReads, PeerSends, PeerLeaves, implVars, loopVars,
              threadVars, workerVars, connVars
<1>9. CASE UNCHANGED vars
  BY <1>9 DEF vars, implVars, loopVars, threadVars, workerVars, connVars
<1> QED
  BY <1>1, <1>2, <1>3, <1>4, <1>5, <1>6, <1>7, <1>8, <1>9, StepKinds

(* Whatever threads and worker do in whatever order, a flush is on its way *)
(* for every accepted frame and every request to close.                    *)
THEOREM FlushAlwaysComes == Spec => []NothingForgotten
<1>1. Init => WakeInv
  BY DEF Init, WakeInv, ServingAlive, GoneIsClosed, Notifying, BatchPlace, ClosingSoon,
         BehindTheFlush, NothingForgotten, FlushIsComing
<1>2. TypeOK /\ WakeInv /\ [Next]_vars => WakeInv'
  BY WakeNext
<1>3. WakeInv => NothingForgotten
  BY DEF WakeInv
<1> QED
  BY <1>1, <1>2, <1>3, TypeCorrect, PTL DEF Spec

-----------------------------------------------------------------------------
(* A requested close writes what was accepted before it.  The copy of      *)
(* close_requested a flush works from was taken with the frames.           *)

MarkKept ==
  /\ closeMark <= Len(accepted)
  /\ alive /\ wpc = "drain" /\ creq =>
       closeRequested /\ closeMark <= Len(wire) + Len(out)
  /\ cause = "requested" => ~alive /\ Len(wire) >= closeMark

LEMMA MarkNext == StreamInv /\ MarkKept /\ [Next]_vars => MarkKept'
<1> SUFFICES ASSUME StreamInv, MarkKept, [Next]_vars PROVE MarkKept'
  OBVIOUS
<1>a. /\ closeMark \in Nat /\ accepted \in Seq(Frame) /\ wire \in Seq(Frame)
      /\ out \in Seq(Frame) /\ pending \in Seq(Frame)
      /\ closed \in BOOLEAN /\ closeRequested \in BOOLEAN /\ alive \in BOOLEAN
      /\ ServingAlive /\ GoneIsClosed
  BY DEF StreamInv, TypeOK, ImplTypes, ConnTypes, PeerTypes
<1>b. /\ Len(accepted) \in Nat /\ Len(wire) \in Nat /\ Len(out) \in Nat
  BY <1>a
<1>c. alive => Len(accepted) = Len(wire) + Len(out) + Len(pending)
  BY <1>a DEF StreamInv, StreamIntact
<1>d. ASSUME NEW f, Enqueue(f)
      PROVE  Len(accepted') \in Nat /\ Len(accepted') >= Len(accepted)
  BY <1>a, <1>d DEF Enqueue
<1> USE <1>b DEF MarkKept, ServingAlive, GoneIsClosed
<1>1. ASSUME NEW t \in Threads, Call(t) PROVE MarkKept'
  BY <1>1, <1>a, <1>d DEF Call, Send, CloseSse, ClosePulse, RequestClose, workerVars, connVars,
              peerVars
<1>2. ASSUME NEW t \in Threads, ThreadStep(t) PROVE MarkKept'
  BY <1>2, <1>a, <1>d DEF ThreadStep, QueueCloseFrame, Post, Wakeup, implVars, workerVars,
              connVars, peerVars
<1>3. CASE Loop
  BY <1>3, <1>a DEF Loop, LoopStops, Wait, WaitTimesOut, SwapPosted, RunPosted, Adopt, Goto,
              CloseConn, implVars, connVars, peerVars
<1>4. CASE Dispatch
  BY <1>4, <1>a DEF Dispatch, DispatchNone, DispatchError, DispatchIo, Goto, CloseConn,
              implVars, connVars, peerVars
<1>5. CASE Read
  BY <1>5, <1>a DEF Read, ReadNothing, ReadEnd, ReadRefused, ReadData, Goto, CloseConn,
              implVars, connVars, peerVars
<1>6. CASE Flush
  <2>1. CASE WriteFrame
    <3>1. Len(wire') = Len(wire) + 1 /\ Len(out') = Len(out) - 1
      BY <1>a, <2>1 DEF WriteFrame
    <3> QED
      BY <1>a, <2>1, <3>1 DEF WriteFrame, implVars, workerVars
  <2>2. CASE TakePending
    <3>1. Len(out') = Len(out) + Len(pending)
      BY <1>a, <2>2 DEF TakePending
    <3> QED
      BY <1>a, <1>c, <2>2, <3>1 DEF TakePending, peerVars
  <2>3. CASE DrainedClose
    <3>1. closeMark <= Len(wire)
      BY <1>a, <2>3 DEF DrainedClose
    <3> QED
      BY <2>3, <3>1 DEF DrainedClose, CloseConn, peerVars
  <2>4. CASE WriteStalls \/ WriteFails \/ HeadDone \/ DrainedOpen
    BY <1>a, <2>4 DEF WriteStalls, WriteFails, HeadDone, DrainedOpen, ReturnFromFlush,
              ReturnClosed, Goto, CloseConn, implVars, connVars, peerVars
  <2> QED
    BY <1>6, <2>1, <2>2, <2>3, <2>4 DEF Flush
<1>7. CASE Feed
  BY <1>7, <1>a, <1>d DEF Feed, FeedText, FeedPing, FeedClose, FeedBad, FeedBadAdopt,
              FeedUnknownAdopt, FeedDone, Feeding, FeedEnqueue, RequestClose, AfterFeed, Goto,
              CloseConn, implVars, workerVars, connVars, peerVars
<1>8. CASE Outside
  BY <1>8, <1>a DEF Outside, RequestStop, PeerReads, PeerSends, PeerLeaves, implVars, workerVars,
              connVars, peerVars
<1>9. CASE UNCHANGED vars
  BY <1>9 DEF vars, implVars, workerVars, connVars, peerVars
<1> QED
  BY <1>1, <1>2, <1>3, <1>4, <1>5, <1>6, <1>7, <1>8, <1>9, StepKinds

(* A connection closed on request has written every frame accepted before  *)
(* the first request, whatever was sent while the flush was under way.     *)
THEOREM RequestedCloseIsClean == Spec => []CleanClose
<1>1. Init => MarkKept
  BY DEF Init, MarkKept
<1>2. StreamInv /\ MarkKept /\ [Next]_vars => MarkKept'
  BY MarkNext
<1>3. Spec => []StreamInv
  BY StreamInit, StreamNext, PTL DEF Spec
<1>4. MarkKept => CleanClose
  BY DEF MarkKept, CleanClose
<1> QED
  BY <1>1, <1>2, <1>3, <1>4, PTL DEF Spec
=============================================================================
