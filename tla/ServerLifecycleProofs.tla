-------------------------- MODULE ServerLifecycleProofs --------------------------
(***************************************************************************)
(* Proofs of what ServerLifecycle promises, for any number of workers,     *)
(* threads, runs, stops and connections, with or without signal handlers   *)
(* that call Stop.                                                         *)
(***************************************************************************)
EXTENDS ServerLifecycle, TLAPS

-----------------------------------------------------------------------------
(* Stacks.  A call replaces its frame, puts another one on top of it, or   *)
(* returns.                                                                *)

LEMMA Replaced ==
  ASSUME NEW s \in Seq(Frame), s # <<>>, NEW f \in Frame
  PROVE  LET r == <<f>> \o Tail(s)
         IN /\ r \in Seq(Frame) /\ Len(r) = Len(s) /\ r[1] = f
            /\ \A k \in 2 .. Len(s) : r[k] = s[k]
OBVIOUS

LEMMA Called ==
  ASSUME NEW s \in Seq(Frame), s # <<>>, NEW f \in Frame, NEW g \in Frame
  PROVE  LET r == <<f, g>> \o Tail(s)
         IN /\ r \in Seq(Frame) /\ Len(r) = Len(s) + 1 /\ r[1] = f /\ r[2] = g
            /\ \A k \in 3 .. Len(s) + 1 : r[k] = s[k - 1]
OBVIOUS

LEMMA Returned ==
  ASSUME NEW s \in Seq(Frame), s # <<>>
  PROVE  LET r == <<>> \o Tail(s)
         IN /\ r \in Seq(Frame) /\ Len(r) = Len(s) - 1
            /\ \A k \in 1 .. Len(s) - 1 : r[k] = s[k + 1]
OBVIOUS

LEMMA Entered ==
  ASSUME NEW s \in Seq(Frame), NEW f \in Frame
  PROVE  LET r == <<f>> \o s
         IN /\ r \in Seq(Frame) /\ Len(r) = Len(s) + 1 /\ r[1] = f
            /\ \A k \in 2 .. Len(s) + 1 : r[k] = s[k - 1]
OBVIOUS

-----------------------------------------------------------------------------
(* The inductive invariant.                                                *)

Starting == {"run.tls", "run.setup", "run.start"}
Stopping == {"stop.request", "stop.clear"}
Clearing == {"stop.clear", "destroy.free"}

(* Which frames a stack may have where: Run is alone with the server, and  *)
(* what destroys threads waits until the Wait on top of it has returned.   *)
StacksInv ==
  \A t \in Threads : \A k \in 1 .. Len(stack[t]) :
    /\ stack[t][k].at \in Starting =>
         t = Owner /\ Len(stack[t]) = 1 /\ \A u \in Others : Len(stack[u]) = 0
    /\ stack[t][k].at \in {"stop.request", "wait.lock"} => k = 1
    /\ stack[t][k].at \in Clearing /\ k > 1 => stack[t][k - 1].at \in {"wait.lock", "wait.join"}

(* What a call knows: a Wait has joined the threads it went past; a server *)
(* that is being stopped is not said to run; one that is being started is, *)
(* and has no thread yet.                                                  *)
Knows(f) ==
  /\ f.at = "wait.join" => \A w \in Workers : w < f.w => w \notin joinable
  /\ f.at \in Stopping \cup {"destroy.wait", "destroy.free"} => ~running
  /\ f.at \in Starting => running
  /\ f.at \in {"run.tls", "run.setup"} => joinable = {}

(* And what destroys threads gets its turn when none is left.              *)
CallsInv ==
  \A t \in Threads :
    /\ \A k \in 1 .. Len(stack[t]) : Knows(stack[t][k])
    /\ Len(stack[t]) > 0 /\ stack[t][1].at \in Clearing => joinable = {}

(* Whose worker runs has a thread to be joined, and a server that is not   *)
(* running has none, unless its Stop is in progress.                       *)
StopInProgress == \E t \in Threads : \E k \in 1 .. Len(stack[t]) : stack[t][k].at \in Stopping

WorkersInv ==
  /\ \A w \in Workers : IF Serving(w) THEN w \in joinable ELSE conns[w] = 0
  /\ running \/ joinable = {} \/ StopInProgress

(* Where a run stands: the workers it went past are in their loops, or     *)
(* never could be.                                                         *)
Placed(w) == Serving(w) \/ w \in unfit

Stands(f) ==
  /\ f.at = "run.setup" =>
       created = f.w - 1 /\ \A w \in Workers : ~stop[w] /\ wpc[w] = "none"
  /\ f.at = "run.start" =>
       created = N /\ \A w \in Workers : ~stop[w] /\ (w < f.w => Placed(w))

Ready == created = N /\ \A w \in Workers : ~stop[w] /\ Placed(w)

StartInProgress == \E k \in 1 .. Len(stack[Owner]) : stack[Owner][k].at \in Starting

RunInv ==
  /\ \A k \in 1 .. Len(stack[Owner]) : Stands(stack[Owner][k])
  /\ running => StartInProgress \/ Ready

Safe == StacksInv /\ CallsInv /\ WorkersInv /\ RunInv /\ ThreadsOutlived

LifecycleInv == TypeOK /\ Safe

-----------------------------------------------------------------------------
(* Types.                                                                  *)

Beginning(t) == CallWait(t) \/ CallStop(t)

LEMMA StepKinds ==
  ASSUME [Next]_vars
  PROVE  \/ CallRun \/ CallDestroy \/ OwnerStep
         \/ \E t \in Threads : Beginning(t) \/ CallStep(t)
         \/ \E w \in Workers : WorkerStep(w)
         \/ UNCHANGED vars
BY DEF Next, Beginning, Finished

LEMMA FrameTypes ==
  /\ \A where \in {"run.tls", "run.setup", "run.start", "stop.request", "stop.clear",
                   "wait.lock", "wait.join", "destroy.wait", "destroy.free"} :
       At(where) \in Frame /\ At(where).at = where /\ At(where).w = 1
  /\ \A f \in Frame : f.w <= N => /\ Onward(f) \in Frame /\ Onward(f).at = f.at
                              /\ Onward(f).w = f.w + 1
BY LifecycleAssumption DEF At, Frame, Onward

Flags == running \in BOOLEAN /\ destroyed \in BOOLEAN

Mutex == joinMu \in {{}} \cup {{t} : t \in Threads}

Values ==
  /\ created \in 0 .. N /\ joinable \subseteq Workers
  /\ stop \in [Workers -> BOOLEAN]
  /\ wpc \in [Workers -> {"none", "check", "poll", "exited"}]
  /\ conns \in [Workers -> 0 .. MaxConns]
  /\ unfit \subseteq Workers
  /\ stack \in [Threads -> Seq(Frame)]
  /\ runs \in 0 .. MaxRuns /\ stops \in 0 .. MaxStops
  /\ undefined \subseteq {"worker_destroyed", "joinable_destroyed", "threads_raced"}

LEMMA TypeParts ==
  (TypeOK <=> Flags /\ Mutex /\ Values) /\ (TypeOK' <=> Flags' /\ Mutex' /\ Values')
BY Zenon DEF TypeOK, Flags, Mutex, Values

LEMMA FlagsKept == Flags /\ [Next]_vars => Flags'
<1> SUFFICES ASSUME Flags, [Next]_vars PROVE Flags'
  OBVIOUS
<1> USE DEF Flags
<1>1. CASE CallRun
  BY <1>1, Zenon DEF CallRun
<1>2. CASE CallDestroy
  BY <1>2, Zenon DEF CallDestroy, BeginStop
<1>3. ASSUME NEW t \in Threads, Beginning(t) PROVE Flags'
  BY <1>3, Zenon DEF Beginning, CallWait, CallStop, BeginStop, serverVars
<1>4. ASSUME NEW t \in Threads, CallStep(t) PROVE Flags'
  BY <1>4, Zenon DEF CallStep, StopRequest, StopWaits, StopClears, WaitLock, WaitJoin, WaitUnlock,
                     serverVars
<1>5. CASE OwnerStep
  BY <1>5, Zenon DEF OwnerStep, RunTlsFails, RunClears, RunListens, RunFails, RunStarts, RunStart, RunThrows,
                     RunReturns, DestroyWaits, DestroyFrees, serverVars
<1>6. ASSUME NEW w \in Workers, WorkerStep(w) PROVE Flags'
  BY <1>6, Zenon DEF WorkerStep, WorkerCheck, WorkerPolls, WorkerLeaves, serverVars
<1>7. CASE UNCHANGED vars
  BY <1>7, Zenon DEF vars, serverVars
<1> QED
  BY <1>1, <1>2, <1>3, <1>4, <1>5, <1>6, <1>7, StepKinds

LEMMA MutexKept == Mutex /\ [Next]_vars => Mutex'
<1> SUFFICES ASSUME Mutex, [Next]_vars PROVE Mutex'
  OBVIOUS
<1> USE DEF Mutex
<1>1. CASE CallRun \/ CallDestroy
  BY <1>1 DEF CallRun, CallDestroy
<1>2. ASSUME NEW t \in Threads, Beginning(t) PROVE Mutex'
  BY <1>2 DEF Beginning, CallWait, CallStop, serverVars
<1>3. ASSUME NEW t \in Threads, CallStep(t) PROVE Mutex'
  <2>1. CASE WaitLock(t)
    BY <2>1 DEF WaitLock
  <2>2. CASE WaitUnlock(t)
    <3>1. joinMu' = joinMu \/ joinMu' = {}
      BY <2>2 DEF WaitUnlock
    <3> QED
      BY <3>1
  <2>3. CASE StopRequest(t) \/ StopWaits(t) \/ StopClears(t) \/ WaitJoin(t)
    BY <2>3 DEF StopRequest, StopWaits, StopClears, WaitJoin, serverVars
  <2> QED
    BY <1>3, <2>1, <2>2, <2>3 DEF CallStep
<1>4. CASE OwnerStep
  BY <1>4 DEF OwnerStep, RunTlsFails, RunClears, RunListens, RunFails, RunStarts, RunStart, RunThrows,
              RunReturns, DestroyWaits, DestroyFrees, serverVars
<1>5. ASSUME NEW w \in Workers, WorkerStep(w) PROVE Mutex'
  BY <1>5 DEF WorkerStep, WorkerCheck, WorkerPolls, WorkerLeaves, serverVars
<1>6. CASE UNCHANGED vars
  BY <1>6 DEF vars, serverVars
<1> QED
  BY <1>1, <1>2, <1>3, <1>4, <1>5, <1>6, StepKinds

LEMMA ValuesKept == Values /\ [Next]_vars => Values'
<1> SUFFICES ASSUME Values, [Next]_vars PROVE Values'
  OBVIOUS
<1> USE LifecycleAssumption DEF Values
<1>a. \A t \in Threads : stack[t] # <<>> =>
        Head(stack[t]) \in Frame /\ Head(stack[t]).w \in 1 .. N + 1
  <2>1. \A t \in Threads : stack[t] # <<>> => Head(stack[t]) \in Frame
    OBVIOUS
  <2>2. \A f \in Frame : f.w \in 1 .. N + 1
    BY DEF Frame
  <2> QED
    BY <2>1, <2>2
<1>1. CASE CallRun
  <2>1. stack' \in [Threads -> Seq(Frame)]
    <3>1. \/ stack' = stack \/ stack' = [stack EXCEPT ![Owner] = <<At("run.tls")>>]
      BY <1>1, Zenon DEF CallRun
    <3>2. <<At("run.tls")>> \in Seq(Frame)
      BY FrameTypes
    <3> QED
      BY <3>1, <3>2 DEF Threads
  <2>2. runs' \in 0 .. MaxRuns
    BY <1>1 DEF CallRun
  <2> QED
    BY <1>1, <2>1, <2>2 DEF CallRun, workerVars
<1>2. CASE CallDestroy
  BY <1>2, FrameTypes DEF CallDestroy, BeginStop, workerVars, Threads
<1>3. ASSUME NEW t \in Threads, Beginning(t) PROVE Values'
  <2>1. CASE CallWait(t)
    BY <2>1, FrameTypes DEF CallWait, workerVars, serverVars
  <2>2. CASE CallStop(t)
    <3>1. <<At("stop.request")>> \o stack[t] \in Seq(Frame)
      BY FrameTypes, Entered
    <3> QED
      BY <2>2, <3>1 DEF CallStop, BeginStop, workerVars
  <2> QED
    BY <1>3, <2>1, <2>2 DEF Beginning
<1>4. ASSUME NEW t \in Threads, CallStep(t) PROVE Values'
  <2> USE <1>a, FrameTypes
  <2>1. CASE StopRequest(t)
    <3>1. stop' \in [Workers -> BOOLEAN]
      BY <2>1 DEF StopRequest
    <3>2. stack' \in [Threads -> Seq(Frame)]
      BY <2>1 DEF StopRequest, Top, Index, Advance, Jump, Workers
    <3> QED
      BY <2>1, <3>1, <3>2 DEF StopRequest, serverVars
  <2>2. CASE StopWaits(t)
    BY <2>2 DEF StopWaits, Top, Jump, serverVars, workerVars
  <2>3. CASE StopClears(t)
    BY <2>3 DEF StopClears, Top, Jump, workerVars
  <2>4. CASE WaitLock(t)
    BY <2>4 DEF WaitLock, Top, Jump, workerVars
  <2>5. CASE WaitJoin(t)
    BY <2>5 DEF WaitJoin, Top, Index, Advance, Jump, workerVars
  <2>6. CASE WaitUnlock(t)
    BY <2>6 DEF WaitUnlock, Top, Jump, workerVars
  <2> QED
    BY <1>4, <2>1, <2>2, <2>3, <2>4, <2>5, <2>6 DEF CallStep
<1>5. CASE OwnerStep
  <2> USE <1>a, FrameTypes DEF Threads
  <2>1. CASE RunTlsFails
    BY <2>1 DEF RunTlsFails, Top, Jump, workerVars
  <2>2. CASE RunClears
    BY <2>2 DEF RunClears, ClearWorkers, Top, Jump
  <2>3. CASE RunListens
    <3>1. Index(Owner) \in Workers
      BY <2>3 DEF RunListens, Top, Index, Workers
    <3>2. unfit' \subseteq Workers
      BY <2>3, <3>1 DEF RunListens
    <3> QED
      BY <2>3, <3>1, <3>2 DEF RunListens, Top, Index, Advance, Jump
  <2>4. CASE RunFails
    BY <2>4 DEF RunFails, ClearWorkers, Top, Jump, workerVars
  <2>5. CASE RunStarts
    BY <2>5 DEF RunStarts, Top, Jump, serverVars, workerVars
  <2>6. CASE RunStart
    <3>1. Index(Owner) \in Workers
      BY <2>6 DEF RunStart, Top, Index, Workers
    <3>2. wpc' \in [Workers -> {"none", "check", "poll", "exited"}]
      BY <2>6, <3>1 DEF RunStart
    <3>3. stack' \in [Threads -> Seq(Frame)]
      BY <2>6 DEF RunStart, Top, Index, Advance, Jump
    <3> QED
      BY <2>6, <3>1, <3>2, <3>3 DEF RunStart
  <2>6a. CASE RunThrows
    <3>1. Index(Owner) \in 1 .. N /\ unfit' = unfit \cup (Index(Owner) .. N)
      BY <2>6a DEF RunThrows, Top, Index
    <3>2. Index(Owner) .. N \subseteq Workers
      BY <3>1 DEF Workers
    <3>3. unfit' \subseteq Workers
      BY <3>1, <3>2
    <3> QED
      BY <2>6a, <3>3 DEF RunThrows, Top, Jump, serverVars
  <2>7. CASE RunReturns
    BY <2>7 DEF RunReturns, Top, Jump, serverVars, workerVars
  <2>8. CASE DestroyWaits
    BY <2>8 DEF DestroyWaits, Top, Jump, serverVars, workerVars
  <2>9. CASE DestroyFrees
    BY <2>9 DEF DestroyFrees, ClearWorkers, Top, Jump, workerVars
  <2> QED
    BY <1>5, <2>1, <2>2, <2>3, <2>4, <2>5, <2>6, <2>6a, <2>7, <2>8, <2>9 DEF OwnerStep
<1>6. ASSUME NEW w \in Workers, WorkerStep(w) PROVE Values'
  <2>1. CASE WorkerCheck(w)
    <3>1. stop[w] \in BOOLEAN
      OBVIOUS
    <3>2. conns' \in [Workers -> 0 .. MaxConns]
      BY <2>1 DEF WorkerCheck
    <3>3. wpc' \in [Workers -> {"none", "check", "poll", "exited"}]
      BY <2>1 DEF WorkerCheck
    <3> QED
      BY <2>1, <3>2, <3>3 DEF WorkerCheck, serverVars
  <2>2. CASE WorkerPolls(w)
    <3>1. wpc' \in [Workers -> {"none", "check", "poll", "exited"}]
      BY <2>2 DEF WorkerPolls
    <3>2. conns' \in [Workers -> 0 .. MaxConns]
      BY <2>2 DEF WorkerPolls
    <3> QED
      BY <2>2, <3>1, <3>2 DEF WorkerPolls, serverVars
  <2>3. CASE WorkerLeaves(w)
    BY <2>3, LifecycleAssumption DEF WorkerLeaves, serverVars
  <2> QED
    BY <1>6, <2>1, <2>2, <2>3 DEF WorkerStep
<1>7. CASE UNCHANGED vars
  BY <1>7 DEF vars, serverVars, workerVars
<1> QED
  BY <1>1, <1>2, <1>3, <1>4, <1>5, <1>6, <1>7, StepKinds

(* Every variable has its type, for any number of workers and threads.     *)
THEOREM TypeCorrect == Spec => []TypeOK
<1>1. Init => Flags
  BY Zenon DEF Init, Flags
<1>2. Init => Mutex
  BY DEF Init, Mutex
<1>3. Init => Values
  BY LifecycleAssumption DEF Init, Values
<1> QED
  BY <1>1, <1>2, <1>3, TypeParts, FlagsKept, MutexKept, ValuesKept, PTL DEF Spec

-----------------------------------------------------------------------------
(* How calls move on the stacks, frame by frame.                           *)

Stays(t) == \A u \in Threads \ {t} : stack'[u] = stack[u]

Replaces(t, f) ==
  /\ Stays(t) /\ Len(stack'[t]) = Len(stack[t]) /\ stack'[t][1] = f
  /\ \A k \in 2 .. Len(stack[t]) : stack'[t][k] = stack[t][k]

Calls(t, f, g) ==
  /\ Stays(t) /\ Len(stack'[t]) = Len(stack[t]) + 1 /\ stack'[t][1] = f /\ stack'[t][2] = g
  /\ \A k \in 3 .. Len(stack[t]) + 1 : stack'[t][k] = stack[t][k - 1]

Returns(t) ==
  /\ Stays(t) /\ Len(stack'[t]) = Len(stack[t]) - 1
  /\ \A k \in 1 .. Len(stack[t]) - 1 : stack'[t][k] = stack[t][k + 1]

Enters(t, f) ==
  /\ Stays(t) /\ Len(stack'[t]) = Len(stack[t]) + 1 /\ stack'[t][1] = f
  /\ \A k \in 2 .. Len(stack[t]) + 1 : stack'[t][k] = stack[t][k - 1]

(* In all of these: the frames from the i-th on stay, and those in S come. *)
Moved(t, i, S) ==
  /\ Stays(t)
  /\ \A k \in 1 .. Len(stack'[t]) :
       stack'[t][k] \in S \/ \E j \in i .. Len(stack[t]) : stack'[t][k] = stack[t][j]
  /\ \A j \in i .. Len(stack[t]) : \E k \in 1 .. Len(stack'[t]) : stack'[t][k] = stack[t][j]

LEMMA Moves ==
  ASSUME Values, NEW t \in Threads, stack[t] # <<>>, NEW f \in Frame, NEW g \in Frame
  PROVE  /\ Jump(t, <<f>>) => Replaces(t, f)
         /\ Jump(t, <<f, g>>) => Calls(t, f, g)
         /\ Jump(t, <<>>) => Returns(t)
<1>1. stack[t] \in Seq(Frame) /\ stack \in [Threads -> Seq(Frame)]
  BY DEF Values
<1>2. Jump(t, <<f>>) => Replaces(t, f)
  BY <1>1, Replaced DEF Jump, Replaces, Stays
<1>3. Jump(t, <<f, g>>) => Calls(t, f, g)
  BY <1>1, Called DEF Jump, Calls, Stays
<1>4. Jump(t, <<>>) => Returns(t)
  BY <1>1, Returned DEF Jump, Returns, Stays
<1> QED
  BY <1>2, <1>3, <1>4

LEMMA Views ==
  ASSUME Values, NEW t \in Threads
  PROVE  /\ Len(stack[t]) \in Nat
         /\ stack[t] = <<>> <=> Len(stack[t]) = 0
         /\ stack[t] # <<>> => Head(stack[t]) = stack[t][1]
         /\ DOMAIN stack[t] = 1 .. Len(stack[t])
         /\ \A k \in 1 .. Len(stack[t]) : stack[t][k] \in Frame /\ stack[t][k].w \in 1 .. N + 1
<1>1. stack[t] \in Seq(Frame)
  BY DEF Values
<1>2. \A k \in 1 .. Len(stack[t]) : stack[t][k] \in Frame
  BY <1>1
<1>3. \A f \in Frame : f.w \in 1 .. N + 1
  BY DEF Frame
<1> QED
  BY <1>1, <1>2, <1>3

LEMMA JumpMoves ==
  ASSUME NEW t \in Threads, Len(stack[t]) \in Nat, Len(stack[t]) > 0, NEW f, NEW g
  PROVE  /\ Replaces(t, f) => Moved(t, 2, {f})
         /\ Calls(t, f, g) => Moved(t, 2, {f, g})
         /\ Returns(t) => Moved(t, 2, {})
<1>1. ASSUME Replaces(t, f) PROVE Moved(t, 2, {f})
  BY <1>1 DEF Replaces, Moved
<1>2. ASSUME Calls(t, f, g) PROVE Moved(t, 2, {f, g})
  <2>1. ASSUME NEW k \in 1 .. Len(stack'[t]), k > 2
        PROVE  k - 1 \in 2 .. Len(stack[t]) /\ stack'[t][k] = stack[t][k - 1]
    BY <1>2, <2>1 DEF Calls
  <2>2. ASSUME NEW j \in 2 .. Len(stack[t])
        PROVE  j + 1 \in 1 .. Len(stack'[t]) /\ stack'[t][j + 1] = stack[t][j]
    BY <1>2 DEF Calls
  <2> QED
    BY <1>2, <2>1, <2>2 DEF Calls, Moved
<1>3. ASSUME Returns(t) PROVE Moved(t, 2, {})
  <2>1. ASSUME NEW k \in 1 .. Len(stack'[t])
        PROVE  k + 1 \in 2 .. Len(stack[t]) /\ stack'[t][k] = stack[t][k + 1]
    BY <1>3 DEF Returns
  <2>2. ASSUME NEW j \in 2 .. Len(stack[t])
        PROVE  j - 1 \in 1 .. Len(stack'[t]) /\ stack'[t][j - 1] = stack[t][j]
    BY <1>3 DEF Returns
  <2> QED
    BY <1>3, <2>1, <2>2 DEF Returns, Moved
<1> QED
  BY <1>1, <1>2, <1>3

LEMMA EnterMoves ==
  ASSUME NEW t \in Threads, Len(stack[t]) \in Nat, NEW f, Enters(t, f)
  PROVE  Moved(t, 1, {f})
<1>1. ASSUME NEW k \in 1 .. Len(stack'[t]), k > 1
      PROVE  k - 1 \in 1 .. Len(stack[t]) /\ stack'[t][k] = stack[t][k - 1]
  BY <1>1 DEF Enters
<1>2. ASSUME NEW j \in 1 .. Len(stack[t])
      PROVE  j + 1 \in 1 .. Len(stack'[t]) /\ stack'[t][j + 1] = stack[t][j]
  BY DEF Enters
<1> QED
  BY <1>1, <1>2 DEF Enters, Moved

-----------------------------------------------------------------------------
(* What keeps the stacks right.                                            *)

LEMMA ReplaceKeepsStacks ==
  ASSUME \A u \in Threads : Len(stack[u]) \in Nat, StacksInv,
         NEW t \in Threads, Len(stack[t]) > 0, NEW f, Replaces(t, f),
         f.at \in Starting => stack[t][1].at \in Starting,
         stack[t][1].at \in {"wait.lock", "wait.join"} => f.at \in {"wait.lock", "wait.join"}
  PROVE  StacksInv'
<1> SUFFICES ASSUME NEW u \in Threads, NEW k \in 1 .. Len(stack'[u])
    PROVE    /\ stack'[u][k].at \in Starting =>
                  u = Owner /\ Len(stack'[u]) = 1 /\ \A v \in Others : Len(stack'[v]) = 0
             /\ stack'[u][k].at \in {"stop.request", "wait.lock"} => k = 1
             /\ stack'[u][k].at \in Clearing /\ k > 1 => stack'[u][k - 1].at \in {"wait.lock", "wait.join"}
  BY DEF StacksInv
<1>1. CASE u # t
  BY <1>1 DEF StacksInv, Replaces, Stays, Starting, Clearing, Threads
<1>2. CASE u = t /\ k = 1
  BY <1>2 DEF StacksInv, Replaces, Stays, Starting, Clearing, Threads
<1>3. CASE u = t /\ k > 1
  BY <1>3 DEF StacksInv, Replaces, Starting, Clearing
<1> QED
  BY <1>1, <1>2, <1>3

LEMMA CallKeepsStacks ==
  ASSUME \A u \in Threads : Len(stack[u]) \in Nat, StacksInv,
         NEW t \in Threads, Len(stack[t]) > 0, NEW f, NEW g, Calls(t, f, g),
         f.at = "wait.lock", g.at \in Clearing,
         stack[t][1].at \notin Starting \cup {"wait.lock", "wait.join"}
  PROVE  StacksInv'
<1> SUFFICES ASSUME NEW u \in Threads, NEW k \in 1 .. Len(stack'[u])
    PROVE    /\ stack'[u][k].at \in Starting =>
                  u = Owner /\ Len(stack'[u]) = 1 /\ \A v \in Others : Len(stack'[v]) = 0
             /\ stack'[u][k].at \in {"stop.request", "wait.lock"} => k = 1
             /\ stack'[u][k].at \in Clearing /\ k > 1 => stack'[u][k - 1].at \in {"wait.lock", "wait.join"}
  BY DEF StacksInv
<1>1. CASE u # t
  BY <1>1 DEF StacksInv, Calls, Stays, Starting, Clearing, Threads
<1>2. CASE u = t /\ k \in 1 .. 2
  BY <1>2 DEF Calls, Starting, Clearing
<1>3. CASE u = t /\ k = 3
  <2>1. stack'[t][3] = stack[t][2] /\ 2 \in 1 .. Len(stack[t])
    BY <1>3 DEF Calls
  <2>2. stack[t][2].at \notin Clearing \cup Starting \cup {"stop.request", "wait.lock"}
    BY <2>1 DEF StacksInv, Starting, Clearing
  <2> QED
    BY <1>3, <2>1, <2>2
<1>4. CASE u = t /\ k > 3
  <2>1. /\ stack'[t][k] = stack[t][k - 1] /\ stack'[t][k - 1] = stack[t][k - 2]
        /\ k - 1 \in 3 .. Len(stack[t])
    <3>1. k \in 3 .. Len(stack[t]) + 1 /\ k - 1 \in 3 .. Len(stack[t]) + 1
      BY <1>4 DEF Calls
    <3>2. stack'[t][k] = stack[t][k - 1]
      BY <3>1 DEF Calls
    <3>3. stack'[t][k - 1] = stack[t][(k - 1) - 1]
      BY <3>1 DEF Calls
    <3>4. (k - 1) - 1 = k - 2
      BY <3>1
    <3> QED
      BY <1>4, <3>1, <3>2, <3>3, <3>4
  <2>2. /\ stack[t][k - 1].at \notin Starting \cup {"stop.request", "wait.lock"}
        /\ stack[t][k - 1].at \in Clearing => stack[t][k - 2].at \in {"wait.lock", "wait.join"}
    BY <2>1 DEF StacksInv, Starting
  <2> QED
    BY <1>4, <2>1, <2>2
<1> QED
  BY <1>1, <1>2, <1>3, <1>4

LEMMA ReturnKeepsStacks ==
  ASSUME \A u \in Threads : Len(stack[u]) \in Nat, StacksInv,
         NEW t \in Threads, Len(stack[t]) > 0, Returns(t)
  PROVE  StacksInv'
<1> SUFFICES ASSUME NEW u \in Threads, NEW k \in 1 .. Len(stack'[u])
    PROVE    /\ stack'[u][k].at \in Starting =>
                  u = Owner /\ Len(stack'[u]) = 1 /\ \A v \in Others : Len(stack'[v]) = 0
             /\ stack'[u][k].at \in {"stop.request", "wait.lock"} => k = 1
             /\ stack'[u][k].at \in Clearing /\ k > 1 => stack'[u][k - 1].at \in {"wait.lock", "wait.join"}
  BY DEF StacksInv
<1>1. CASE u # t
  BY <1>1 DEF StacksInv, Returns, Stays, Starting, Clearing, Threads
<1>2. CASE u = t
  <2>1. /\ stack'[t][k] = stack[t][k + 1] /\ k + 1 \in 2 .. Len(stack[t])
        /\ k > 1 => stack'[t][k - 1] = stack[t][k]
    BY <1>2 DEF Returns
  <2>2. /\ stack[t][k + 1].at \notin Starting \cup {"stop.request", "wait.lock"}
        /\ stack[t][k + 1].at \in Clearing => stack[t][k].at \in {"wait.lock", "wait.join"}
    BY <2>1 DEF StacksInv, Starting
  <2> QED
    BY <1>2, <2>1, <2>2
<1> QED
  BY <1>1, <1>2

LEMMA EnterKeepsStacks ==
  ASSUME \A u \in Threads : Len(stack[u]) \in Nat, StacksInv, ~StartInProgress,
         NEW t \in Threads, NEW f, Enters(t, f), f.at \in {"stop.request", "wait.lock"},
         Len(stack[t]) > 0 => stack[t][1].at = "wait.join"
  PROVE  StacksInv'
<1> SUFFICES ASSUME NEW u \in Threads, NEW k \in 1 .. Len(stack'[u])
    PROVE    /\ stack'[u][k].at \in Starting =>
                  u = Owner /\ Len(stack'[u]) = 1 /\ \A v \in Others : Len(stack'[v]) = 0
             /\ stack'[u][k].at \in {"stop.request", "wait.lock"} => k = 1
             /\ stack'[u][k].at \in Clearing /\ k > 1 => stack'[u][k - 1].at \in {"wait.lock", "wait.join"}
  BY DEF StacksInv
<1>1. CASE u # t
  BY <1>1 DEF StacksInv, StartInProgress, Enters, Stays, Starting, Clearing, Threads
<1>2. CASE u = t /\ k = 1
  BY <1>2 DEF Enters, Starting, Clearing
<1>3. CASE u = t /\ k > 1
  <2>1. stack'[t][k] = stack[t][k - 1] /\ k - 1 \in 1 .. Len(stack[t])
    BY <1>3 DEF Enters
  <2>2. stack[t][k - 1].at \notin Starting \cup {"stop.request", "wait.lock"}
    <3>1. stack[t][k - 1].at \notin Starting
      BY <2>1 DEF StacksInv, StartInProgress
    <3>2. CASE k - 1 = 1
      BY <2>1, <3>1, <3>2
    <3>3. CASE k - 1 > 1
      BY <2>1, <3>1, <3>3 DEF StacksInv
    <3> QED
      BY <2>1, <3>2, <3>3
  <2>3. CASE k = 2
    BY <1>3, <2>1, <2>2, <2>3 DEF Enters, Clearing
  <2>4. CASE k > 2
    <3>1. stack'[t][k - 1] = stack[t][k - 2]
      BY <1>3, <2>4 DEF Enters
    <3>2. stack[t][k - 1].at \in Clearing => stack[t][k - 2].at \in {"wait.lock", "wait.join"}
      BY <2>1, <2>4 DEF StacksInv
    <3> QED
      BY <1>3, <2>1, <2>2, <3>1, <3>2
  <2> QED
    BY <1>3, <2>3, <2>4
<1> QED
  BY <1>1, <1>2, <1>3

-----------------------------------------------------------------------------
(* What keeps the rest, when frames move.                                  *)

LEMMA MoveKeepsCalls ==
  ASSUME \A u \in Threads : Len(stack[u]) \in Nat, StacksInv, CallsInv,
         NEW t \in Threads, NEW S, NEW i \in {1, 2}, Moved(t, i, S),
         running' => running, (running => running') \/ ~StartInProgress,
         joinable' \subseteq joinable,
         \A f \in S : Knows(f)',
         Len(stack'[t]) > 0 /\ stack'[t][1].at \in Clearing => joinable' = {}
  PROVE  CallsInv'
<1>1. ASSUME NEW f, Knows(f), f.at \in Starting => (running => running') PROVE Knows(f)'
  BY <1>1 DEF Knows, Starting, Stopping
<1>2. \A u \in Threads : \A k \in 1 .. Len(stack[u]) :
        stack[u][k].at \in Starting => (running => running')
  BY DEF StacksInv, StartInProgress
<1>3. ASSUME NEW u \in Threads, u # t
      PROVE  /\ \A k \in 1 .. Len(stack'[u]) : Knows(stack[u][k])'
             /\ Len(stack'[u]) > 0 /\ stack'[u][1].at \in Clearing => joinable' = {}
  <2>1. stack'[u] = stack[u]
    BY <1>3 DEF Moved, Stays
  <2>2. \A k \in 1 .. Len(stack[u]) : Knows(stack[u][k])
    BY DEF CallsInv
  <2> QED
    BY <1>1, <1>2, <2>1, <2>2 DEF CallsInv
<1>4. ASSUME NEW k \in 1 .. Len(stack'[t]) PROVE Knows(stack[t][k])'
  <2>1. CASE stack'[t][k] \in S
    BY <2>1 DEF Knows
  <2>2. ASSUME NEW j \in i .. Len(stack[t]), stack'[t][k] = stack[t][j]
        PROVE  Knows(stack[t][k])'
    <3>1. j \in 1 .. Len(stack[t])
      OBVIOUS
    <3>2. Knows(stack[t][j])
      BY <3>1 DEF CallsInv
    <3> QED
      BY <1>1, <1>2, <2>2, <3>1, <3>2 DEF Knows
  <2> QED
    BY <2>1, <2>2 DEF Moved
<1> QED
  BY <1>3, <1>4 DEF CallsInv

LEMMA MoveKeepsStop ==
  ASSUME \A u \in Threads : Len(stack[u]) \in Nat,
         NEW t \in Threads, NEW S, NEW i \in {1, 2}, Moved(t, i, S),
         running' = running, joinable' \subseteq joinable,
         i = 2 => stack[t][1].at \notin Stopping,
         running \/ joinable = {} \/ StopInProgress
  PROVE  running' \/ joinable' = {} \/ StopInProgress'
<1>1. SUFFICES ASSUME NEW u \in Threads, NEW j \in 1 .. Len(stack[u]), stack[u][j].at \in Stopping
               PROVE  StopInProgress'
  BY DEF StopInProgress
<1>2. CASE u = t
  <2>1. j \in i .. Len(stack[t])
    BY <1>1, <1>2
  <2>2. PICK k \in 1 .. Len(stack'[t]) : stack'[t][k] = stack[t][j]
    BY <2>1 DEF Moved
  <2> QED
    BY <1>1, <1>2, <2>2 DEF StopInProgress
<1>3. CASE u # t
  BY <1>1, <1>3 DEF StopInProgress, Moved, Stays
<1> QED
  BY <1>2, <1>3

LEMMA MoveKeepsRun ==
  ASSUME \A u \in Threads : Len(stack[u]) \in Nat, RunInv,
         NEW t \in Threads, NEW S, NEW i \in {1, 2}, Moved(t, i, S),
         \A f \in S : f.at \notin Starting,
         i = 2 => stack[t][1].at \notin Starting,
         running' => running, UNCHANGED <<created, stop, wpc, unfit>>
  PROVE  RunInv'
<1>1. ASSUME NEW f, Stands(f) PROVE Stands(f)'
  BY <1>1 DEF Stands, Placed, Serving
<1>2. ASSUME NEW k \in 1 .. Len(stack'[Owner])
      PROVE  Stands(stack[Owner][k])'
  <2>1. CASE t # Owner
    <3>1. stack'[Owner] = stack[Owner]
      BY <2>1 DEF Moved, Stays, Threads
    <3>2. Stands(stack[Owner][k])
      BY <3>1 DEF RunInv
    <3> QED
      BY <1>1, <3>1, <3>2
  <2>2. CASE t = Owner /\ stack'[Owner][k] \in S
    BY <2>2 DEF Stands, Starting
  <2>3. ASSUME t = Owner, NEW j \in i .. Len(stack[t]), stack'[t][k] = stack[t][j]
        PROVE  Stands(stack[Owner][k])'
    <3>1. j \in 1 .. Len(stack[t])
      OBVIOUS
    <3>2. Stands(stack[t][j])
      BY <2>3, <3>1 DEF RunInv
    <3> QED
      BY <1>1, <2>3, <3>2 DEF Stands, Placed, Serving
  <2> QED
    BY <2>1, <2>2, <2>3 DEF Moved
<1>3. running' => StartInProgress' \/ Ready'
  <2>1. Ready => Ready'
    BY DEF Ready, Placed, Serving
  <2>2. ASSUME NEW j \in 1 .. Len(stack[Owner]), stack[Owner][j].at \in Starting
        PROVE  StartInProgress'
    <3>1. CASE t # Owner
      BY <2>2, <3>1 DEF StartInProgress, Moved, Stays, Threads
    <3>2. CASE t = Owner
      <4>1. j \in i .. Len(stack[t])
        BY <2>2, <3>2
      <4>2. PICK k \in 1 .. Len(stack'[t]) : stack'[t][k] = stack[t][j]
        BY <4>1 DEF Moved
      <4> QED
        BY <2>2, <3>2, <4>2 DEF StartInProgress
    <3> QED
      BY <3>1, <3>2
  <2> QED
    BY <2>1, <2>2 DEF RunInv, StartInProgress
<1> QED
  BY <1>2, <1>3 DEF RunInv

LEMMA WorkersStay ==
  ASSUME \A w \in Workers : Serving(w) => w \in joinable', UNCHANGED <<wpc, conns>>,
         \A w \in Workers : IF Serving(w) THEN w \in joinable ELSE conns[w] = 0
  PROVE  \A w \in Workers : IF Serving(w)' THEN w \in joinable' ELSE conns'[w] = 0
BY DEF Serving

LEMMA NotStarting ==
  ASSUME Values, StacksInv, NEW t \in Threads, stack[t] # <<>>, stack[t][1].at \notin Starting
  PROVE  ~StartInProgress
BY Views DEF StacksInv, StartInProgress, Threads

-----------------------------------------------------------------------------
(* Stop.                                                                   *)

LEMMA StopRequestKeeps ==
  ASSUME Values, Safe, NEW t \in Threads, StopRequest(t)
  PROVE  Safe'
<1>0. /\ StacksInv /\ CallsInv /\ WorkersInv /\ RunInv /\ ThreadsOutlived
      /\ \A u \in Threads : Len(stack[u]) \in Nat
  BY Views DEF Safe
<1>1. stack[t] # <<>> /\ Len(stack[t]) > 0 /\ stack[t][1].at = "stop.request"
  BY Views DEF StopRequest, Top
<1>2. PICK f \in Frame : f.at = "stop.request" /\ Jump(t, <<f>>)
  <2>1. stack[t][1] \in Frame /\ stack[t][1].w \in 1 .. N + 1 /\ Head(stack[t]) = stack[t][1]
    BY <1>1, Views
  <2>2. created \in 0 .. N
    BY DEF Values
  <2>3. stack[t][1].w <= N
    BY <2>1, <2>2, LifecycleAssumption DEF StopRequest, Index
  <2> QED
    BY <1>1, <2>1, <2>3, FrameTypes DEF StopRequest, Advance
<1>3. Replaces(t, f) /\ Moved(t, 2, {f})
  BY <1>0, <1>1, <1>2, Moves, JumpMoves
<1>4. UNCHANGED <<running, joinable, created, wpc, conns, unfit, undefined>>
  BY DEF StopRequest, serverVars
<1>5. ~running /\ ~StartInProgress
  BY <1>0, <1>1, NotStarting DEF CallsInv, Knows, Stopping, Starting
<1>6. StacksInv'
  BY <1>0, <1>1, <1>2, <1>3, ReplaceKeepsStacks DEF Starting
<1>7. CallsInv'
  <2>1. Knows(f)'
    BY <1>2, <1>4, <1>5 DEF Knows, Starting
  <2>2. stack'[t][1].at \notin Clearing
    BY <1>2, <1>3 DEF Replaces, Clearing
  <2> QED
    BY <1>0, <1>3, <1>4, <2>1, <2>2, MoveKeepsCalls
<1>8. WorkersInv'
  <2>1. StopInProgress'
    BY <1>0, <1>1, <1>2, <1>3 DEF StopInProgress, Replaces, Stopping
  <2> QED
    BY <1>0, <1>4, <2>1, WorkersStay DEF WorkersInv
<1>9. RunInv'
  <2>1. ~StartInProgress' /\ ~running'
    BY <1>0, <1>2, <1>3, <1>4, <1>5 DEF StartInProgress, Replaces, Stays, Starting, Threads
  <2> QED
    BY <2>1 DEF RunInv, Stands, StartInProgress, Starting
<1>10. ThreadsOutlived'
  BY <1>0, <1>4 DEF ThreadsOutlived
<1> QED
  BY <1>6, <1>7, <1>8, <1>9, <1>10 DEF Safe

LEMMA StopWaitsKeeps ==
  ASSUME Values, Safe, NEW t \in Threads, StopWaits(t)
  PROVE  Safe'
<1>0. /\ StacksInv /\ CallsInv /\ WorkersInv /\ RunInv /\ ThreadsOutlived
      /\ \A u \in Threads : Len(stack[u]) \in Nat
  BY Views DEF Safe
<1>1. stack[t] # <<>> /\ Len(stack[t]) > 0 /\ stack[t][1].at = "stop.request"
  BY Views DEF StopWaits, Top
<1>2. PICK f \in Frame, g \in Frame :
        f.at = "wait.lock" /\ g.at = "stop.clear" /\ Jump(t, <<f, g>>)
  BY FrameTypes DEF StopWaits
<1>3. Calls(t, f, g) /\ Moved(t, 2, {f, g})
  BY <1>0, <1>1, <1>2, Moves, JumpMoves
<1>4. UNCHANGED <<running, joinable, created, stop, wpc, conns, unfit, undefined>>
  BY DEF StopWaits, serverVars, workerVars
<1>5. ~running
  BY <1>0, <1>1 DEF CallsInv, Knows, Stopping
<1>6. StacksInv'
  BY <1>0, <1>1, <1>2, <1>3, CallKeepsStacks DEF Starting, Clearing
<1>7. CallsInv'
  <2>1. Knows(f)' /\ Knows(g)'
    BY <1>2, <1>4, <1>5 DEF Knows, Starting
  <2>2. stack'[t][1].at \notin Clearing
    BY <1>2, <1>3 DEF Calls, Clearing
  <2> QED
    BY <1>0, <1>3, <1>4, <2>1, <2>2, MoveKeepsCalls
<1>8. WorkersInv'
  <2>1. 2 \in 1 .. Len(stack'[t]) /\ stack'[t][2].at \in Stopping
    BY <1>0, <1>1, <1>2, <1>3 DEF Calls, Stopping
  <2> QED
    BY <1>0, <1>4, <2>1, WorkersStay DEF WorkersInv, StopInProgress
<1>9. RunInv'
  BY <1>0, <1>1, <1>2, <1>3, <1>4, MoveKeepsRun DEF Starting
<1>10. ThreadsOutlived'
  BY <1>0, <1>4 DEF ThreadsOutlived
<1> QED
  BY <1>6, <1>7, <1>8, <1>9, <1>10 DEF Safe

LEMMA StopClearsKeeps ==
  ASSUME Values, Safe, NEW t \in Threads, StopClears(t)
  PROVE  Safe'
<1>0. /\ StacksInv /\ CallsInv /\ WorkersInv /\ RunInv /\ ThreadsOutlived
      /\ \A u \in Threads : Len(stack[u]) \in Nat
  BY Views DEF Safe
<1>1. stack[t] # <<>> /\ Len(stack[t]) > 0 /\ stack[t][1].at = "stop.clear"
  BY Views DEF StopClears, Top
<1>2. Returns(t) /\ Moved(t, 2, {})
  BY <1>0, <1>1, FrameTypes, Moves, JumpMoves DEF StopClears
<1>3. UNCHANGED <<running, created, stop, wpc, conns, unfit>>
  BY DEF StopClears, workerVars
<1>4. joinable = {} /\ joinable' = {}
  BY <1>0, <1>1 DEF CallsInv, Clearing, StopClears
<1>5. StacksInv'
  BY <1>0, <1>1, <1>2, ReturnKeepsStacks
<1>6. CallsInv'
  BY <1>0, <1>2, <1>3, <1>4, MoveKeepsCalls
<1>7. WorkersInv'
  BY <1>0, <1>3, <1>4, WorkersStay DEF WorkersInv
<1>8. RunInv'
  BY <1>0, <1>1, <1>2, <1>3, MoveKeepsRun DEF Starting
<1>9. ThreadsOutlived'
  BY <1>0, <1>4 DEF ThreadsOutlived, StopClears
<1> QED
  BY <1>5, <1>6, <1>7, <1>8, <1>9 DEF Safe

-----------------------------------------------------------------------------
(* Wait.                                                                   *)

LEMMA WaitLockKeeps ==
  ASSUME Values, Safe, NEW t \in Threads, WaitLock(t)
  PROVE  Safe'
<1>0. /\ StacksInv /\ CallsInv /\ WorkersInv /\ RunInv /\ ThreadsOutlived
      /\ \A u \in Threads : Len(stack[u]) \in Nat
  BY Views DEF Safe
<1>1. stack[t] # <<>> /\ Len(stack[t]) > 0 /\ stack[t][1].at = "wait.lock"
  BY Views DEF WaitLock, Top
<1>2. PICK f \in Frame : f.at = "wait.join" /\ f.w = 1 /\ Jump(t, <<f>>)
  BY FrameTypes DEF WaitLock
<1>3. Replaces(t, f) /\ Moved(t, 2, {f})
  BY <1>0, <1>1, <1>2, Moves, JumpMoves
<1>4. UNCHANGED <<running, joinable, created, stop, wpc, conns, unfit, undefined>>
  BY DEF WaitLock, workerVars
<1>5. StacksInv'
  BY <1>0, <1>1, <1>2, <1>3, ReplaceKeepsStacks DEF Starting
<1>6. CallsInv'
  <2>1. Knows(f)'
    BY <1>2, LifecycleAssumption DEF Knows, Starting, Stopping, Workers
  <2>2. stack'[t][1].at \notin Clearing
    BY <1>2, <1>3 DEF Replaces, Clearing
  <2> QED
    BY <1>0, <1>3, <1>4, <2>1, <2>2, MoveKeepsCalls
<1>7. WorkersInv'
  <2>1. running' \/ joinable' = {} \/ StopInProgress'
    BY <1>0, <1>1, <1>3, <1>4, MoveKeepsStop DEF WorkersInv, Stopping
  <2> QED
    BY <1>0, <1>4, <2>1, WorkersStay DEF WorkersInv
<1>8. RunInv'
  BY <1>0, <1>1, <1>2, <1>3, <1>4, MoveKeepsRun DEF Starting
<1>9. ThreadsOutlived'
  BY <1>0, <1>4 DEF ThreadsOutlived
<1> QED
  BY <1>5, <1>6, <1>7, <1>8, <1>9 DEF Safe

LEMMA WaitJoinKeeps ==
  ASSUME Values, Safe, NEW t \in Threads, WaitJoin(t)
  PROVE  Safe'
<1>0. /\ StacksInv /\ CallsInv /\ WorkersInv /\ RunInv /\ ThreadsOutlived
      /\ \A u \in Threads : Len(stack[u]) \in Nat
  BY Views DEF Safe
<1>1. stack[t] # <<>> /\ Len(stack[t]) > 0 /\ stack[t][1].at = "wait.join"
  BY Views DEF WaitJoin, Top
<1>2. PICK w \in 1 .. N + 1 :
        /\ w = stack[t][1].w /\ w <= N
        /\ w \in joinable => wpc[w] = "exited"
        /\ joinable' = joinable \ {w}
  <2>1. stack[t][1].w \in 1 .. N + 1 /\ Head(stack[t]) = stack[t][1]
    BY <1>1, Views
  <2> QED
    BY <2>1 DEF WaitJoin, Index
<1>3. PICK f \in Frame : f.at = "wait.join" /\ f.w = w + 1 /\ Jump(t, <<f>>)
  <2>1. stack[t][1] \in Frame /\ Head(stack[t]) = stack[t][1]
    BY <1>1, Views
  <2> QED
    BY <1>1, <1>2, <2>1, FrameTypes DEF WaitJoin, Advance
<1>4. Replaces(t, f) /\ Moved(t, 2, {f})
  BY <1>0, <1>1, <1>3, Moves, JumpMoves
<1>5. UNCHANGED <<running, created, stop, wpc, conns, unfit, undefined>> /\ joinable' \subseteq joinable
  BY <1>2 DEF WaitJoin, workerVars
<1>6. StacksInv'
  BY <1>0, <1>1, <1>3, <1>4, ReplaceKeepsStacks DEF Starting
<1>7. CallsInv'
  <2>1. \A v \in Workers : v < w => v \notin joinable
    BY <1>0, <1>1, <1>2 DEF CallsInv, Knows
  <2>2. \A v \in Workers : v < w + 1 => v \notin joinable'
    BY <1>2, <2>1, LifecycleAssumption DEF Workers
  <2>3. Knows(f)'
    BY <1>3, <2>2 DEF Knows, Starting, Stopping
  <2>4. stack'[t][1].at \notin Clearing
    BY <1>3, <1>4 DEF Replaces, Clearing
  <2> QED
    BY <1>0, <1>4, <1>5, <2>3, <2>4, MoveKeepsCalls
<1>8. WorkersInv'
  <2>1. running' \/ joinable' = {} \/ StopInProgress'
    BY <1>0, <1>1, <1>4, <1>5, MoveKeepsStop DEF WorkersInv, Stopping
  <2>2. \A v \in Workers : Serving(v) => v \in joinable'
    BY <1>0, <1>2 DEF WorkersInv, Serving
  <2> QED
    BY <1>0, <1>5, <2>1, <2>2, WorkersStay DEF WorkersInv
<1>9. RunInv'
  BY <1>0, <1>1, <1>3, <1>4, <1>5, MoveKeepsRun DEF Starting
<1>10. ThreadsOutlived'
  BY <1>0, <1>5 DEF ThreadsOutlived
<1> QED
  BY <1>6, <1>7, <1>8, <1>9, <1>10 DEF Safe

LEMMA WaitUnlockKeeps ==
  ASSUME Values, Safe, NEW t \in Threads, WaitUnlock(t)
  PROVE  Safe'
<1>0. /\ StacksInv /\ CallsInv /\ WorkersInv /\ RunInv /\ ThreadsOutlived
      /\ \A u \in Threads : Len(stack[u]) \in Nat
  BY Views DEF Safe
<1>1. stack[t] # <<>> /\ Len(stack[t]) > 0 /\ stack[t][1].at = "wait.join"
  BY Views DEF WaitUnlock, Top
<1>2. Returns(t) /\ Moved(t, 2, {})
  BY <1>0, <1>1, FrameTypes, Moves, JumpMoves DEF WaitUnlock
<1>3. UNCHANGED <<running, joinable, created, stop, wpc, conns, unfit, undefined>>
  BY DEF WaitUnlock, workerVars
<1>4. joinable' = {}
  <2>1. stack[t][1].w \in 1 .. N + 1 /\ Head(stack[t]) = stack[t][1]
    BY <1>1, Views
  <2>2. stack[t][1].w > N
    BY <2>1 DEF WaitUnlock, Index
  <2>3. \A w \in Workers : w < stack[t][1].w
    BY <2>1, <2>2, LifecycleAssumption DEF Workers
  <2>4. \A w \in Workers : w \notin joinable
    BY <1>0, <1>1, <2>3 DEF CallsInv, Knows
  <2>5. joinable \subseteq Workers
    BY DEF Values
  <2> QED
    BY <1>3, <2>4, <2>5
<1>5. StacksInv'
  BY <1>0, <1>1, <1>2, ReturnKeepsStacks
<1>6. CallsInv'
  BY <1>0, <1>2, <1>3, <1>4, MoveKeepsCalls
<1>7. WorkersInv'
  BY <1>0, <1>3, <1>4, WorkersStay DEF WorkersInv
<1>8. RunInv'
  BY <1>0, <1>1, <1>2, <1>3, MoveKeepsRun DEF Starting
<1>9. ThreadsOutlived'
  BY <1>0, <1>3 DEF ThreadsOutlived
<1> QED
  BY <1>5, <1>6, <1>7, <1>8, <1>9 DEF Safe

LEMMA NotCalledWhileStarting ==
  ASSUME Values, NEW t \in Threads, MayCall(t)
  PROVE  ~StartInProgress /\ Len(stack[t]) = 0
<1>1. Owner \in Threads /\ DOMAIN stack[Owner] = 1 .. Len(stack[Owner])
  BY Views DEF Threads
<1>2. ~StartInProgress
  BY <1>1 DEF MayCall, Inside, StartInProgress, Starting
<1> QED
  BY <1>2, Views DEF MayCall

LEMMA CallWaitKeeps ==
  ASSUME Values, Safe, NEW t \in Threads, CallWait(t)
  PROVE  Safe'
<1>0. /\ StacksInv /\ CallsInv /\ WorkersInv /\ RunInv /\ ThreadsOutlived
      /\ \A u \in Threads : Len(stack[u]) \in Nat
  BY Views DEF Safe
<1>1. ~StartInProgress /\ Len(stack[t]) = 0
  BY NotCalledWhileStarting DEF CallWait
<1>2. PICK f \in Frame : f.at = "wait.lock" /\ stack' = [stack EXCEPT ![t] = <<f>>]
  BY FrameTypes DEF CallWait
<1>3. Enters(t, f) /\ Moved(t, 1, {f})
  <2>1. DOMAIN stack = Threads
    BY DEF Values
  <2>2. Enters(t, f)
    BY <1>1, <1>2, <2>1 DEF Enters, Stays
  <2> QED
    BY <1>0, <2>2, EnterMoves
<1>4. UNCHANGED <<running, joinable, created, stop, wpc, conns, unfit, undefined>>
  BY DEF CallWait, serverVars, workerVars
<1>5. StacksInv'
  BY <1>0, <1>1, <1>2, <1>3, EnterKeepsStacks
<1>6. CallsInv'
  <2>1. Knows(f)'
    BY <1>2 DEF Knows, Starting, Stopping
  <2>2. stack'[t][1].at \notin Clearing
    BY <1>2, <1>3 DEF Enters, Clearing
  <2> QED
    BY <1>0, <1>3, <1>4, <2>1, <2>2, MoveKeepsCalls
<1>7. WorkersInv'
  <2>1. running' \/ joinable' = {} \/ StopInProgress'
    BY <1>0, <1>3, <1>4, MoveKeepsStop DEF WorkersInv
  <2> QED
    BY <1>0, <1>4, <2>1, WorkersStay DEF WorkersInv
<1>8. RunInv'
  BY <1>0, <1>2, <1>3, <1>4, MoveKeepsRun DEF Starting
<1>9. ThreadsOutlived'
  BY <1>0, <1>4 DEF ThreadsOutlived
<1> QED
  BY <1>5, <1>6, <1>7, <1>8, <1>9 DEF Safe

(* A step that leaves stacks, threads and workers alone keeps everything,  *)
(* if it leaves running_ as it is.                                         *)
LEMMA NothingKeeps ==
  ASSUME Safe, stack' = stack, running' = running,
         UNCHANGED <<joinable, created, stop, wpc, conns, unfit, undefined>>
  PROVE  Safe'
<1>1. StacksInv'
  BY DEF Safe, StacksInv
<1>2. CallsInv'
  BY DEF Safe, CallsInv, Knows
<1>3. WorkersInv'
  BY DEF Safe, WorkersInv, StopInProgress, Serving
<1>4. RunInv'
  BY DEF Safe, RunInv, Stands, StartInProgress, Ready, Placed, Serving
<1>5. ThreadsOutlived'
  BY DEF Safe, ThreadsOutlived
<1> QED
  BY <1>1, <1>2, <1>3, <1>4, <1>5 DEF Safe

LEMMA CallStopKeeps ==
  ASSUME Flags, Values, Safe, NEW t \in Threads, CallStop(t)
  PROVE  Safe'
<1>0. /\ StacksInv /\ CallsInv /\ WorkersInv /\ RunInv /\ ThreadsOutlived
      /\ \A u \in Threads : Len(stack[u]) \in Nat
  BY Views DEF Safe
<1>1. ~StartInProgress /\ (Len(stack[t]) > 0 => stack[t][1].at = "wait.join")
  <2>1. CASE MayCall(t)
    BY <2>1, NotCalledWhileStarting
  <2>2. CASE Interrupted(t)
    <3>1. stack[t] # <<>> /\ stack[t][1].at = "wait.join"
      BY <2>2, Views DEF Interrupted, Top
    <3> QED
      BY <1>0, <3>1, NotStarting DEF Starting
  <2> QED
    BY <2>1, <2>2, Zenon DEF CallStop
<1>2. UNCHANGED <<joinable, created, stop, wpc, conns, unfit, undefined>>
  BY DEF CallStop, workerVars
<1>3. DOMAIN stack = Threads /\ stack[t] \in Seq(Frame) /\ stack = [u \in Threads |-> stack[u]]
  BY DEF Values
<1>4. CASE ~running
  <2>1. running' = running
    BY <1>4, Zenon DEF CallStop, BeginStop, Flags
  <2>2. stack' = [stack EXCEPT ![t] = stack[t]]
    BY <1>4, Zenon DEF CallStop, BeginStop
  <2>3. stack' = stack
    BY <1>3, <2>2
  <2> QED
    BY <1>2, <2>1, <2>3, NothingKeeps
<1>5. CASE running
  <2>1. ~running'
    BY Zenon DEF CallStop, BeginStop
  <2>2. stack' = [stack EXCEPT ![t] = <<At("stop.request")>> \o stack[t]]
    BY <1>5, Zenon DEF CallStop, BeginStop
  <2>3. PICK f \in Frame : f.at = "stop.request" /\ stack' = [stack EXCEPT ![t] = <<f>> \o stack[t]]
    BY <2>2, FrameTypes
  <2>4. Enters(t, f) /\ Moved(t, 1, {f})
    <3>1. Enters(t, f)
      BY <1>3, <2>3, Entered DEF Enters, Stays
    <3> QED
      BY <1>0, <3>1, EnterMoves
  <2>5. StacksInv'
    BY <1>0, <1>1, <2>3, <2>4, EnterKeepsStacks
  <2>6. CallsInv'
    <3>1. Knows(f)'
      BY <2>1, <2>3 DEF Knows, Starting
    <3>2. stack'[t][1].at \notin Clearing
      BY <2>3, <2>4 DEF Enters, Clearing
    <3> QED
      BY <1>0, <1>1, <1>2, <2>1, <2>4, <3>1, <3>2, MoveKeepsCalls
  <2>7. WorkersInv'
    <3>1. 1 \in 1 .. Len(stack'[t]) /\ stack'[t][1].at \in Stopping
      BY <1>0, <2>3, <2>4 DEF Enters, Stopping
    <3> QED
      BY <1>0, <1>2, <3>1, WorkersStay DEF WorkersInv, StopInProgress
  <2>8. RunInv'
    BY <1>0, <1>2, <2>1, <2>3, <2>4, MoveKeepsRun DEF Starting
  <2>9. ThreadsOutlived'
    BY <1>0, <1>2 DEF ThreadsOutlived
  <2> QED
    BY <2>5, <2>6, <2>7, <2>8, <2>9 DEF Safe
<1> QED
  BY <1>4, <1>5

-----------------------------------------------------------------------------
(* ~Server.                                                                *)

LEMMA CallDestroyKeeps ==
  ASSUME Values, Safe, CallDestroy
  PROVE  Safe'
<1>0. /\ StacksInv /\ CallsInv /\ WorkersInv /\ RunInv /\ ThreadsOutlived
      /\ Owner \in Threads /\ Threads = Others \cup {Owner}
  BY DEF Safe, Threads
<1>1. UNCHANGED <<joinable, created, stop, wpc, conns, unfit, undefined>> /\ ~running'
  BY Zenon DEF CallDestroy, BeginStop, workerVars
<1>2. \A u \in Threads : Len(stack[u]) = 0
  BY <1>0, Views DEF CallDestroy, OthersIdle
<1>3. \A u \in Threads \ {Owner} : Len(stack'[u]) = 0
  BY <1>2 DEF CallDestroy, BeginStop, Values
<1>4. PICK f \in Frame, g \in Frame :
        /\ f.at = "stop.request" /\ g.at = "destroy.wait"
        /\ running => Len(stack'[Owner]) = 2 /\ stack'[Owner][1] = f /\ stack'[Owner][2] = g
        /\ ~running => Len(stack'[Owner]) = 1 /\ stack'[Owner][1] = g
  <2>1. DOMAIN stack = Threads
    BY DEF Values
  <2>2. /\ running => stack'[Owner] = <<At("stop.request")>> \o <<At("destroy.wait")>>
        /\ ~running => stack'[Owner] = <<At("destroy.wait")>>
    BY <1>0, <2>1, Zenon DEF CallDestroy, BeginStop
  <2>3. PICK f \in Frame, g \in Frame :
          /\ f.at = "stop.request" /\ g.at = "destroy.wait"
          /\ f = At("stop.request") /\ g = At("destroy.wait")
    BY FrameTypes
  <2>4. <<g>> \in Seq(Frame) /\ Len(<<g>>) = 1 /\ <<g>>[1] = g
    OBVIOUS
  <2>5. LET r == <<f>> \o <<g>> IN Len(r) = 2 /\ r[1] = f /\ r[2] = g
    BY <2>4, Entered
  <2> QED
    BY <2>2, <2>3, <2>4, <2>5
<1>5. \A k \in 1 .. Len(stack'[Owner]) :
        /\ stack'[Owner][k].at \in {"stop.request", "destroy.wait"}
        /\ stack'[Owner][k].at = "stop.request" => k = 1
  BY <1>4
<1>6. StacksInv'
  BY <1>3, <1>5 DEF StacksInv, Starting, Clearing
<1>7. CallsInv'
  BY <1>1, <1>3, <1>5 DEF CallsInv, Knows, Starting, Clearing
<1>8. WorkersInv'
  <2>1. joinable = {} \/ running
    BY <1>0, <1>2 DEF WorkersInv, StopInProgress
  <2>2. running => StopInProgress'
    <3>1. running => 1 \in 1 .. Len(stack'[Owner]) /\ stack'[Owner][1].at \in Stopping
      BY <1>4 DEF Stopping
    <3> QED
      BY <1>0, <3>1 DEF StopInProgress
  <2> QED
    BY <1>0, <1>1, <2>1, <2>2, WorkersStay DEF WorkersInv
<1>9. RunInv'
  BY <1>1, <1>5 DEF RunInv, Stands
<1>10. ThreadsOutlived'
  BY <1>0, <1>1 DEF ThreadsOutlived
<1> QED
  BY <1>6, <1>7, <1>8, <1>9, <1>10 DEF Safe

LEMMA DestroyWaitsKeeps ==
  ASSUME Values, Safe, DestroyWaits
  PROVE  Safe'
<1>0. /\ StacksInv /\ CallsInv /\ WorkersInv /\ RunInv /\ ThreadsOutlived
      /\ \A u \in Threads : Len(stack[u]) \in Nat
      /\ Owner \in Threads
  BY Views DEF Safe, Threads
<1>1. stack[Owner] # <<>> /\ Len(stack[Owner]) > 0 /\ stack[Owner][1].at = "destroy.wait"
  BY <1>0, Views DEF DestroyWaits, Top
<1>2. PICK f \in Frame, g \in Frame :
        f.at = "wait.lock" /\ g.at = "destroy.free" /\ Jump(Owner, <<f, g>>)
  BY FrameTypes DEF DestroyWaits
<1>3. Calls(Owner, f, g) /\ Moved(Owner, 2, {f, g})
  BY <1>0, <1>1, <1>2, Moves, JumpMoves
<1>4. UNCHANGED <<running, joinable, created, stop, wpc, conns, unfit, undefined>>
  BY DEF DestroyWaits, serverVars, workerVars
<1>5. ~running
  BY <1>0, <1>1 DEF CallsInv, Knows
<1>6. StacksInv'
  BY <1>0, <1>1, <1>2, <1>3, CallKeepsStacks DEF Starting, Clearing
<1>7. CallsInv'
  <2>1. Knows(f)' /\ Knows(g)'
    BY <1>2, <1>4, <1>5 DEF Knows, Starting, Stopping
  <2>2. stack'[Owner][1].at \notin Clearing
    BY <1>2, <1>3 DEF Calls, Clearing
  <2> QED
    BY <1>0, <1>3, <1>4, <2>1, <2>2, MoveKeepsCalls
<1>8. WorkersInv'
  <2>1. running' \/ joinable' = {} \/ StopInProgress'
    BY <1>0, <1>1, <1>3, <1>4, MoveKeepsStop DEF WorkersInv, Stopping
  <2> QED
    BY <1>0, <1>4, <2>1, WorkersStay DEF WorkersInv
<1>9. RunInv'
  BY <1>0, <1>1, <1>2, <1>3, <1>4, MoveKeepsRun DEF Starting
<1>10. ThreadsOutlived'
  BY <1>0, <1>4 DEF ThreadsOutlived
<1> QED
  BY <1>6, <1>7, <1>8, <1>9, <1>10 DEF Safe

LEMMA DestroyFreesKeeps ==
  ASSUME Values, Safe, DestroyFrees
  PROVE  Safe'
<1>0. /\ StacksInv /\ CallsInv /\ WorkersInv /\ RunInv /\ ThreadsOutlived
      /\ \A u \in Threads : Len(stack[u]) \in Nat
      /\ Owner \in Threads
  BY Views DEF Safe, Threads
<1>1. stack[Owner] # <<>> /\ Len(stack[Owner]) > 0 /\ stack[Owner][1].at = "destroy.free"
  BY <1>0, Views DEF DestroyFrees, Top
<1>2. Returns(Owner) /\ Moved(Owner, 2, {})
  BY <1>0, <1>1, FrameTypes, Moves, JumpMoves DEF DestroyFrees
<1>3. UNCHANGED <<running, joinable, stop, wpc, conns, unfit>>
  BY DEF DestroyFrees, workerVars
<1>4. joinable = {} /\ ~running
  BY <1>0, <1>1 DEF CallsInv, Knows, Clearing
<1>5. StacksInv'
  BY <1>0, <1>1, <1>2, ReturnKeepsStacks
<1>6. CallsInv'
  BY <1>0, <1>2, <1>3, <1>4, MoveKeepsCalls
<1>7. WorkersInv'
  BY <1>0, <1>3, <1>4, WorkersStay DEF WorkersInv
<1>8. RunInv'
  <2>1. ~StartInProgress
    BY <1>0, <1>1, NotStarting DEF Starting
  <2>2. ASSUME NEW k \in 1 .. Len(stack'[Owner]) PROVE stack'[Owner][k].at \notin Starting
    <3>1. PICK j \in 2 .. Len(stack[Owner]) : stack'[Owner][k] = stack[Owner][j]
      BY <1>2 DEF Moved
    <3>2. j \in 1 .. Len(stack[Owner])
      BY <1>0, <3>1
    <3> QED
      BY <2>1, <3>1, <3>2 DEF StartInProgress
  <2>3. ~StartInProgress'
    BY <2>2 DEF StartInProgress
  <2> QED
    BY <1>3, <1>4, <2>2, <2>3 DEF RunInv, Stands, StartInProgress, Starting
<1>9. ThreadsOutlived'
  BY <1>0, <1>4 DEF ThreadsOutlived, WorkersInv, DestroyFrees, ClearWorkers
<1> QED
  BY <1>5, <1>6, <1>7, <1>8, <1>9 DEF Safe

-----------------------------------------------------------------------------
(* Run.                                                                    *)

WorkersRight == \A w \in Workers : IF Serving(w) THEN w \in joinable ELSE conns[w] = 0

LEMMA Alone ==
  ASSUME Values, Safe, stack[Owner] # <<>>, stack[Owner][1].at \in Starting
  PROVE  /\ running /\ Stands(stack[Owner][1])
         /\ stack[Owner][1].at \in {"run.tls", "run.setup"} => joinable = {}
         /\ \A f \in Frame : Jump(Owner, <<f>>) =>
              /\ Len(stack'[Owner]) = 1 /\ stack'[Owner][1] = f
              /\ \A u \in Others : Len(stack'[u]) = 0
         /\ Jump(Owner, <<>>) => \A u \in Threads : Len(stack'[u]) = 0
<1>1. /\ Owner \in Threads /\ Owner \notin Others /\ Threads = Others \cup {Owner}
      /\ \A u \in Threads : Len(stack[u]) \in Nat
  BY Views, LifecycleAssumption DEF Threads
<1>2. Len(stack[Owner]) = 1 /\ \A u \in Others : Len(stack[u]) = 0
  BY <1>1, Views DEF Safe, StacksInv
<1>3. /\ running /\ Stands(stack[Owner][1])
      /\ stack[Owner][1].at \in {"run.tls", "run.setup"} => joinable = {}
  BY <1>1, <1>2 DEF Safe, CallsInv, RunInv, Knows
<1>4. ASSUME NEW f \in Frame, Jump(Owner, <<f>>) PROVE Replaces(Owner, f)
  BY <1>1, <1>4, Moves
<1>5. ASSUME Jump(Owner, <<>>) PROVE Returns(Owner)
  BY <1>1, <1>5, FrameTypes, Moves
<1> QED
  BY <1>1, <1>2, <1>3, <1>4, <1>5 DEF Replaces, Returns, Stays

LEMMA StartingIsSafe ==
  ASSUME NEW f, f.at \in Starting,
         Len(stack'[Owner]) = 1, stack'[Owner][1] = f, \A u \in Others : Len(stack'[u]) = 0,
         running', f.at \in {"run.tls", "run.setup"} => joinable' = {}, Stands(f)',
         WorkersRight', ThreadsOutlived'
  PROVE  Safe'
<1>1. Threads = Others \cup {Owner}
  BY DEF Threads
<1>2. StacksInv'
  BY <1>1 DEF StacksInv, Starting, Clearing
<1>3. CallsInv'
  BY <1>1 DEF CallsInv, Knows, Starting, Stopping, Clearing
<1>4. WorkersInv'
  BY DEF WorkersInv, WorkersRight
<1>5. RunInv'
  BY DEF RunInv, Stands, StartInProgress
<1> QED
  BY <1>2, <1>3, <1>4, <1>5 DEF Safe

LEMMA ReturnedIsSafe ==
  ASSUME \A u \in Threads : Len(stack'[u]) = 0,
         running' => Ready', running' \/ joinable' = {},
         WorkersRight', ThreadsOutlived'
  PROVE  Safe'
<1>1. StacksInv'
  BY DEF StacksInv
<1>2. CallsInv'
  BY DEF CallsInv
<1>3. WorkersInv'
  BY DEF WorkersInv, WorkersRight
<1>4. RunInv'
  BY DEF RunInv, Threads
<1> QED
  BY <1>1, <1>2, <1>3, <1>4 DEF Safe

LEMMA CallRunKeeps ==
  ASSUME Flags, Values, Safe, CallRun
  PROVE  Safe'
<1>1. UNCHANGED <<joinable, created, stop, wpc, conns, unfit, undefined>> /\ running'
  BY Zenon DEF CallRun, workerVars
<1>2. CASE running
  <2>1. stack' = stack /\ running' = running
    BY <1>2, Zenon DEF CallRun, Flags
  <2> QED
    BY <1>1, <2>1, NothingKeeps
<1>3. CASE ~running
  <2>1. Owner \in Threads /\ Owner \notin Others /\ Threads = Others \cup {Owner}
    BY LifecycleAssumption DEF Threads
  <2>2. \A u \in Threads : Len(stack[u]) = 0
    BY <2>1, Views DEF CallRun, OthersIdle
  <2>3. joinable = {}
    BY <1>3, <2>2 DEF Safe, WorkersInv, StopInProgress
  <2>4. PICK f \in Frame : f.at = "run.tls" /\ stack' = [stack EXCEPT ![Owner] = <<f>>]
    <3>1. stack' = [stack EXCEPT ![Owner] = <<At("run.tls")>>]
      BY <1>3, Zenon DEF CallRun
    <3> QED
      BY <3>1, FrameTypes
  <2>5. /\ Len(stack'[Owner]) = 1 /\ stack'[Owner][1] = f
        /\ \A u \in Others : Len(stack'[u]) = 0
    BY <2>1, <2>2, <2>4 DEF Values
  <2>6. WorkersRight'
    BY <1>1 DEF Safe, WorkersInv, WorkersRight, Serving
  <2>7. ThreadsOutlived'
    BY <1>1 DEF Safe, ThreadsOutlived
  <2>8. Stands(f)'
    BY <2>4 DEF Stands
  <2> QED
    BY <1>1, <2>3, <2>4, <2>5, <2>6, <2>7, <2>8, StartingIsSafe DEF Starting
<1> QED
  BY <1>2, <1>3

LEMMA OwnerStepKeeps ==
  ASSUME Values, Safe, OwnerStep
  PROVE  Safe'
<1>0. /\ Owner \in Threads /\ created \in 0 .. N /\ joinable \subseteq Workers
      /\ N \in Nat \ {0} /\ Workers = 1 .. N
      /\ stop \in [Workers -> BOOLEAN] /\ DOMAIN wpc = Workers
  BY LifecycleAssumption DEF Threads, Values, Workers
<1>1. WorkersRight /\ ThreadsOutlived
  BY DEF Safe, WorkersInv, WorkersRight
<1>2. ASSUME NEW where \in Starting, Top(Owner, where)
      PROVE  /\ stack[Owner] # <<>> /\ stack[Owner][1].at = where
             /\ Head(stack[Owner]) = stack[Owner][1]
             /\ stack[Owner][1] \in Frame /\ Index(Owner) = stack[Owner][1].w
             /\ Index(Owner) \in 1 .. N + 1
             /\ running /\ Stands(stack[Owner][1])
             /\ where \in {"run.tls", "run.setup"} => joinable = {}
             /\ \A f \in Frame : Jump(Owner, <<f>>) =>
                  /\ Len(stack'[Owner]) = 1 /\ stack'[Owner][1] = f
                  /\ \A u \in Others : Len(stack'[u]) = 0
             /\ Jump(Owner, <<>>) => \A u \in Threads : Len(stack'[u]) = 0
  <2>1. /\ stack[Owner] # <<>> /\ stack[Owner][1].at = where
        /\ Head(stack[Owner]) = stack[Owner][1]
        /\ stack[Owner][1] \in Frame /\ Index(Owner) = stack[Owner][1].w
        /\ Index(Owner) \in 1 .. N + 1
    BY <1>0, <1>2, Views DEF Top, Index
  <2> QED
    BY <1>2, <2>1, Alone
<1>3. CASE RunTlsFails
  <2>1. Top(Owner, "run.tls") /\ Jump(Owner, <<>>) /\ ~running'
        /\ UNCHANGED <<created, joinable, stop, wpc, conns, unfit, undefined>>
    BY <1>3, Zenon DEF RunTlsFails, workerVars
  <2>2. joinable = {} /\ \A u \in Threads : Len(stack'[u]) = 0
    BY <1>2, <2>1 DEF Starting
  <2>3. WorkersRight' /\ ThreadsOutlived'
    BY <1>1, <2>1 DEF WorkersRight, Serving, ThreadsOutlived
  <2> QED
    BY <2>1, <2>2, <2>3, ReturnedIsSafe
<1>4. CASE RunClears
  <2>1. /\ Top(Owner, "run.tls") /\ Jump(Owner, <<At("run.setup")>>)
        /\ undefined' = ClearWorkers /\ created' = 0
        /\ stop' = [w \in Workers |-> FALSE] /\ wpc' = [w \in Workers |-> "none"]
        /\ conns' = [w \in Workers |-> 0] /\ running' = running /\ joinable' = joinable
    BY <1>4, Zenon DEF RunClears
  <2>2. joinable = {} /\ running
    BY <1>2, <2>1 DEF Starting
  <2>3. PICK f \in Frame : f.at = "run.setup" /\ f.w = 1 /\ Jump(Owner, <<f>>)
    BY <2>1, FrameTypes
  <2>4. /\ Len(stack'[Owner]) = 1 /\ stack'[Owner][1] = f
        /\ \A u \in Others : Len(stack'[u]) = 0
    BY <1>2, <2>1, <2>3 DEF Starting
  <2>5. Stands(f)'
    BY <2>1, <2>3 DEF Stands
  <2>6. WorkersRight'
    BY <2>1 DEF WorkersRight, Serving
  <2>7. ThreadsOutlived'
    BY <1>1, <2>1, <2>2 DEF ThreadsOutlived, ClearWorkers, WorkersRight
  <2> QED
    BY <2>1, <2>2, <2>3, <2>4, <2>5, <2>6, <2>7, StartingIsSafe DEF Starting
<1>5. CASE RunListens
  <2>1. /\ Top(Owner, "run.setup") /\ Index(Owner) <= N /\ created' = Index(Owner)
        /\ Jump(Owner, <<Onward(Head(stack[Owner]))>>)
        /\ UNCHANGED <<running, joinable, stop, wpc, conns, undefined>>
    BY <1>5, Zenon DEF RunListens, Advance
  <2>0. /\ Head(stack[Owner]) \in Frame /\ Head(stack[Owner]).at = "run.setup"
        /\ Head(stack[Owner]).w = Index(Owner)
    BY <1>2, <2>1 DEF Starting, Top, Index
  <2>2. PICK f \in Frame : f.at = "run.setup" /\ f.w = Index(Owner) + 1 /\ Jump(Owner, <<f>>)
    BY <2>0, <2>1, FrameTypes
  <2>3. /\ joinable = {} /\ running
        /\ Len(stack'[Owner]) = 1 /\ stack'[Owner][1] = f
        /\ \A u \in Others : Len(stack'[u]) = 0
    BY <1>2, <2>1, <2>2 DEF Starting
  <2>4. Stands(f)'
    BY <1>2, <2>1, <2>2 DEF Stands, Starting
  <2>5. WorkersRight' /\ ThreadsOutlived'
    BY <1>1, <2>1 DEF WorkersRight, Serving, ThreadsOutlived
  <2> QED
    BY <2>1, <2>2, <2>3, <2>4, <2>5, StartingIsSafe DEF Starting
<1>6. CASE RunFails
  <2>1. /\ Top(Owner, "run.setup") /\ Jump(Owner, <<>>) /\ ~running'
        /\ undefined' = ClearWorkers /\ UNCHANGED <<joinable, stop, wpc, conns, unfit>>
    BY <1>6, Zenon DEF RunFails, workerVars
  <2>2. joinable = {} /\ \A u \in Threads : Len(stack'[u]) = 0
    BY <1>2, <2>1 DEF Starting
  <2>3. WorkersRight'
    BY <1>1, <2>1 DEF WorkersRight, Serving
  <2>4. ThreadsOutlived'
    BY <1>1, <2>1, <2>2 DEF ThreadsOutlived, ClearWorkers, WorkersRight
  <2> QED
    BY <2>1, <2>2, <2>3, <2>4, ReturnedIsSafe
<1>7. CASE RunStarts
  <2>1. /\ Top(Owner, "run.setup") /\ Index(Owner) > N /\ Jump(Owner, <<At("run.start")>>)
        /\ UNCHANGED <<running, created, joinable, stop, wpc, conns, unfit, undefined>>
    BY <1>7, Zenon DEF RunStarts, serverVars, workerVars
  <2>2. PICK f \in Frame : f.at = "run.start" /\ f.w = 1 /\ Jump(Owner, <<f>>)
    BY <2>1, FrameTypes
  <2>3. /\ running /\ Len(stack'[Owner]) = 1 /\ stack'[Owner][1] = f
        /\ \A u \in Others : Len(stack'[u]) = 0
    BY <1>2, <2>1, <2>2 DEF Starting
  <2>4. Stands(f)'
    <3>1. created = N /\ \A w \in Workers : ~stop[w]
      BY <1>0, <1>2, <2>1 DEF Stands, Starting
    <3>2. \A w \in Workers : ~(w < 1)
      BY <1>0
    <3> QED
      BY <2>1, <2>2, <3>1, <3>2 DEF Stands
  <2>5. WorkersRight' /\ ThreadsOutlived'
    BY <1>1, <2>1 DEF WorkersRight, Serving, ThreadsOutlived
  <2> QED
    BY <2>1, <2>2, <2>3, <2>4, <2>5, StartingIsSafe DEF Starting
<1>8. CASE RunStart
  <2>1. /\ Top(Owner, "run.start") /\ Index(Owner) <= N
        /\ wpc' = [wpc EXCEPT ![Index(Owner)] = "check"]
        /\ joinable' = joinable \cup {Index(Owner)}
        /\ Jump(Owner, <<Onward(Head(stack[Owner]))>>)
        /\ UNCHANGED <<running, created, stop, conns, unfit, undefined>>
    BY <1>8, Zenon DEF RunStart, Advance
  <2>0. /\ Head(stack[Owner]) \in Frame /\ Head(stack[Owner]).at = "run.start"
        /\ Head(stack[Owner]).w = Index(Owner)
    BY <1>2, <2>1 DEF Starting, Top, Index
  <2>2. PICK f \in Frame : f.at = "run.start" /\ f.w = Index(Owner) + 1 /\ Jump(Owner, <<f>>)
    BY <2>0, <2>1, FrameTypes
  <2>3. /\ running /\ Len(stack'[Owner]) = 1 /\ stack'[Owner][1] = f
        /\ \A u \in Others : Len(stack'[u]) = 0
    BY <1>2, <2>1, <2>2 DEF Starting
  <2>4. Index(Owner) \in Workers
    BY <1>0, <1>2, <2>1 DEF Starting
  <2>5. \A w \in Workers : wpc'[w] = IF w = Index(Owner) THEN "check" ELSE wpc[w]
    BY <1>0, <2>1
  <2>6. Stands(f)'
    <3>1. created = N /\ \A w \in Workers : ~stop[w] /\ (w < Index(Owner) => Placed(w))
      BY <1>2, <2>1 DEF Stands, Starting
    <3>2. \A w \in Workers : w < Index(Owner) + 1 => w < Index(Owner) \/ w = Index(Owner)
      BY <1>0, <2>4
    <3>3. \A w \in Workers : w < Index(Owner) + 1 => Placed(w)'
      BY <2>1, <2>5, <3>1, <3>2 DEF Placed, Serving
    <3> QED
      BY <2>1, <2>2, <3>1, <3>3 DEF Stands
  <2>7. WorkersRight'
    BY <1>1, <2>1, <2>5 DEF WorkersRight, Serving
  <2>8. ThreadsOutlived'
    BY <1>1, <2>1 DEF ThreadsOutlived
  <2> QED
    BY <2>1, <2>2, <2>3, <2>6, <2>7, <2>8, StartingIsSafe DEF Starting
<1>9. CASE RunReturns
  <2>1. /\ Top(Owner, "run.start") /\ Index(Owner) > N /\ Jump(Owner, <<>>)
        /\ UNCHANGED <<running, created, joinable, stop, wpc, conns, unfit, undefined>>
    BY <1>9, Zenon DEF RunReturns, serverVars, workerVars
  <2>2. running /\ \A u \in Threads : Len(stack'[u]) = 0
    BY <1>2, <2>1 DEF Starting
  <2>3. Ready'
    <3>1. created = N /\ \A w \in Workers : ~stop[w] /\ (w < Index(Owner) => Placed(w))
      BY <1>2, <2>1 DEF Stands, Starting
    <3>2. \A w \in Workers : w < Index(Owner)
      BY <1>0, <1>2, <2>1 DEF Starting
    <3> QED
      BY <2>1, <3>1, <3>2 DEF Ready, Placed, Serving
  <2>4. WorkersRight' /\ ThreadsOutlived'
    BY <1>1, <2>1 DEF WorkersRight, Serving, ThreadsOutlived
  <2> QED
    BY <2>1, <2>2, <2>3, <2>4, ReturnedIsSafe
<1>10. CASE RunThrows
  <2>1. /\ Top(Owner, "run.start") /\ Index(Owner) <= N /\ Jump(Owner, <<>>)
        /\ unfit' = unfit \cup (Index(Owner) .. N)
        /\ UNCHANGED <<running, created, joinable, stop, wpc, conns, undefined>>
    BY <1>10, Zenon DEF RunThrows, serverVars
  <2>2. running /\ \A u \in Threads : Len(stack'[u]) = 0
    BY <1>2, <2>1 DEF Starting
  <2>3. Ready'
    <3>1. created = N /\ \A w \in Workers : ~stop[w] /\ (w < Index(Owner) => Placed(w))
      BY <1>2, <2>1 DEF Stands, Starting
    <3>2. \A w \in Workers : w < Index(Owner) \/ w \in Index(Owner) .. N
      BY <1>0, <1>2, <2>1 DEF Starting
    <3> QED
      BY <2>1, <3>1, <3>2 DEF Ready, Placed, Serving
  <2>4. WorkersRight' /\ ThreadsOutlived'
    BY <1>1, <2>1 DEF WorkersRight, Serving, ThreadsOutlived
  <2> QED
    BY <2>1, <2>2, <2>3, <2>4, ReturnedIsSafe
<1> QED
  BY <1>3, <1>4, <1>5, <1>6, <1>7, <1>8, <1>9, <1>10, DestroyWaitsKeeps, DestroyFreesKeeps DEF OwnerStep

-----------------------------------------------------------------------------
(* Worker::run.                                                            *)

LEMMA WorkerStepKeeps ==
  ASSUME Values, Safe, NEW w \in Workers, WorkerStep(w)
  PROVE  Safe'
<1>0. StacksInv /\ CallsInv /\ WorkersInv /\ RunInv /\ ThreadsOutlived
  BY DEF Safe
<1>1. UNCHANGED <<running, joinable, created, stop, unfit, stack, undefined>>
  BY DEF WorkerStep, WorkerCheck, WorkerPolls, WorkerLeaves, serverVars
<1>2. DOMAIN wpc = Workers /\ DOMAIN conns = Workers
  BY DEF Values
<1>3. /\ wpc[w] \in {"check", "poll"}
      /\ \A v \in Workers \ {w} : wpc'[v] = wpc[v] /\ conns'[v] = conns[v]
      /\ wpc'[w] \in {"check", "poll"} \/ ((stop[w] \/ w \in unfit) /\ wpc'[w] = "exited" /\ conns'[w] = 0)
  <2>1. CASE WorkerCheck(w)
    <3>1. wpc[w] = "check" /\ \A v \in Workers \ {w} : wpc'[v] = wpc[v]
      BY <1>2, <2>1 DEF WorkerCheck
    <3>2. \A v \in Workers \ {w} : conns'[v] = conns[v]
      BY <1>2, <2>1 DEF WorkerCheck
    <3>3. CASE stop[w]
      <4>1. wpc' = [wpc EXCEPT ![w] = "exited"] /\ conns' = [conns EXCEPT ![w] = 0]
        BY <2>1, <3>3, Zenon DEF WorkerCheck
      <4> QED
        BY <1>2, <3>1, <3>2, <3>3, <4>1
    <3>4. CASE ~stop[w]
      <4>1. wpc' = [wpc EXCEPT ![w] = "poll"]
        BY <2>1, <3>4, Zenon DEF WorkerCheck
      <4>2. wpc'[w] = "poll"
        BY <1>2, <4>1
      <4> QED
        BY <3>1, <3>2, <4>2
    <3> QED
      BY <3>3, <3>4
  <2>2. CASE WorkerPolls(w)
    <3>1. /\ wpc[w] = "poll" /\ wpc' = [wpc EXCEPT ![w] = "check"]
          /\ \E n \in 0 .. MaxConns : conns' = [conns EXCEPT ![w] = n]
      BY <2>2, Zenon DEF WorkerPolls
    <3>2. wpc'[w] = "check" /\ \A v \in Workers \ {w} : wpc'[v] = wpc[v]
      BY <1>2, <3>1
    <3>3. \A v \in Workers \ {w} : conns'[v] = conns[v]
      BY <1>2, <3>1
    <3> QED
      BY <3>1, <3>2, <3>3
  <2>3. CASE WorkerLeaves(w)
    <3>1. /\ wpc[w] = "poll" /\ w \in unfit /\ wpc' = [wpc EXCEPT ![w] = "exited"]
          /\ conns' = [conns EXCEPT ![w] = 0]
      BY <2>3, Zenon DEF WorkerLeaves
    <3> QED
      BY <1>2, <3>1
  <2> QED
    BY <2>1, <2>2, <2>3 DEF WorkerStep
<1>4. StacksInv'
  BY <1>0, <1>1 DEF StacksInv
<1>5. CallsInv'
  BY <1>0, <1>1 DEF CallsInv, Knows
<1>6. WorkersInv'
  <2>1. StopInProgress' <=> StopInProgress
    BY <1>1 DEF StopInProgress
  <2> QED
    BY <1>0, <1>1, <1>3, <2>1 DEF WorkersInv, Serving
<1>7. RunInv'
  <2>1. (\A v \in Workers : ~stop[v]) => \A v \in Workers : Placed(v) => Placed(v)'
    BY <1>1, <1>3 DEF Placed, Serving
  <2>2. ASSUME NEW f, Stands(f) PROVE Stands(f)'
    BY <1>1, <1>3, <2>1, <2>2 DEF Stands
  <2>3. Ready => Ready'
    BY <1>1, <2>1 DEF Ready
  <2> QED
    BY <1>0, <1>1, <2>2, <2>3 DEF RunInv, StartInProgress
<1>8. ThreadsOutlived'
  BY <1>0, <1>1 DEF ThreadsOutlived
<1> QED
  BY <1>4, <1>5, <1>6, <1>7, <1>8 DEF Safe

-----------------------------------------------------------------------------
(* The theorems.                                                           *)

LEMMA SafeAtFirst == Init => Safe
<1> SUFFICES ASSUME Init PROVE Safe
  OBVIOUS
<1>1. \A t \in Threads : Len(stack[t]) = 0
  BY DEF Init
<1>2. ~running /\ Owner \in Threads
  BY Zenon DEF Init, Threads
<1>3. StacksInv /\ CallsInv /\ RunInv
  BY <1>1, <1>2 DEF StacksInv, CallsInv, RunInv
<1>4. WorkersInv
  BY DEF Init, WorkersInv, Serving
<1>5. ThreadsOutlived
  BY DEF Init, ThreadsOutlived
<1> QED
  BY <1>3, <1>4, <1>5 DEF Safe

LEMMA SafeKept ==
  ASSUME Flags, Values, Safe, [Next]_vars
  PROVE  Safe'
<1>1. CASE UNCHANGED vars
  BY <1>1, NothingKeeps DEF vars, serverVars, workerVars
<1>2. ASSUME NEW t \in Threads, Beginning(t) PROVE Safe'
  BY <1>2, CallWaitKeeps, CallStopKeeps DEF Beginning
<1>3. ASSUME NEW t \in Threads, CallStep(t) PROVE Safe'
  BY <1>3, StopRequestKeeps, StopWaitsKeeps, StopClearsKeeps, WaitLockKeeps, WaitJoinKeeps,
     WaitUnlockKeeps DEF CallStep
<1> QED
  BY <1>1, <1>2, <1>3, StepKinds, CallRunKeeps, CallDestroyKeeps, OwnerStepKeeps, WorkerStepKeeps

LEMMA Invariant == Spec => [](Flags /\ Values /\ Safe)
<1>1. Init => Flags
  BY Zenon DEF Init, Flags
<1>2. Init => Values
  BY LifecycleAssumption DEF Init, Values
<1> QED
  BY <1>1, <1>2, SafeAtFirst, FlagsKept, ValuesKept, SafeKept, PTL DEF Spec

(* No worker is destroyed while its thread runs, and no thread object      *)
(* before its thread is joined, however Run, Stop, Wait and ~Server of any *)
(* number of threads follow one another.                                   *)
THEOREM ThreadsAreOutlived == Spec => []ThreadsOutlived
<1>1. Safe => ThreadsOutlived
  BY DEF Safe
<1> QED
  BY <1>1, Invariant, PTL

(* running() agrees with the workers whenever no Run and no Stop is in     *)
(* progress: every worker that could be started and can wait serves, or    *)
(* none does and no connection is open.                                    *)
THEOREM RunningAgreesAlways == Spec => []RunningAgrees
<1>1. ASSUME Flags, Values, Safe PROVE RunningAgrees
  <2> SUFFICES ASSUME \A t \in Threads : ~Inside(t, Changing)
               PROVE  IF running THEN created = N /\ \A w \in Workers :
                                                       ~stop[w] /\ (Serving(w) \/ w \in unfit)
                                 ELSE \A w \in Workers : ~Serving(w) /\ conns[w] = 0
    BY DEF RunningAgrees
  <2>1. \A t \in Threads : \A k \in 1 .. Len(stack[t]) : stack[t][k].at \notin Changing
    BY <1>1, Views DEF Inside
  <2>2. ~StopInProgress /\ ~StartInProgress
    BY <2>1 DEF StopInProgress, StartInProgress, Changing, Starting, Stopping, Threads
  <2>3. running => Ready
    BY <1>1, <2>2 DEF Safe, RunInv
  <2>4. ~running => joinable = {}
    BY <1>1, <2>2 DEF Safe, WorkersInv
  <2>5. ~running => \A w \in Workers : ~Serving(w) /\ conns[w] = 0
    BY <1>1, <2>4 DEF Safe, WorkersInv
  <2> QED
    BY <2>3, <2>5 DEF Ready, Placed
<1> QED
  BY <1>1, Invariant, PTL
=============================================================================
