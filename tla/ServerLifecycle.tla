---------------------------- MODULE ServerLifecycle ----------------------------
(***************************************************************************)
(* Server::Run, Stop, Wait and ~Server, called by several threads, and the *)
(* worker threads they start and join.  A call is a stack of frames, since *)
(* Stop calls Wait, ~Server calls both, and a signal handler may call Stop *)
(* on top of a thread that is inside Wait.                                 *)
(*                                                                         *)
(* What C++ leaves undefined is recorded in `undefined' when it happens:   *)
(* destroying a worker whose thread still runs, or a thread that may still *)
(* be joined, or changing a vector while another thread walks it.  Run and *)
(* ~Server are not called while another thread's call is in progress, nor  *)
(* the other way round: no C++ object allows that of its destructor.       *)
(***************************************************************************)
EXTENDS Naturals, Sequences

CONSTANTS
  Owner,          (* the thread that runs and destroys the server *)
  Others,         (* threads that may call Stop and Wait *)
  N,              (* number of workers *)
  MaxRuns,        (* bound: calls of Run *)
  MaxStops,       (* bound: calls of Stop *)
  MaxConns,       (* bound: connections a worker accepts *)
  SignalStops     (* a signal handler may call Stop on a thread inside Wait *)

ASSUME LifecycleAssumption ==
  /\ Owner \notin Others
  /\ N \in Nat \ {0} /\ MaxRuns \in Nat /\ MaxStops \in Nat /\ MaxConns \in Nat
  /\ SignalStops \in BOOLEAN

Threads == Others \cup {Owner}
Workers == 1 .. N

VARIABLES
  \* Server
  running,        (* running_ *)
  created,        (* workers_: workers 1 .. created exist *)
  joinable,       (* threads_: the workers whose thread may be joined *)
  joinMu,         (* who holds join_mu_: a set of at most one thread *)
  destroyed,      (* ~Server has returned *)
  \* each Worker
  stop,           (* stop_ *)
  wpc,            (* "none", "check", "poll" or "exited" *)
  conns,          (* open connections *)
  unfit,          (* workers that have no epoll instance, or no thread *)
  \* calls
  stack,          (* frames of the calls in progress, innermost first *)
  runs, stops,    (* calls so far *)
  \* history
  undefined       (* what went wrong *)

serverVars == <<running, created, joinable, joinMu, destroyed>>
workerVars == <<stop, wpc, conns, unfit>>

vars == <<serverVars, workerVars, stack, runs, stops, undefined>>

(* A frame: the function, where it stands, and its loop index. *)
Frame == [at : {"run.tls", "run.setup", "run.start", "stop.request", "stop.clear",
                "wait.lock", "wait.join", "destroy.wait", "destroy.free"},
          w : 1 .. N + 1]

At(where)       == [at |-> where, w |-> 1]
Top(t, where)   == stack[t] # <<>> /\ Head(stack[t]).at = where
Jump(t, frames) == stack' = [stack EXCEPT ![t] = frames \o Tail(@)]
Onward(frame)   == [at |-> frame.at, w |-> frame.w + 1]
Advance(t)      == Jump(t, <<Onward(Head(stack[t]))>>)
Index(t)        == Head(stack[t]).w

Init ==
  /\ running = FALSE /\ created = 0 /\ joinable = {} /\ joinMu = {} /\ destroyed = FALSE
  /\ stop = [w \in Workers |-> FALSE]
  /\ wpc = [w \in Workers |-> "none"]
  /\ conns = [w \in Workers |-> 0]
  /\ unfit = {}
  /\ stack = [t \in Threads |-> <<>>]
  /\ runs = 0 /\ stops = 0
  /\ undefined = {}

-----------------------------------------------------------------------------
(* Calls.                                                                  *)

OthersIdle == \A t \in Others : stack[t] = <<>>

Inside(t, wheres) == \E k \in DOMAIN stack[t] : stack[t][k].at \in wheres

MayCall(t) ==
  /\ stack[t] = <<>> /\ ~destroyed
  /\ ~Inside(Owner, {"run.tls", "run.setup", "run.start", "destroy.wait", "destroy.free"})

(* Run returns false at once while the server runs. *)
CallRun ==
  /\ stack[Owner] = <<>> /\ ~destroyed /\ runs < MaxRuns
  /\ OthersIdle
  /\ runs' = runs + 1
  /\ running' = TRUE
  /\ IF running THEN UNCHANGED stack
                ELSE stack' = [stack EXCEPT ![Owner] = <<At("run.tls")>>]
  /\ UNCHANGED <<created, joinable, joinMu, destroyed, workerVars, stops, undefined>>

CallWait(t) ==
  /\ MayCall(t)
  /\ stack' = [stack EXCEPT ![t] = <<At("wait.lock")>>]
  /\ UNCHANGED <<serverVars, workerVars, runs, stops, undefined>>

(* Stop returns at once unless this call takes running_ from true to false. *)
BeginStop(t, rest) ==
  /\ running' = FALSE
  /\ stack' = [stack EXCEPT ![t] = IF running THEN <<At("stop.request")>> \o rest ELSE rest]

(* A signal may interrupt a thread inside Wait, and its handler call Stop. *)
Interrupted(t) == SignalStops /\ Top(t, "wait.join")

CallStop(t) ==
  /\ ~Interrupted(t) => MayCall(t)
  /\ stops < MaxStops
  /\ stops' = stops + 1
  /\ BeginStop(t, stack[t])
  /\ UNCHANGED <<created, joinable, joinMu, destroyed, workerVars, runs, undefined>>

(* ~Server: Stop, then Wait, then the members go. *)
CallDestroy ==
  /\ stack[Owner] = <<>> /\ ~destroyed
  /\ OthersIdle
  /\ BeginStop(Owner, <<At("destroy.wait")>>)
  /\ UNCHANGED <<created, joinable, joinMu, destroyed, workerVars, runs, stops, undefined>>

-----------------------------------------------------------------------------
(* Run.                                                                    *)

Serving(w) == wpc[w] \in {"check", "poll"}

(* Destroying workers whose thread still runs is undefined. *)
ClearWorkers == IF \E w \in Workers : Serving(w) THEN undefined \cup {"worker_destroyed"}
                                                 ELSE undefined

(* TLS cannot be set up: the workers of an earlier run stay where they are. *)
RunTlsFails ==
  /\ Top(Owner, "run.tls")
  /\ running' = FALSE
  /\ Jump(Owner, <<>>)
  /\ UNCHANGED <<created, joinable, joinMu, destroyed, workerVars, runs, stops, undefined>>

(* workers_.clear(): new ones are made from here on. *)
RunClears ==
  /\ Top(Owner, "run.tls")
  /\ undefined' = ClearWorkers
  /\ created' = 0
  /\ stop' = [w \in Workers |-> FALSE]
  /\ wpc' = [w \in Workers |-> "none"]
  /\ conns' = [w \in Workers |-> 0]
  /\ unfit' = {}
  /\ Jump(Owner, <<At("run.setup")>>)
  /\ UNCHANGED <<running, joinable, joinMu, destroyed, runs, stops>>

(* setup_listener succeeds for the next worker.  Nothing looks whether the *)
(* worker's EventLoop has got an epoll instance.                           *)
RunListens ==
  /\ Top(Owner, "run.setup") /\ Index(Owner) <= N
  /\ created' = Index(Owner)
  /\ unfit' \in {unfit, unfit \cup {Index(Owner)}}
  /\ Advance(Owner)
  /\ UNCHANGED <<running, joinable, joinMu, destroyed, stop, wpc, conns, runs, stops, undefined>>

(* Or it fails, and the workers that were made are dropped. *)
RunFails ==
  /\ Top(Owner, "run.setup") /\ Index(Owner) <= N
  /\ undefined' = ClearWorkers
  /\ created' = 0 /\ running' = FALSE
  /\ Jump(Owner, <<>>)
  /\ UNCHANGED <<joinable, joinMu, destroyed, workerVars, runs, stops>>

RunStarts ==
  /\ Top(Owner, "run.setup") /\ Index(Owner) > N
  /\ Jump(Owner, <<At("run.start")>>)
  /\ UNCHANGED <<serverVars, workerVars, runs, stops, undefined>>

(* Start the threads, one by one. *)
RunStart ==
  /\ Top(Owner, "run.start") /\ Index(Owner) <= N
  /\ wpc' = [wpc EXCEPT ![Index(Owner)] = "check"]
  /\ joinable' = joinable \cup {Index(Owner)}
  /\ Advance(Owner)
  /\ UNCHANGED <<running, created, joinMu, destroyed, stop, conns, unfit, runs, stops, undefined>>

(* No thread is to be had: the exception of std::thread leaves Run, which  *)
(* undoes nothing.                                                         *)
RunThrows ==
  /\ Top(Owner, "run.start") /\ Index(Owner) <= N
  /\ unfit' = unfit \cup (Index(Owner) .. N)
  /\ Jump(Owner, <<>>)
  /\ UNCHANGED <<serverVars, stop, wpc, conns, runs, stops, undefined>>

RunReturns ==
  /\ Top(Owner, "run.start") /\ Index(Owner) > N
  /\ Jump(Owner, <<>>)
  /\ UNCHANGED <<serverVars, workerVars, runs, stops, undefined>>

-----------------------------------------------------------------------------
(* Stop and Wait.                                                          *)

(* Fault: only the first worker is asked to stop. *)
StopFirst(t) ==
  /\ Top(t, "stop.request") /\ Index(t) <= created
  /\ stop' = IF Index(t) = 1 THEN [stop EXCEPT ![1] = TRUE] ELSE stop
  /\ Advance(t)
  /\ UNCHANGED <<serverVars, wpc, conns, unfit, runs, stops, undefined>>

(* Fault: the loop runs one worker too far. *)
StopOneTooFar(t) ==
  /\ Top(t, "stop.request") /\ Index(t) <= created + 1
  /\ stop' = [stop EXCEPT ![Index(t)] = TRUE]
  /\ Advance(t)
  /\ UNCHANGED <<serverVars, wpc, conns, unfit, runs, stops, undefined>>

(* Worker::request_stop on one after the other. *)
StopRequest(t) ==
  /\ Top(t, "stop.request") /\ Index(t) <= created
  /\ stop' = [stop EXCEPT ![Index(t)] = TRUE]
  /\ Advance(t)
  /\ UNCHANGED <<serverVars, wpc, conns, unfit, runs, stops, undefined>>

(* Fault: Stop does not wait for the threads it asked to stop. *)
StopWithoutWait(t) ==
  /\ Top(t, "stop.request") /\ Index(t) > created
  /\ Jump(t, <<At("stop.clear")>>)
  /\ UNCHANGED <<serverVars, workerVars, runs, stops, undefined>>

StopWaits(t) ==
  /\ Top(t, "stop.request") /\ Index(t) > created
  /\ Jump(t, <<At("wait.lock"), At("stop.clear")>>)
  /\ UNCHANGED <<serverVars, workerVars, runs, stops, undefined>>

(* threads_.clear(), without join_mu_: another thread may be walking       *)
(* threads_, and an element may still be joinable.                         *)
StopClears(t) ==
  /\ Top(t, "stop.clear")
  /\ joinable' = {}
  /\ undefined' = undefined
       \cup (IF joinable # {} THEN {"joinable_destroyed"} ELSE {})
       \cup (IF \E u \in Threads \ {t} : Top(u, "wait.join") THEN {"threads_raced"} ELSE {})
  /\ Jump(t, <<>>)
  /\ UNCHANGED <<running, created, joinMu, destroyed, workerVars, runs, stops>>

(* Wait locks join_mu_.  A thread that holds it already never gets it. *)
WaitLock(t) ==
  /\ Top(t, "wait.lock") /\ joinMu = {}
  /\ joinMu' = {t}
  /\ Jump(t, <<At("wait.join")>>)
  /\ UNCHANGED <<running, created, joinable, destroyed, workerVars, runs, stops, undefined>>

(* join: waits for a joinable thread to end. *)
WaitJoin(t) ==
  /\ Top(t, "wait.join") /\ Index(t) <= N
  /\ Index(t) \in joinable => wpc[Index(t)] = "exited"
  /\ joinable' = joinable \ {Index(t)}
  /\ Advance(t)
  /\ UNCHANGED <<running, created, joinMu, destroyed, workerVars, runs, stops, undefined>>

WaitUnlock(t) ==
  /\ Top(t, "wait.join") /\ Index(t) > N
  /\ joinMu' = joinMu \ {t}
  /\ Jump(t, <<>>)
  /\ UNCHANGED <<running, created, joinable, destroyed, workerVars, runs, stops, undefined>>

DestroyWaits ==
  /\ Top(Owner, "destroy.wait")
  /\ Jump(Owner, <<At("wait.lock"), At("destroy.free")>>)
  /\ UNCHANGED <<serverVars, workerVars, runs, stops, undefined>>

(* The members go. *)
DestroyFrees ==
  /\ Top(Owner, "destroy.free")
  /\ destroyed' = TRUE /\ created' = 0
  /\ undefined' = ClearWorkers
       \cup (IF joinable # {} THEN {"joinable_destroyed"} ELSE {})
  /\ Jump(Owner, <<>>)
  /\ UNCHANGED <<running, joinable, joinMu, workerVars, runs, stops>>

-----------------------------------------------------------------------------
(* Worker::run.                                                            *)

(* Fault: the loop ends and leaves the connections open. *)
LeavesConnections(w) ==
  /\ wpc[w] = "check"
  /\ wpc' = [wpc EXCEPT ![w] = IF stop[w] THEN "exited" ELSE "poll"]
  /\ UNCHANGED <<serverVars, stop, conns, unfit, stack, runs, stops, undefined>>

(* The loop condition: on stop close the listener and every connection. *)
WorkerCheck(w) ==
  /\ wpc[w] = "check"
  /\ wpc' = [wpc EXCEPT ![w] = IF stop[w] THEN "exited" ELSE "poll"]
  /\ conns' = [conns EXCEPT ![w] = IF stop[w] THEN 0 ELSE @]
  /\ UNCHANGED <<serverVars, stop, unfit, stack, runs, stops, undefined>>

(* epoll_wait returns: with a connection to accept, one to close, or woken *)
(* by request_stop or after 500 ms.                                        *)
WorkerPolls(w) ==
  /\ wpc[w] = "poll" /\ w \notin unfit
  /\ wpc' = [wpc EXCEPT ![w] = "check"]
  /\ \E n \in 0 .. MaxConns :
       /\ n \in {conns[w] - 1, conns[w], conns[w] + 1}
       /\ conns' = [conns EXCEPT ![w] = n]
  /\ UNCHANGED <<serverVars, stop, unfit, stack, runs, stops, undefined>>

(* Without an epoll instance epoll_wait fails, and the worker leaves its   *)
(* loop although nobody stopped it.                                        *)
WorkerLeaves(w) ==
  /\ wpc[w] = "poll" /\ w \in unfit
  /\ wpc' = [wpc EXCEPT ![w] = "exited"]
  /\ conns' = [conns EXCEPT ![w] = 0]
  /\ UNCHANGED <<serverVars, stop, unfit, stack, runs, stops, undefined>>

-----------------------------------------------------------------------------
CallStep(t) ==
  \/ StopRequest(t) \/ StopWaits(t) \/ StopClears(t)
  \/ WaitLock(t) \/ WaitJoin(t) \/ WaitUnlock(t)

OwnerStep ==
  \/ RunTlsFails \/ RunClears \/ RunListens \/ RunFails \/ RunStarts
  \/ RunStart \/ RunThrows \/ RunReturns
  \/ DestroyWaits \/ DestroyFrees

WorkerStep(w) == WorkerCheck(w) \/ WorkerPolls(w) \/ WorkerLeaves(w)

(* The server is gone and every call has returned. *)
Finished == destroyed /\ (\A t \in Threads : stack[t] = <<>>) /\ UNCHANGED vars

Next ==
  \/ CallRun \/ CallDestroy
  \/ \E t \in Threads : CallWait(t) \/ CallStop(t) \/ CallStep(t)
  \/ OwnerStep
  \/ \E w \in Workers : WorkerStep(w)
  \/ Finished

Spec == Init /\ [][Next]_vars

(* Calls in progress and worker threads are scheduled, and a mutex that is *)
(* free again and again is given to each thread that waits for it.         *)
Fairness ==
  /\ \A t \in Threads : WF_vars(CallStep(t)) /\ SF_vars(WaitLock(t))
  /\ WF_vars(OwnerStep)
  /\ \A w \in Workers : WF_vars(WorkerStep(w))

FairSpec == Spec /\ Fairness

-----------------------------------------------------------------------------
(* Properties.                                                             *)

(* Every variable has its type. *)
TypeOK ==
  /\ running \in BOOLEAN /\ created \in 0 .. N /\ joinable \subseteq Workers
  /\ joinMu \in {{}} \cup {{t} : t \in Threads} /\ destroyed \in BOOLEAN
  /\ stop \in [Workers -> BOOLEAN]
  /\ wpc \in [Workers -> {"none", "check", "poll", "exited"}]
  /\ conns \in [Workers -> 0 .. MaxConns]
  /\ unfit \subseteq Workers
  /\ stack \in [Threads -> Seq(Frame)]
  /\ runs \in 0 .. MaxRuns /\ stops \in 0 .. MaxStops
  /\ undefined \subseteq {"worker_destroyed", "joinable_destroyed", "threads_raced"}

Changing == {"stop.request", "stop.clear", "run.tls", "run.setup", "run.start", "destroy.free"}

(* What running() says to whoever asks between two calls agrees with the   *)
(* workers.  Once the call that stopped the server, or a Run that failed,  *)
(* has returned, no worker runs and no connection is open (Stop "close[s]  *)
(* listeners and all connections", server.h).  A server that is said to    *)
(* run has made every worker of the last Run and has stopped none of them: *)
(* each is in its loop unless it has no epoll instance or no thread.  Such *)
(* a worker is missing and nothing tells: Run returns true, or throws, and *)
(* running() stays true even with no worker left (server.cpp:368, 998).    *)
RunningAgrees ==
  ~(\E t \in Threads : Inside(t, Changing)) =>
    IF running THEN created = N /\ \A w \in Workers : ~stop[w] /\ (Serving(w) \/ w \in unfit)
    ELSE \A w \in Workers : ~Serving(w) /\ conns[w] = 0

(* However often the server runs, and whichever threads stop it and wait   *)
(* for it: no worker goes while its thread runs, and no thread object goes *)
(* before it is joined (which would end the program).  A Wait that walks   *)
(* threads_ while Stop clears it is the one thing the code does not rule   *)
(* out.                                                                    *)
ThreadsOutlived == undefined \subseteq {"threads_raced"}

(* Every Wait is over some time after the server was asked to stop, and so *)
(* is the Stop itself: "Block until Stop() is called (from a signal        *)
(* handler, etc.)" (server.h).                                             *)
WaitEnds ==
  \A t \in Threads : (~running /\ stack[t] # <<>>) ~> (running \/ stack[t] = <<>>)
=============================================================================
