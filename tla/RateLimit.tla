------------------------------- MODULE RateLimit -------------------------------
(***************************************************************************)
(* The token buckets of ratelimit::middleware, which every worker thread   *)
(* shares.  Store::take reads the clock first and takes the lock after, so *)
(* requests reach the buckets out of the order of their clock readings;    *)
(* and it drops other keys' full buckets every now and then.               *)
(*                                                                         *)
(* Tokens are counted in units of what a bucket is refilled with in one    *)
(* tick of the clock, and a request costs `One' of them.  The code's       *)
(* doubles are taken to be exact.                                          *)
(***************************************************************************)
EXTENDS Integers, Sequences

CONSTANTS
  Threads,      (* worker threads                                          *)
  Keys,         (* what key_fn returns; "" does not get here               *)
  NoKey,        (* a thread that serves no request                         *)
  Capacity,     (* Options::capacity                                       *)
  One,          (* units in one token                                      *)
  Refilling,    (* Options::refill_per_second > 0                          *)
  Second,       (* ticks in a second, the grain of Retry-After             *)
  PruneAfter,   (* the five minutes between two prunings                   *)
  MaxLag,       (* bound: ticks from reading the clock to having the lock  *)
  MaxClock,     (* bound: ticks                                            *)
  MaxRequests   (* bound: requests                                         *)

ASSUME RateAssumption ==
  /\ NoKey \notin Keys
  /\ One \in Nat \ {0}
  /\ Capacity \in Nat /\ Capacity >= One
  /\ Refilling \in BOOLEAN
  /\ Second \in Nat \ {0}
  /\ PruneAfter \in Nat
  /\ MaxLag \in Nat /\ MaxClock \in Nat /\ MaxRequests \in Nat

VARIABLES
  clock,        (* Clock::now()                                            *)
  key,          (* the key of the request a thread is serving, or NoKey    *)
  now,          (* the local `now' of its take                             *)
  requests,     (* requests so far                                         *)
  \* Store
  buckets,      (* the keys that have a bucket                             *)
  tokens,       (* Bucket::tokens                                          *)
  last,         (* Bucket::last_refill                                     *)
  lastPrune,    (* last_prune                                              *)
  \* history
  grants,       (* per key, each request let through: when, in which life  *)
  life,         (* how many buckets the key has had                        *)
  promise       (* when the last refusal since a grant said to come back   *)

vars == <<clock, key, now, requests, buckets, tokens, last, lastPrune, grants, life, promise>>

NoPromise == -1

(* What `ticks' of time bring; they are negative when a later reading of   *)
(* the clock got the lock first.                                           *)
Earned(ticks) == IF Refilling THEN ticks ELSE 0

Least(a, b) == IF a < b THEN a ELSE b

Init ==
  /\ clock = 0
  /\ key = [t \in Threads |-> NoKey] /\ now = [t \in Threads |-> 0]
  /\ requests = 0
  /\ buckets = {} /\ tokens = [k \in Keys |-> 0] /\ last = [k \in Keys |-> 0]
  /\ lastPrune = 0
  /\ grants = [k \in Keys |-> <<>>] /\ life = [k \in Keys |-> 0]
  /\ promise = [k \in Keys |-> NoPromise]

-----------------------------------------------------------------------------
(* A request of key k enters take, which reads the clock. *)
ReadClock(t, k) ==
  /\ key[t] = NoKey /\ requests < MaxRequests
  /\ requests' = requests + 1
  /\ key' = [key EXCEPT ![t] = k]
  /\ now' = [now EXCEPT ![t] = clock]
  /\ UNCHANGED <<clock, buckets, tokens, last, lastPrune, grants, life, promise>>

(* Fault: the refill is not capped. *)
LevelUncapped(k, time) ==
  IF k \in buckets THEN tokens[k] + Earned(time - last[k]) ELSE Capacity

(* The refilled bucket of k, or a new one. *)
Level(k, time) ==
  IF k \in buckets THEN Least(Capacity, tokens[k] + Earned(time - last[k])) ELSE Capacity

(* Fault: Retry-After is rounded down. *)
RetryAfterDown(level) ==
  IF Refilling THEN ((One - level) \div Second) * Second ELSE 3600 * Second

(* Retry-After in whole seconds, rounded up.  (1 - tokens) / rate is        *)
(* positive, so the middleware's own minimum of one second never applies.  *)
RetryAfter(level) ==
  IF Refilling THEN ((One - level + Second - 1) \div Second) * Second ELSE 3600 * Second

(* Fault: a bucket counts as full whatever is in it. *)
FullyRefilledAlways(k, time) == Earned(time - last[k]) >= 0

FullyRefilled(k, time) == tokens[k] + Earned(time - last[k]) >= Capacity

(* What the pruning in a take for k drops. *)
Pruned(k, time) ==
  {j \in buckets \ {k} : time - lastPrune > PruneAfter /\ FullyRefilled(j, time)}

Grant(k, time, level) ==
  /\ level >= One
  /\ tokens' = [tokens EXCEPT ![k] = level - One]
  /\ grants' = [grants EXCEPT ![k] = Append(@, [at |-> time, life |-> life'[k]])]
  /\ promise' = [promise EXCEPT ![k] = NoPromise]

Refuse(k, time, level) ==
  /\ level < One
  /\ tokens' = [tokens EXCEPT ![k] = level]
  /\ promise' = [promise EXCEPT ![k] = time + RetryAfter(level)]
  /\ UNCHANGED grants

(* Store::take under its lock, with the clock reading made before it. *)
Take(t) ==
  LET k == key[t]
      time == now[t]
  IN
  /\ k # NoKey
  /\ life' = [life EXCEPT ![k] = IF k \in buckets THEN @ ELSE @ + 1]
  /\ Grant(k, time, Level(k, time)) \/ Refuse(k, time, Level(k, time))
  /\ last' = [last EXCEPT ![k] = time]
  /\ buckets' = (buckets \cup {k}) \ Pruned(k, time)
  /\ lastPrune' = IF time - lastPrune > PruneAfter THEN time ELSE lastPrune
  /\ key' = [key EXCEPT ![t] = NoKey]
  /\ UNCHANGED <<clock, now, requests>>

(* Time passes, but not longer than MaxLag between a reading and its take. *)
Tick ==
  /\ clock < MaxClock
  /\ \A t \in Threads : key[t] # NoKey => clock - now[t] < MaxLag
  /\ clock' = clock + 1
  /\ UNCHANGED <<key, now, requests, buckets, tokens, last, lastPrune, grants, life, promise>>

(* Nobody is in the middleware. *)
Idle ==
  /\ \A t \in Threads : key[t] = NoKey
  /\ UNCHANGED vars

Next ==
  \/ \E t \in Threads : Take(t) \/ \E k \in Keys : ReadClock(t, k)
  \/ Tick \/ Idle

Spec == Init /\ [][Next]_vars

-----------------------------------------------------------------------------
(* Properties.                                                             *)

(* Every variable has its type, and no bucket is over its capacity.        *)
TypeOK ==
  /\ clock \in Nat /\ requests \in Nat
  /\ key \in [Threads -> Keys \cup {NoKey}] /\ now \in [Threads -> Nat]
  /\ buckets \subseteq Keys
  /\ tokens \in [Keys -> Int] /\ \A k \in Keys : tokens[k] <= Capacity
  /\ last \in [Keys -> Nat] /\ lastPrune \in Nat
  /\ grants \in [Keys -> Seq([at : Nat, life : Nat])] /\ life \in [Keys -> Nat]
  /\ promise \in [Keys -> Int]

(* What the middleware lets through: from the i-th to the j-th request of  *)
(* a key at most the capacity and what the time between their two clock    *)
(* readings refilled.  Each time the key's bucket was pruned and made      *)
(* again, up to MaxLag of refill can be counted twice.                     *)
WindowBound ==
  \A k \in Keys : \A i, j \in 1 .. Len(grants[k]) :
    i <= j =>
      (j - i + 1) * One
        <= Capacity + Earned(grants[k][j].at - grants[k][i].at)
             + (grants[k][j].life - grants[k][i].life) * Earned(MaxLag)

(* Retry-After is a promise: if nobody else has been let through since, a  *)
(* request that comes at that time finds a token.                          *)
RetryKept ==
  Refilling =>
    \A k \in Keys : promise[k] # NoPromise =>
      Level(k, promise[k]) >= One
=============================================================================
