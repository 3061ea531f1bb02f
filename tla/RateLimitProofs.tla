---------------------------- MODULE RateLimitProofs ----------------------------
(***************************************************************************)
(* Proofs about RateLimit, for every capacity, rate, set of threads and    *)
(* keys, lag and pruning interval.                                         *)
(***************************************************************************)
EXTENDS RateLimit, SequenceTheorems, TLAPS

-----------------------------------------------------------------------------
(* Types.                                                                  *)

LEMMA EarnedType == \A d \in Int : Earned(d) \in Int
BY DEF Earned

LEMMA LevelType ==
  ASSUME TypeOK, NEW k \in Keys, NEW time \in Nat
  PROVE  Level(k, time) \in Int /\ Level(k, time) <= Capacity
<1>1. tokens[k] \in Int /\ time - last[k] \in Int
  BY DEF TypeOK
<1>2. tokens[k] + Earned(time - last[k]) \in Int
  BY <1>1, EarnedType
<1> QED
  BY <1>2, RateAssumption DEF Level, Least

(* Rounding up to whole seconds never gives less. *)
LEMMA RoundUp ==
  \A x \in Int, s \in Nat \ {0} :
    /\ ((x + s - 1) \div s) * s \in Int
    /\ ((x + s - 1) \div s) * s >= x
<1> SUFFICES ASSUME NEW x \in Int, NEW s \in Nat \ {0}
             PROVE  /\ ((x + s - 1) \div s) * s \in Int
                    /\ ((x + s - 1) \div s) * s >= x
  OBVIOUS
<1> DEFINE y == x + s - 1
           q == y \div s
<1>1. y \in Int /\ q \in Int
  OBVIOUS
<1>2. y = s * q + (y % s) /\ y % s \in 0 .. (s - 1)
  BY <1>1
<1>3. q * s = s * q /\ q * s \in Int
  BY <1>1
<1> QED
  BY <1>1, <1>2, <1>3

LEMMA RetryAfterType ==
  ASSUME NEW level \in Int, level < One
  PROVE  /\ RetryAfter(level) \in Int
         /\ RetryAfter(level) > 0
         /\ Refilling => RetryAfter(level) >= One - level
<1>1. CASE Refilling
  <2>1. One - level \in Int /\ One - level > 0
    BY RateAssumption
  <2> QED
    BY <1>1, <2>1, RoundUp, RateAssumption DEF RetryAfter
<1>2. CASE ~Refilling
  BY <1>2, RateAssumption DEF RetryAfter
<1> QED
  BY <1>1, <1>2

(* What a take does, in one piece for each of its two ends. *)
LEMMA TakeParts ==
  ASSUME TypeOK, NEW t \in Threads, Take(t)
  PROVE  /\ key[t] \in Keys /\ now[t] \in Nat
         /\ Level(key[t], now[t]) \in Int /\ Level(key[t], now[t]) <= Capacity
         /\ Pruned(key[t], now[t]) \subseteq buckets \ {key[t]}
         /\ life'[key[t]] = IF key[t] \in buckets THEN life[key[t]] ELSE life[key[t]] + 1
         /\ \A k \in Keys \ {key[t]} :
              /\ life'[k] = life[k] /\ last'[k] = last[k] /\ tokens'[k] = tokens[k]
              /\ grants'[k] = grants[k] /\ promise'[k] = promise[k]
         /\ last'[key[t]] = now[t]
<1>1. key[t] \in Keys /\ now[t] \in Nat
  BY DEF Take, TypeOK
<1>2. Level(key[t], now[t]) \in Int /\ Level(key[t], now[t]) <= Capacity
  BY <1>1, LevelType
<1>3. Pruned(key[t], now[t]) \subseteq buckets \ {key[t]}
  BY DEF Pruned
<1>4. last' = [last EXCEPT ![key[t]] = now[t]]
  BY DEF Take
<1>5. life' = [life EXCEPT ![key[t]] = IF key[t] \in buckets THEN @ ELSE @ + 1]
  BY DEF Take
<1>6. \A k \in Keys \ {key[t]} :
        tokens'[k] = tokens[k] /\ grants'[k] = grants[k] /\ promise'[k] = promise[k]
  BY <1>1 DEF Take, Grant, Refuse, TypeOK
<1> QED
  BY <1>1, <1>2, <1>3, <1>4, <1>5, <1>6 DEF TypeOK

LEMMA TypeInit == Init => TypeOK
<1> SUFFICES ASSUME Init PROVE TypeOK
  OBVIOUS
<1>1. grants \in [Keys -> Seq([at : Nat, life : Nat])]
  <2>1. <<>> \in Seq([at : Nat, life : Nat])
    OBVIOUS
  <2> QED
    BY <2>1 DEF Init
<1> QED
  BY <1>1, RateAssumption DEF Init, TypeOK, NoPromise

LEMMA TypeNext == TypeOK /\ [Next]_vars => TypeOK'
<1> SUFFICES ASSUME TypeOK, [Next]_vars PROVE TypeOK'
  OBVIOUS
<1>1. ASSUME NEW t \in Threads, Take(t) PROVE TypeOK'
  <2> DEFINE k == key[t]
             time == now[t]
             level == Level(k, time)
  <2>1. /\ k \in Keys /\ time \in Nat /\ level \in Int /\ level <= Capacity
        /\ Pruned(k, time) \subseteq buckets
    BY <1>1, TakeParts
  <2>2. life' \in [Keys -> Nat] /\ life'[k] \in Nat
    BY <1>1, <2>1 DEF Take, TypeOK
  <2>3. last' \in [Keys -> Nat] /\ lastPrune' \in Nat /\ buckets' \subseteq Keys
    BY <1>1, <2>1 DEF Take, TypeOK
  <2>4. key' \in [Threads -> Keys \cup {NoKey}]
    BY <1>1 DEF Take, TypeOK
  <2>5. /\ tokens' \in [Keys -> Int] /\ \A j \in Keys : tokens'[j] <= Capacity
        /\ grants' \in [Keys -> Seq([at : Nat, life : Nat])]
        /\ promise' \in [Keys -> Int]
    <3>1. CASE Grant(k, time, level)
      <4>1. Append(grants[k], [at |-> time, life |-> life'[k]]) \in Seq([at : Nat, life : Nat])
        <5>1. [at |-> time, life |-> life'[k]] \in [at : Nat, life : Nat]
          BY <2>1, <2>2
        <5>2. grants[k] \in Seq([at : Nat, life : Nat])
          BY <2>1 DEF TypeOK
        <5> QED
          BY <5>1, <5>2
      <4>2. grants' \in [Keys -> Seq([at : Nat, life : Nat])]
        BY <3>1, <4>1 DEF Grant, TypeOK
      <4>3. level - One \in Int /\ level - One <= Capacity
        BY <2>1, RateAssumption
      <4> QED
        BY <3>1, <4>2, <4>3, <2>1 DEF Grant, TypeOK, NoPromise
    <3>2. CASE Refuse(k, time, level)
      <4>1. time + RetryAfter(level) \in Int
        BY <2>1, <3>2, RetryAfterType DEF Refuse
      <4> QED
        BY <3>2, <4>1, <2>1 DEF Refuse, TypeOK
    <3> QED
      BY <1>1, <3>1, <3>2 DEF Take
  <2>6. UNCHANGED <<clock, now, requests>>
    BY <1>1 DEF Take
  <2> QED
    BY <2>2, <2>3, <2>4, <2>5, <2>6 DEF TypeOK
<1>2. ASSUME NEW t \in Threads, NEW k \in Keys, ReadClock(t, k) PROVE TypeOK'
  BY <1>2 DEF ReadClock, TypeOK
<1>3. CASE Tick
  BY <1>3 DEF Tick, TypeOK
<1>4. CASE UNCHANGED vars
  BY <1>4 DEF vars, TypeOK
<1> QED
  BY <1>1, <1>2, <1>3, <1>4 DEF Next, Idle

(* Every variable of RateLimit keeps its type, and a bucket never holds    *)
(* more than its capacity.                                                 *)
THEOREM TypeCorrect == Spec => []TypeOK
<1>1. Init => TypeOK
  BY TypeInit
<1>2. TypeOK /\ [Next]_vars => TypeOK'
  BY TypeNext
<1> QED
  BY <1>1, <1>2, PTL DEF Spec

-----------------------------------------------------------------------------
(* Retry-After.                                                            *)

(* While a promise stands, the bucket will have refilled by its time.      *)
Promised ==
  Refilling =>
    \A k \in buckets : promise[k] # NoPromise => tokens[k] + (promise[k] - last[k]) >= One

LEMMA RetryNext == TypeOK /\ Promised /\ [Next]_vars => Promised'
<1> SUFFICES ASSUME TypeOK, Promised, [Next]_vars, Refilling,
                    NEW k \in buckets', promise'[k] # NoPromise
             PROVE  tokens'[k] + (promise'[k] - last'[k]) >= One
  BY DEF Promised
<1> USE DEF Promised
<1>1. ASSUME NEW t \in Threads, Take(t)
      PROVE  tokens'[k] + (promise'[k] - last'[k]) >= One
  <2> DEFINE level == Level(key[t], now[t])
  <2>1. /\ key[t] \in Keys /\ now[t] \in Nat /\ level \in Int /\ last'[key[t]] = now[t]
        /\ Grant(key[t], now[t], level) \/ Refuse(key[t], now[t], level)
        /\ buckets' \subseteq buckets \cup {key[t]}
    BY <1>1, TakeParts DEF Take
  <2>2. CASE k # key[t]
    <3>1. k \in buckets /\ k \in Keys
      BY <2>1, <2>2 DEF TypeOK
    <3>2. tokens'[k] = tokens[k] /\ promise'[k] = promise[k] /\ last'[k] = last[k]
      BY <1>1, <2>2, <3>1, TakeParts
    <3> QED
      BY <3>1, <3>2
  <2>3. CASE k = key[t]
    <3>1. Refuse(k, now[t], level)
      BY <2>1, <2>3 DEF Grant, TypeOK
    <3>2. /\ RetryAfter(level) \in Int /\ RetryAfter(level) >= One - level
          /\ tokens'[k] = level /\ promise'[k] = now[t] + RetryAfter(level)
      BY <2>1, <2>3, <3>1, RetryAfterType DEF Refuse, TypeOK
    <3> QED
      BY <2>1, <2>3, <3>2, RateAssumption
  <2> QED
    BY <2>2, <2>3
<1>2. ASSUME NEW t \in Threads, NEW j \in Keys, ReadClock(t, j)
      PROVE  tokens'[k] + (promise'[k] - last'[k]) >= One
  BY <1>2 DEF ReadClock
<1>3. CASE Tick
  BY <1>3 DEF Tick
<1>4. CASE UNCHANGED vars
  BY <1>4 DEF vars
<1> QED
  BY <1>1, <1>2, <1>3, <1>4 DEF Next, Idle

(* A client that comes back when Retry-After told it to finds a token,     *)
(* whatever requests with older clock readings were taken in between.      *)
THEOREM RetryIsHonest == Spec => []RetryKept
<1>1. Init => Promised
  BY DEF Init, Promised
<1>2. TypeOK /\ Promised /\ [Next]_vars => Promised'
  BY RetryNext
<1>3. TypeOK /\ Promised => RetryKept
  <2> SUFFICES ASSUME TypeOK, Promised, Refilling, NEW k \in Keys, promise[k] # NoPromise
               PROVE  Level(k, promise[k]) >= One
    BY DEF RetryKept
  <2>1. /\ tokens[k] \in Int /\ promise[k] \in Int /\ last[k] \in Int
    BY DEF TypeOK
  <2> QED
    BY <2>1, RateAssumption DEF Level, Least, Earned, Promised
<1> QED
  BY <1>1, <1>2, <1>3, TypeCorrect, PTL DEF Spec

-----------------------------------------------------------------------------
(* What the middleware lets through.                                       *)

(* A take comes at most MaxLag after its reading of the clock. *)
LagBounded ==
  \A t \in Threads : key[t] # NoKey => now[t] <= clock /\ clock - now[t] <= MaxLag

Slack(k, i) == (life[k] - grants[k][i].life) * Earned(MaxLag)

(* A token's price for each request since the i-th, ... *)
Spent(k, i) == (Len(grants[k]) - i + 1) * One

(* ... with what is left in the bucket, was there or has been earned since. *)
(* A bucket that was pruned had been full.                                 *)
Accounted ==
  \A k \in Keys : \A i \in 1 .. Len(grants[k]) :
    IF k \in buckets
      THEN Spent(k, i) + tokens[k]
             <= Capacity + Earned(last[k] - grants[k][i].at) + Slack(k, i)
      ELSE Spent(k, i) <= Earned(clock - grants[k][i].at) + Slack(k, i)

BoundInv == TypeOK /\ LagBounded /\ Accounted /\ WindowBound

(* The steps of the argument that multiply. *)
LEMMA OneMore ==
  \A n, c \in Int : /\ (n + 1) * c = n * c + c /\ n * c \in Int
                    /\ 1 * c = c /\ 0 * c = 0
OBVIOUS

LEMMA ElementType ==
  ASSUME NEW S, NEW s \in Seq(S), NEW i \in 1 .. Len(s)
  PROVE  s[i] \in S /\ Len(s) \in Nat /\ i \in Nat
OBVIOUS

LEMMA EntryTypes ==
  ASSUME TypeOK, NEW k \in Keys, NEW i \in 1 .. Len(grants[k])
  PROVE  /\ grants[k][i].at \in Nat /\ grants[k][i].life \in Nat
         /\ Len(grants[k]) \in Nat /\ i \in Nat
         /\ Spent(k, i) \in Int /\ Slack(k, i) \in Int
         /\ Earned(MaxLag) \in Int
<1>1. grants[k] \in Seq([at : Nat, life : Nat])
  BY DEF TypeOK
<1>2. grants[k][i] \in [at : Nat, life : Nat] /\ Len(grants[k]) \in Nat /\ i \in Nat
  BY <1>1, ElementType
<1>3. Earned(MaxLag) \in Int
  BY EarnedType, RateAssumption
<1>4. life[k] - grants[k][i].life \in Int /\ Len(grants[k]) - i + 1 \in Int /\ One \in Int
  BY <1>2, RateAssumption DEF TypeOK
<1>5. Spent(k, i) \in Int /\ Slack(k, i) \in Int
  BY <1>3, <1>4 DEF Spent, Slack
<1> QED
  BY <1>2, <1>3, <1>5

(* At the moment a take has refilled or made its bucket. *)
LEMMA BeforeTaking ==
  ASSUME BoundInv, NEW t \in Threads, Take(t), NEW i \in 1 .. Len(grants[key[t]])
  PROVE  Spent(key[t], i) + Level(key[t], now[t])
           <= Capacity + Earned(now[t] - grants[key[t]][i].at)
                + (life'[key[t]] - grants[key[t]][i].life) * Earned(MaxLag)
<1>1. PICK k \in Keys, time \in Nat : k = key[t] /\ time = now[t]
  BY TakeParts DEF BoundInv
<1>2. PICK at \in Nat, born \in Nat : at = grants[k][i].at /\ born = grants[k][i].life
  BY <1>1, EntryTypes DEF BoundInv
<1>3. PICK spent \in Int, slack \in Int, lag \in Int :
        spent = Spent(k, i) /\ slack = Slack(k, i) /\ lag = Earned(MaxLag)
  BY <1>1, EntryTypes DEF BoundInv
<1>4. /\ slack = (life[k] - born) * lag
      /\ life'[k] = IF k \in buckets THEN life[k] ELSE life[k] + 1
      /\ life[k] \in Nat /\ clock \in Nat /\ tokens[k] \in Int /\ last[k] \in Nat
      /\ Capacity \in Nat
  BY <1>1, <1>2, <1>3, TakeParts, RateAssumption DEF Slack, BoundInv, TypeOK
<1>5. /\ Earned(time - at) \in Int /\ Earned(clock - at) \in Int
      /\ Earned(last[k] - at) \in Int /\ Earned(time - last[k]) \in Int
  BY <1>4 DEF Earned
<1>a. tokens[k] \in Int /\ Capacity \in Int
  BY <1>4
<1>b. PICK grown \in Int : grown = (life'[k] - born) * lag
  BY <1>4
<1>6. spent + Level(k, time) <= Capacity + Earned(time - at) + grown
  <2>1. CASE k \in buckets
    <3>1. spent + tokens[k] <= Capacity + Earned(last[k] - at) + slack
      BY <1>1, <1>2, <1>3, <2>1 DEF BoundInv, Accounted
    <3>2. Level(k, time) <= tokens[k] + Earned(time - last[k]) /\ Level(k, time) \in Int
      BY <1>a, <1>5, <2>1 DEF Level, Least
    <3>3. Earned(last[k] - at) + Earned(time - last[k]) = Earned(time - at)
      BY <1>4 DEF Earned
    <3>4. grown = slack
      BY <1>4, <1>b, <2>1
    <3>5. PICK a \in Int, b \in Int, c \in Int, level \in Int :
            /\ a = Earned(last[k] - at) /\ b = Earned(time - last[k])
            /\ c = Earned(time - at) /\ level = Level(k, time)
      BY <1>5, <3>2
    <3>6. spent + tokens[k] <= Capacity + a + slack /\ level <= tokens[k] + b /\ a + b = c
      BY <3>1, <3>2, <3>3, <3>5
    <3>7. spent + level <= Capacity + c + slack
      BY <3>6, <1>a
    <3> QED
      BY <3>4, <3>5, <3>7
  <2>2. CASE k \notin buckets
    <3>1. spent <= Earned(clock - at) + slack
      BY <1>1, <1>2, <1>3, <2>2 DEF BoundInv, Accounted
    <3>2. clock - time <= MaxLag
      BY <1>1 DEF BoundInv, LagBounded, Take
    <3>3. Earned(clock - at) <= Earned(time - at) + lag
      BY <3>2, <1>3, <1>4, RateAssumption DEF Earned
    <3>4. grown = slack + lag
      <4>1. life'[k] - born = (life[k] - born) + 1 /\ life[k] - born \in Int
        BY <1>4, <2>2
      <4> QED
        BY <4>1, <1>4, <1>b, OneMore
    <3>5. Level(k, time) = Capacity
      BY <2>2 DEF Level
    <3> QED
      BY <3>1, <3>3, <3>4, <3>5, <1>a, <1>5
  <2> QED
    BY <2>1, <2>2
<1> QED
  BY <1>1, <1>2, <1>3, <1>b, <1>6

(* A take at k leaves the accounts of the other keys right. *)
LEMMA OthersAccounted ==
  ASSUME BoundInv, NEW t \in Threads, Take(t), NEW j \in Keys, j # key[t],
         NEW i \in 1 .. Len(grants[j])
  PROVE  IF j \in buckets'
           THEN Spent(j, i)' + tokens'[j]
                  <= Capacity + Earned(last'[j] - grants'[j][i].at) + Slack(j, i)'
           ELSE Spent(j, i)' <= Earned(clock' - grants'[j][i].at) + Slack(j, i)'
<1>1. /\ tokens'[j] = tokens[j] /\ last'[j] = last[j] /\ clock' = clock
      /\ grants'[j] = grants[j] /\ life'[j] = life[j]
  BY TakeParts DEF BoundInv, Take
<1>2. Spent(j, i)' = Spent(j, i) /\ Slack(j, i)' = Slack(j, i)
  BY <1>1 DEF Spent, Slack
<1>3. PICK k \in Keys, time \in Nat : k = key[t] /\ time = now[t]
  BY TakeParts DEF BoundInv
<1>4. PICK at \in Nat : at = grants[j][i].at
  BY EntryTypes DEF BoundInv
<1>5. PICK spent \in Int, slack \in Int : spent = Spent(j, i) /\ slack = Slack(j, i)
  BY EntryTypes DEF BoundInv
<1>6. /\ buckets' = (buckets \cup {k}) \ Pruned(k, time)
      /\ j # k
  BY <1>3 DEF Take
<1>7. IF j \in buckets THEN spent + tokens[j] <= Capacity + Earned(last[j] - at) + slack
                       ELSE spent <= Earned(clock - at) + slack
  BY <1>4, <1>5 DEF BoundInv, Accounted
<1>8. CASE j \in buckets /\ j \notin buckets'
  <2>1. tokens[j] + Earned(time - last[j]) >= Capacity
    BY <1>6, <1>8 DEF Pruned, FullyRefilled
  <2>2. tokens[j] \in Int /\ last[j] \in Nat /\ clock \in Nat /\ Capacity \in Nat
    BY RateAssumption DEF BoundInv, TypeOK
  <2>3. time <= clock
    BY <1>3 DEF BoundInv, LagBounded, Take
  <2>4. spent + tokens[j] <= Capacity + Earned(last[j] - at) + slack
    BY <1>7, <1>8
  <2>5. spent <= Earned(clock - at) + slack
    <3>1. CASE Refilling
      BY <2>1, <2>2, <2>3, <2>4, <3>1 DEF Earned
    <3>2. CASE ~Refilling
      BY <2>1, <2>2, <2>3, <2>4, <3>2 DEF Earned
    <3> QED
      BY <3>1, <3>2
  <2> QED
    BY <2>5, <1>1, <1>2, <1>4, <1>5, <1>8
<1>9. CASE (j \in buckets) = (j \in buckets')
  BY <1>1, <1>2, <1>4, <1>5, <1>7, <1>9
<1> QED
  BY <1>6, <1>8, <1>9

(* The account of the key that was taken from, and its windows. *)
LEMMA TakenAccounted ==
  ASSUME BoundInv, TypeOK', NEW t \in Threads, Take(t), NEW k \in Keys, k = key[t]
  PROVE  /\ \A i \in 1 .. Len(grants'[k]) :
              Spent(k, i)' + tokens'[k]
                <= Capacity + Earned(last'[k] - grants'[k][i].at) + Slack(k, i)'
         /\ \A i, j \in 1 .. Len(grants'[k]) :
              i <= j =>
                (j - i + 1) * One
                  <= Capacity + Earned(grants'[k][j].at - grants'[k][i].at)
                       + (grants'[k][j].life - grants'[k][i].life) * Earned(MaxLag)
<1>1. PICK time \in Nat, level \in Int : time = now[t] /\ level = Level(k, time)
  BY TakeParts DEF BoundInv
<1>2. /\ last'[k] = time /\ level <= Capacity /\ Capacity \in Int /\ One \in Nat
      /\ Grant(k, time, level) \/ Refuse(k, time, level)
      /\ Earned(MaxLag) \in Int /\ life'[k] \in Nat /\ Earned(0) = 0
  <2>1. last'[k] = time /\ level <= Capacity
    BY <1>1, TakeParts DEF BoundInv
  <2>2. Grant(k, time, level) \/ Refuse(k, time, level)
    BY <1>1 DEF Take
  <2>3. Capacity \in Int /\ One \in Nat /\ Earned(MaxLag) \in Int /\ Earned(0) = 0
    BY RateAssumption DEF Earned
  <2> QED
    BY <2>1, <2>2, <2>3 DEF TypeOK
<1>3. grants[k] \in Seq([at : Nat, life : Nat]) /\ Len(grants[k]) \in Nat
  BY DEF BoundInv, TypeOK
<1>4. \A i \in 1 .. Len(grants[k]) :
        Spent(k, i) + level
          <= Capacity + Earned(time - grants[k][i].at)
               + (life'[k] - grants[k][i].life) * Earned(MaxLag)
  BY <1>1, BeforeTaking
<1>5. CASE Refuse(k, time, level)
  <2>1. grants'[k] = grants[k] /\ tokens'[k] = level
    BY <1>5 DEF Refuse, BoundInv, TypeOK
  <2>2. \A i \in 1 .. Len(grants[k]) : Spent(k, i)' = Spent(k, i)
    BY <2>1 DEF Spent
  <2>3. \A i \in 1 .. Len(grants[k]) :
          Slack(k, i)' = (life'[k] - grants[k][i].life) * Earned(MaxLag)
    BY <2>1 DEF Slack
  <2> QED
    BY <1>2, <1>4, <2>1, <2>2, <2>3 DEF BoundInv, WindowBound
<1>6. CASE Grant(k, time, level)
  <2> DEFINE n == Len(grants[k])
             entry == [at |-> time, life |-> life'[k]]
  <2>1. grants'[k] = Append(grants[k], entry) /\ tokens'[k] = level - One /\ level >= One
    BY <1>6 DEF Grant, BoundInv, TypeOK
  <2>2. /\ Len(grants'[k]) = n + 1 /\ grants'[k][n + 1] = entry
        /\ \A i \in 1 .. n : grants'[k][i] = grants[k][i]
    BY <1>3, <2>1
  <2>3. ASSUME NEW i \in 1 .. n + 1
        PROVE  (n + 1 - i + 1) * One + (level - One)
                 <= Capacity + Earned(time - grants'[k][i].at)
                      + (life'[k] - grants'[k][i].life) * Earned(MaxLag)
    <3>1. CASE i = n + 1
      <4>1. (n + 1 - i + 1) * One = One
        <5>1. n + 1 - i + 1 = 1 /\ One \in Int
          BY <1>2, <1>3, <3>1
        <5> QED
          BY <5>1, OneMore
      <4>2. /\ Earned(time - grants'[k][i].at) = 0
            /\ (life'[k] - grants'[k][i].life) * Earned(MaxLag) = 0
        <5>1. time - grants'[k][i].at = 0 /\ life'[k] - grants'[k][i].life = 0
          BY <1>2, <2>2, <3>1
        <5>2. 0 * Earned(MaxLag) = 0
          BY <1>2, OneMore
        <5> QED
          BY <1>2, <5>1, <5>2
      <4>3. One + (level - One) = level /\ level <= Capacity + 0 + 0
        BY <1>2
      <4> QED
        BY <4>1, <4>2, <4>3, Zenon
    <3>2. CASE i \in 1 .. n
      <4>1. PICK spent \in Int : spent = Spent(k, i)
        BY <3>2, EntryTypes DEF BoundInv
      <4>2. (n + 1 - i + 1) * One = spent + One
        <5>1. n + 1 - i + 1 = (n - i + 1) + 1 /\ n - i + 1 \in Int /\ One \in Int
          BY <1>2, <1>3, <3>2
        <5>2. spent = (n - i + 1) * One
          BY <4>1 DEF Spent
        <5> QED
          BY <5>1, <5>2, OneMore
      <4>3. (n + 1 - i + 1) * One + (level - One) = Spent(k, i) + level
        <5>1. \A cost \in Int : cost = spent + One => cost + (level - One) = spent + level
          BY <1>2
        <5>2. spent + One \in Int
          BY <1>2
        <5> QED
          BY <4>1, <4>2, <5>1, <5>2
      <4> QED
        BY <1>4, <2>2, <3>2, <4>3
    <3> HIDE DEF entry
    <3>3. i = n + 1 \/ i \in 1 .. n
      BY <1>3
    <3> QED
      BY <3>1, <3>2, <3>3, Zenon
  <2>4. \A i \in 1 .. Len(grants'[k]) :
          Spent(k, i)' + tokens'[k]
            <= Capacity + Earned(last'[k] - grants'[k][i].at) + Slack(k, i)'
    <3> SUFFICES ASSUME NEW i \in 1 .. Len(grants'[k])
                 PROVE  Spent(k, i)' + tokens'[k]
                          <= Capacity + Earned(last'[k] - grants'[k][i].at) + Slack(k, i)'
      OBVIOUS
    <3>1. Spent(k, i)' = (n + 1 - i + 1) * One
      BY <2>2 DEF Spent
    <3>2. Slack(k, i)' = (life'[k] - grants'[k][i].life) * Earned(MaxLag)
      BY DEF Slack
    <3>3. i \in 1 .. n + 1
      BY <2>2
    <3> QED
      BY <1>2, <2>1, <2>3, <3>1, <3>2, <3>3
  <2>5. ASSUME NEW i \in 1 .. Len(grants'[k]), NEW j \in 1 .. Len(grants'[k]), i <= j
        PROVE  (j - i + 1) * One
                 <= Capacity + Earned(grants'[k][j].at - grants'[k][i].at)
                      + (grants'[k][j].life - grants'[k][i].life) * Earned(MaxLag)
    <3>1. CASE j \in 1 .. n
      <4>1. i \in 1 .. n
        BY <1>3, <2>5, <3>1
      <4>2. grants'[k][i] = grants[k][i] /\ grants'[k][j] = grants[k][j]
        BY <2>2, <3>1, <4>1
      <4> QED
        BY <2>5, <3>1, <4>1, <4>2 DEF BoundInv, WindowBound
    <3>2. CASE j = n + 1
      <4>1. i \in 1 .. n + 1
        BY <2>2
      <4>2. grants'[k][j].at = time /\ grants'[k][j].life = life'[k]
        BY <2>2, <3>2
      <4>3. PICK bound : bound = Capacity + Earned(grants'[k][j].at - grants'[k][i].at)
                      + (grants'[k][j].life - grants'[k][i].life) * Earned(MaxLag)
        OBVIOUS
      <4>4. (j - i + 1) * One + (level - One) <= bound
        BY <2>3, <3>2, <4>1, <4>2, <4>3
      <4>5. (j - i + 1) * One \in Int /\ bound \in Int
        <5>1. grants'[k][i].at \in Nat /\ grants'[k][i].life \in Nat
          <6>1. grants'[k] \in Seq([at : Nat, life : Nat])
            BY DEF TypeOK
          <6>2. grants'[k][i] \in [at : Nat, life : Nat]
            BY <2>5, <6>1, ElementType
          <6> QED
            BY <6>2
        <5>2. /\ time - grants'[k][i].at \in Int
              /\ life'[k] - grants'[k][i].life \in Int
          BY <1>2, <5>1
        <5>3. /\ Earned(time - grants'[k][i].at) \in Int
              /\ (life'[k] - grants'[k][i].life) * Earned(MaxLag) \in Int
          <6>1. Earned(time - grants'[k][i].at) \in Int
            BY <5>2, EarnedType
          <6>2. PICK d \in Int : d = life'[k] - grants'[k][i].life
            BY <5>2
          <6>3. d * Earned(MaxLag) \in Int
            BY <1>2, OneMore
          <6> QED
            BY <6>1, <6>2, <6>3
        <5>4. bound \in Int
          BY <1>2, <4>2, <4>3, <5>3
        <5>5. j - i + 1 \in Int /\ One \in Int
          BY <1>2, <1>3, <3>2, <4>1
        <5> QED
          BY <5>4, <5>5, OneMore
      <4>6. PICK cost \in Int : cost = (j - i + 1) * One
        BY <4>5
      <4>7. cost + (level - One) <= bound /\ level - One >= 0 /\ level - One \in Int
        BY <1>2, <2>1, <4>4, <4>6
      <4>8. cost <= bound
        BY <4>5, <4>7
      <4> QED
        BY <4>3, <4>6, <4>8
    <3> QED
      BY <1>3, <2>2, <3>1, <3>2
  <2> QED
    BY <2>4, <2>5
<1> QED
  BY <1>2, <1>5, <1>6


LEMMA BoundNext == BoundInv /\ [Next]_vars => BoundInv'
<1> SUFFICES ASSUME BoundInv, [Next]_vars PROVE BoundInv'
  OBVIOUS
<1>1. TypeOK'
  BY TypeNext DEF BoundInv
<1>2. ASSUME NEW t \in Threads, Take(t) PROVE LagBounded' /\ Accounted' /\ WindowBound'
  <2>1. PICK k \in Keys : k = key[t]
    BY <1>2, TakeParts DEF BoundInv
  <2>2. LagBounded'
    BY <1>2 DEF Take, LagBounded, BoundInv, TypeOK
  <2>3. Accounted'
    <3>1. k \in buckets'
      BY <1>2, <2>1 DEF Take, Pruned
    <3>2. \A j \in Keys \ {k} : grants'[j] = grants[j]
      BY <1>2, <2>1, TakeParts DEF BoundInv
    <3>3. ASSUME NEW j \in Keys, NEW i \in 1 .. Len(grants'[j])
          PROVE  IF j \in buckets'
                   THEN Spent(j, i)' + tokens'[j]
                          <= Capacity + Earned(last'[j] - grants'[j][i].at) + Slack(j, i)'
                   ELSE Spent(j, i)' <= Earned(clock' - grants'[j][i].at) + Slack(j, i)'
      <4>1. CASE j = k
        BY <1>1, <1>2, <2>1, <3>1, <4>1, TakenAccounted
      <4>2. CASE j # k
        BY <1>2, <2>1, <3>2, <4>2, OthersAccounted
      <4> QED
        BY <4>1, <4>2
    <3> QED
      BY <3>3 DEF Accounted
  <2>4. WindowBound'
    <3> SUFFICES ASSUME NEW m \in Keys, NEW i \in 1 .. Len(grants'[m]),
                        NEW j \in 1 .. Len(grants'[m]), i <= j
                 PROVE  (j - i + 1) * One
                          <= Capacity + Earned(grants'[m][j].at - grants'[m][i].at)
                               + (grants'[m][j].life - grants'[m][i].life) * Earned(MaxLag)
      BY DEF WindowBound
    <3>1. CASE m = k
      BY <1>1, <1>2, <2>1, <3>1, TakenAccounted
    <3>2. CASE m # k
      <4>1. grants'[m] = grants[m]
        BY <1>2, <2>1, <3>2, TakeParts DEF BoundInv
      <4> QED
        BY <4>1 DEF BoundInv, WindowBound
    <3> QED
      BY <3>1, <3>2
  <2> QED
    BY <2>2, <2>3, <2>4
<1>3. ASSUME NEW t \in Threads, NEW k \in Keys, ReadClock(t, k)
      PROVE  LagBounded' /\ Accounted' /\ WindowBound'
  <2>1. LagBounded'
    BY <1>3, RateAssumption DEF ReadClock, LagBounded, BoundInv, TypeOK
  <2> QED
    BY <1>3, <2>1 DEF ReadClock, BoundInv, Accounted, WindowBound, Spent, Slack
<1>4. ASSUME Tick PROVE LagBounded' /\ Accounted' /\ WindowBound'
  <2>1. LagBounded'
    BY <1>4, RateAssumption DEF Tick, LagBounded, BoundInv, TypeOK
  <2>2. UNCHANGED <<buckets, tokens, last, grants, life>> /\ clock \in Nat /\ clock' = clock + 1
    BY <1>4 DEF Tick, BoundInv, TypeOK
  <2>3. WindowBound'
    BY <2>2 DEF BoundInv, WindowBound
  <2>4. Accounted'
    <3> SUFFICES ASSUME NEW k \in Keys, NEW i \in 1 .. Len(grants[k])
                 PROVE  IF k \in buckets
                          THEN Spent(k, i) + tokens[k]
                                 <= Capacity + Earned(last[k] - grants[k][i].at) + Slack(k, i)
                          ELSE Spent(k, i) <= Earned(clock' - grants[k][i].at) + Slack(k, i)
      BY <2>2 DEF Accounted, Spent, Slack
    <3>1. PICK at \in Nat, spent \in Int, slack \in Int :
            at = grants[k][i].at /\ spent = Spent(k, i) /\ slack = Slack(k, i)
      BY EntryTypes DEF BoundInv
    <3>2. IF k \in buckets THEN spent + tokens[k] <= Capacity + Earned(last[k] - at) + slack
                           ELSE spent <= Earned(clock - at) + slack
      BY <3>1 DEF BoundInv, Accounted
    <3>3. spent <= Earned(clock - at) + slack => spent <= Earned(clock' - at) + slack
      BY <2>2 DEF Earned
    <3> QED
      BY <3>1, <3>2, <3>3
  <2> QED
    BY <2>1, <2>3, <2>4
<1>5. ASSUME UNCHANGED vars PROVE LagBounded' /\ Accounted' /\ WindowBound'
  BY <1>5 DEF vars, BoundInv, LagBounded, Accounted, WindowBound, Spent, Slack
<1>6. LagBounded' /\ Accounted' /\ WindowBound'
  BY <1>2, <1>3, <1>4, <1>5 DEF Next, Idle
<1> QED
  BY <1>1, <1>6 DEF BoundInv

(* Between any two requests that a key had let through, the limiter kept   *)
(* to its burst and its rate, in the time of the requests' clock readings, *)
(* but for at most MaxLag of refill each time the bucket was pruned.       *)
THEOREM LimitHolds == Spec => []WindowBound
<1>1. Init => BoundInv
  <2>1. Init => TypeOK
    BY TypeInit
  <2>2. Init => LagBounded /\ Accounted /\ WindowBound
    BY DEF Init, LagBounded, Accounted, WindowBound
  <2> QED
    BY <2>1, <2>2 DEF BoundInv
<1>2. BoundInv /\ [Next]_vars => BoundInv'
  BY BoundNext
<1>3. BoundInv => WindowBound
  BY DEF BoundInv
<1> QED
  BY <1>1, <1>2, <1>3, PTL DEF Spec
=============================================================================
