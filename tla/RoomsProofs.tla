----------------------------- MODULE RoomsProofs -----------------------------
(***************************************************************************)
(* Proofs of what Rooms promises, for any number of threads, channels,     *)
(* rooms, addresses and calls, and streams of any number of fragments.     *)
(***************************************************************************)
EXTENDS Rooms, FiniteSetTheorems, TLAPS

-----------------------------------------------------------------------------
(* Members of rooms, as sequences.                                         *)

LEMMA LeastOf ==
  ASSUME NEW T, T \subseteq Nat, T # {}
  PROVE  \E n \in T : \A m \in T : n <= m
<1>1. PICK n \in T : \A m \in T : ~ (<<m, n>> \in OpToRel(<, Nat))
  BY NatLessThanWellFounded, WFMin, Zenon
<1>2. \A m \in T : m < n => <<m, n>> \in OpToRel(<, Nat)
  BY DEF OpToRel
<1>3. \A m \in T : ~(m < n)
  BY <1>1, <1>2, Zenon
<1> QED
  BY <1>3

LEMMA InRange ==
  ASSUME NEW S, NEW s \in Seq(S)
  PROVE  /\ Range(s) \subseteq S
         /\ \A x : x \in Range(s) <=> \E i \in 1 .. Len(s) : s[i] = x
BY DEF Range

LEMMA AppendedRange ==
  ASSUME NEW S, NEW s \in Seq(S), NEW x \in S
  PROVE  Append(s, x) \in Seq(S) /\ Range(Append(s, x)) = Range(s) \cup {x}
<1>1. Append(s, x) \in Seq(S) /\ Len(Append(s, x)) = Len(s) + 1
  OBVIOUS
<1>2. \A i \in 1 .. Len(s) : Append(s, x)[i] = s[i]
  OBVIOUS
<1>3. Append(s, x)[Len(s) + 1] = x
  OBVIOUS
<1>4. Range(Append(s, x)) \subseteq Range(s) \cup {x}
  <2>1. ASSUME NEW i \in 1 .. Len(s) + 1 PROVE Append(s, x)[i] \in Range(s) \cup {x}
    BY <1>2, <1>3, InRange
  <2>2. \A y \in Range(Append(s, x)) : \E i \in 1 .. Len(s) + 1 : Append(s, x)[i] = y
    BY <1>1, InRange
  <2> QED
    BY <2>1, <2>2
<1>5. Range(s) \subseteq Range(Append(s, x))
  <2> SUFFICES ASSUME NEW i \in 1 .. Len(s) PROVE s[i] \in Range(Append(s, x))
    BY InRange
  <2>1. i \in 1 .. Len(Append(s, x))
    BY <1>1
  <2> QED
    BY <1>1, <1>2, <2>1, InRange
<1>6. x \in Range(Append(s, x))
  <2>1. Len(s) + 1 \in 1 .. Len(Append(s, x))
    BY <1>1
  <2> QED
    BY <1>1, <1>3, <2>1, InRange
<1> QED
  BY <1>1, <1>4, <1>5, <1>6

LEMMA TailRange ==
  ASSUME NEW S, NEW s \in Seq(S), s # <<>>
  PROVE  /\ Head(s) \in S /\ Tail(s) \in Seq(S) /\ Head(s) \in Range(s) /\ Range(Tail(s)) \subseteq Range(s)
         /\ Head(s) = s[1] /\ Len(Tail(s)) = Len(s) - 1 /\ Len(s) \in Nat \ {0}
         /\ \A i \in 1 .. Len(s) - 1 : Tail(s)[i] = s[i + 1]
<1>1. /\ Len(s) \in Nat \ {0} /\ Head(s) = s[1] /\ Tail(s) \in Seq(S) /\ Len(Tail(s)) = Len(s) - 1
      /\ \A i \in 1 .. Len(s) - 1 : Tail(s)[i] = s[i + 1]
  OBVIOUS
<1>2. Head(s) \in Range(s) /\ Head(s) \in S
  <2>1. 1 \in 1 .. Len(s)
    BY <1>1
  <2> QED
    BY <1>1, <2>1, InRange
<1>3. Range(Tail(s)) \subseteq Range(s)
  <2>1. ASSUME NEW i \in 1 .. Len(s) - 1 PROVE s[i + 1] \in Range(s)
    <3>1. i + 1 \in 1 .. Len(s)
      BY <1>1
    <3> QED
      BY <3>1, InRange
  <2>2. \A y \in Range(Tail(s)) : \E i \in 1 .. Len(s) - 1 : Tail(s)[i] = y
    <3>1. DOMAIN Tail(s) = 1 .. Len(s) - 1
      BY <1>1
    <3> QED
      BY <3>1, Zenon DEF Range
  <2> QED
    BY <1>1, <2>1, <2>2
<1> QED
  BY <1>1, <1>2, <1>3

(* What Keep builds, member by member. *)
Keeps(f, members, some, m) ==
  f = [n \in 0 .. m |-> IF n = 0 THEN <<>>
                        ELSE IF members[n] \in some THEN Append(f[n - 1], members[n]) ELSE f[n - 1]]

LEMMA KeepsExists ==
  ASSUME NEW members, NEW some
  PROVE  \A m \in Nat : \E f : Keeps(f, members, some, m)
<1> DEFINE T == {m \in Nat : ~ \E f : Keeps(f, members, some, m)}
<1> SUFFICES ASSUME T # {} PROVE FALSE
  OBVIOUS
<1>1. PICK m \in T : \A k \in T : m <= k
  BY LeastOf
<1>2. m # 0
  <2>1. Keeps([n \in 0 .. 0 |-> <<>>], members, some, 0)
    BY DEF Keeps
  <2> QED
    BY <2>1
<1>3. PICK f : Keeps(f, members, some, m - 1)
  <2>1. m - 1 \in Nat /\ ~(m <= m - 1)
    BY <1>2
  <2> QED
    BY <1>1, <2>1
<1> DEFINE More(a, n) == IF members[n] \in some THEN Append(a, members[n]) ELSE a
           g == [n \in 0 .. m |-> IF n = m THEN More(f[m - 1], m) ELSE f[n]]
<1>4. Keeps(g, members, some, m)
  <2> HIDE DEF More
  <2>1. f = [n \in 0 .. m - 1 |-> IF n = 0 THEN <<>> ELSE More(f[n - 1], n)]
    BY <1>3 DEF Keeps, More
  <2>2. ASSUME NEW n \in 0 .. m PROVE g[n] = IF n = 0 THEN <<>> ELSE More(g[n - 1], n)
    <3>1. CASE n = m
      <4>1. g[n] = More(f[m - 1], m) /\ m - 1 \in 0 .. m /\ m - 1 # m
        BY <1>2, <3>1
      <4> QED
        BY <1>2, <3>1, <4>1
    <3>2. CASE n # m
      <4>1. n \in 0 .. m - 1 /\ g[n] = f[n]
        BY <1>2, <3>2
      <4>2. n # 0 => n - 1 \in 0 .. m /\ n - 1 # m
        BY <4>1
      <4> QED
        BY <2>1, <4>1, <4>2
    <3> QED
      BY <3>1, <3>2
  <2>3. g = [n \in 0 .. m |-> IF n = 0 THEN <<>> ELSE More(g[n - 1], n)]
    BY <2>2
  <2> QED
    BY <2>3 DEF Keeps, More
<1> QED
  BY <1>4

LEMMA Kept ==
  ASSUME NEW S, NEW members \in Seq(S), NEW some
  PROVE  Keep(members, some) \in Seq(S) /\ Range(Keep(members, some)) = Range(members) \cap some
<1>1. \E f : Keeps(f, members, some, Len(members))
  <2>1. Len(members) \in Nat
    OBVIOUS
  <2> QED
    BY <2>1, KeepsExists
<1>2. Keep(members, some) = (CHOOSE f : Keeps(f, members, some, Len(members)))[Len(members)]
  BY Zenon DEF Keep, Keeps
<1>3. PICK f : Keeps(f, members, some, Len(members)) /\ Keep(members, some) = f[Len(members)]
  BY <1>1, <1>2, Zenon
<1> DEFINE Right(n) == f[n] \in Seq(S) /\ Range(f[n]) = {members[k] : k \in 1 .. n} \cap some
           T == {m \in 0 .. Len(members) : ~Right(m)}
<1>4. T = {}
  <2> SUFFICES ASSUME T # {} PROVE FALSE
    OBVIOUS
  <2>1. T \subseteq Nat
    OBVIOUS
  <2>2. PICK n \in T : \A k \in T : n <= k
    BY <2>1, LeastOf
  <2>3. n # 0
    <3>1. f[0] = <<>>
      BY <1>3 DEF Keeps
    <3>2. Right(0)
      BY <3>1 DEF Range
    <3> QED
      BY <2>2, <3>2
  <2>4. n - 1 \in 0 .. Len(members) /\ n \in 1 .. Len(members) /\ ~(n <= n - 1)
    BY <2>2, <2>3
  <2>5. Right(n - 1)
    BY <2>2, <2>4
  <2>6. f[n] = IF members[n] \in some THEN Append(f[n - 1], members[n]) ELSE f[n - 1]
    BY <1>3, <2>3, <2>4 DEF Keeps
  <2>7. members[n] \in S /\ {members[k] : k \in 1 .. n} = {members[k] : k \in 1 .. n - 1} \cup {members[n]}
    BY <2>4
  <2>8. Right(n)
    <3>1. CASE members[n] \in some
      <4>1. f[n] \in Seq(S) /\ Range(f[n]) = Range(f[n - 1]) \cup {members[n]}
        BY <2>5, <2>6, <2>7, <3>1, AppendedRange
      <4> QED
        BY <2>5, <2>7, <3>1, <4>1
    <3>2. CASE members[n] \notin some
      BY <2>5, <2>6, <2>7, <3>2
    <3> QED
      BY <3>1, <3>2
  <2> QED
    BY <2>2, <2>8
<1>5. Len(members) \in 0 .. Len(members)
  OBVIOUS
<1>6. Right(Len(members))
  BY <1>4, <1>5
<1>7. Range(members) = {members[k] : k \in 1 .. Len(members)}
  BY DEF Range
<1> QED
  BY <1>3, <1>6, <1>7

LEMMA LeavesOthers ==
  ASSUME NEW members \in Seq(Chans), NEW c \in Chans
  PROVE  Without(members, c) \in Seq(Chans) /\ Range(Without(members, c)) = Range(members) \ {c}
<1>1. Range(members) \subseteq Chans
  BY InRange
<1>2. /\ Without(members, c) \in Seq(Chans)
      /\ Range(Without(members, c)) = Range(members) \cap (Chans \ {c})
  BY Kept, Zenon DEF Without
<1> QED
  BY <1>1, <1>2

LEMMA EveryRoomLeft ==
  ASSUME rooms \in [RoomNames -> Seq(Chans)], NEW c \in Chans
  PROVE  /\ LeaveAll(c) \in [RoomNames -> Seq(Chans)]
         /\ \A r \in RoomNames : Range(LeaveAll(c)[r]) = Range(rooms[r]) \ {c}
<1>1. \A r \in RoomNames : /\ LeaveAll(c)[r] = Without(rooms[r], c) /\ rooms[r] \in Seq(Chans)
                           /\ Without(rooms[r], c) \in Seq(Chans)
  BY LeavesOthers DEF LeaveAll
<1>2. LeaveAll(c) \in [RoomNames -> Seq(Chans)]
  BY <1>1 DEF LeaveAll
<1> QED
  BY <1>1, <1>2, LeavesOthers

(* Everyone: what is in some room. *)
Joins(f, parts, m) == f = [i \in 1 .. m |-> IF i = 1 THEN parts[i] ELSE f[i - 1] \o parts[i]]

LEMMA JoinsExists ==
  ASSUME NEW parts
  PROVE  \A m \in Nat : \E f : Joins(f, parts, m)
<1> DEFINE T == {m \in Nat : ~ \E f : Joins(f, parts, m)}
<1> SUFFICES ASSUME T # {} PROVE FALSE
  OBVIOUS
<1>1. PICK m \in T : \A k \in T : m <= k
  BY LeastOf
<1>2. m # 0
  <2>1. Joins([i \in 1 .. 0 |-> 0], parts, 0)
    BY DEF Joins
  <2> QED
    BY <2>1
<1>3. PICK f : Joins(f, parts, m - 1)
  <2>1. m - 1 \in Nat /\ ~(m <= m - 1)
    BY <1>2
  <2> QED
    BY <1>1, <2>1
<1> DEFINE More(a, i) == a \o parts[i]
           g == [i \in 1 .. m |-> IF i = m /\ m # 1 THEN More(f[m - 1], m) ELSE IF i = m THEN parts[1] ELSE f[i]]
<1>4. Joins(g, parts, m)
  <2> HIDE DEF More
  <2>1. f = [i \in 1 .. m - 1 |-> IF i = 1 THEN parts[i] ELSE More(f[i - 1], i)]
    BY <1>3 DEF Joins, More
  <2>2. ASSUME NEW i \in 1 .. m PROVE g[i] = IF i = 1 THEN parts[i] ELSE More(g[i - 1], i)
    <3>1. CASE i = m /\ m = 1
      BY <3>1
    <3>2. CASE i = m /\ m # 1
      <4>1. g[i] = More(f[m - 1], m) /\ m - 1 \in 1 .. m /\ m - 1 # m
        BY <1>2, <3>2
      <4>2. g[m - 1] = f[m - 1]
        BY <4>1
      <4> QED
        BY <3>2, <4>1, <4>2
    <3>3. CASE i # m
      <4>1. i \in 1 .. m - 1 /\ g[i] = f[i]
        BY <1>2, <3>3
      <4>2. i # 1 => i - 1 \in 1 .. m /\ i - 1 # m
        BY <4>1
      <4>3. i # 1 => g[i - 1] = f[i - 1]
        BY <4>2
      <4> QED
        BY <2>1, <4>1, <4>3
    <3> QED
      BY <3>1, <3>2, <3>3
  <2>3. g = [i \in 1 .. m |-> IF i = 1 THEN parts[i] ELSE More(g[i - 1], i)]
    BY <2>2
  <2> QED
    BY <2>3 DEF Joins, More
<1> QED
  BY <1>4

LEMMA JoinedRange ==
  ASSUME NEW S, NEW s \in Seq(S), NEW u \in Seq(S)
  PROVE  s \o u \in Seq(S) /\ Range(s \o u) \subseteq Range(s) \cup Range(u)
<1>1. s \o u \in Seq(S) /\ DOMAIN (s \o u) = 1 .. Len(s) + Len(u)
  OBVIOUS
<1>2. ASSUME NEW i \in 1 .. Len(s) + Len(u) PROVE (s \o u)[i] \in Range(s) \cup Range(u)
  <2>1. CASE i <= Len(s)
    <3>1. i \in 1 .. Len(s) /\ (s \o u)[i] = s[i]
      BY <2>1
    <3> QED
      BY <3>1, InRange
  <2>2. CASE ~(i <= Len(s))
    <3>1. i - Len(s) \in 1 .. Len(u) /\ (s \o u)[i] = u[i - Len(s)]
      BY <2>2
    <3> QED
      BY <3>1, InRange
  <2> QED
    BY <2>1, <2>2
<1> QED
  BY <1>1, <1>2 DEF Range

LEMMA Flattened ==
  ASSUME NEW S, NEW U, NEW parts \in Seq(Seq(S)), \A i \in 1 .. Len(parts) : Range(parts[i]) \subseteq U
  PROVE  FlattenSeq(parts) \in Seq(S) /\ Range(FlattenSeq(parts)) \subseteq U
<1>0. Len(parts) \in Nat
  OBVIOUS
<1>1. CASE Len(parts) = 0
  <2>1. FlattenSeq(parts) = parts /\ parts = <<>>
    BY <1>1 DEF FlattenSeq
  <2> QED
    BY <2>1 DEF Range
<1>2. CASE Len(parts) # 0
  <2>1. \E f : Joins(f, parts, Len(parts))
    BY <1>0, JoinsExists
  <2>2. FlattenSeq(parts) = (CHOOSE f : Joins(f, parts, Len(parts)))[Len(parts)]
    BY <1>2, Zenon DEF FlattenSeq, Joins
  <2>3. PICK f : Joins(f, parts, Len(parts)) /\ FlattenSeq(parts) = f[Len(parts)]
    BY <2>1, <2>2, Zenon
  <2> DEFINE Right(n) == f[n] \in Seq(S) /\ Range(f[n]) \subseteq U
             T == {m \in 1 .. Len(parts) : ~Right(m)}
  <2>4. T = {}
    <3> SUFFICES ASSUME T # {} PROVE FALSE
      OBVIOUS
    <3>1. T \subseteq Nat
      OBVIOUS
    <3>2. PICK n \in T : \A k \in T : n <= k
      BY <3>1, LeastOf
    <3>3. parts[n] \in Seq(S) /\ Range(parts[n]) \subseteq U
      BY <3>2
    <3>4. n # 1
      <4>1. n = 1 => f[n] = parts[n]
        BY <2>3, <3>2 DEF Joins
      <4> QED
        BY <3>2, <3>3, <4>1
    <3>5. n - 1 \in 1 .. Len(parts) /\ ~(n <= n - 1)
      BY <3>2, <3>4
    <3>6. Right(n - 1)
      BY <3>2, <3>5
    <3>7. f[n] = f[n - 1] \o parts[n]
      BY <2>3, <3>2, <3>4 DEF Joins
    <3>8. Right(n)
      BY <3>3, <3>6, <3>7, JoinedRange
    <3> QED
      BY <3>2, <3>8
  <2> QED
    BY <1>0, <1>2, <2>3, <2>4
<1> QED
  BY <1>1, <1>2

LEMMA EveryoneJoined ==
  ASSUME rooms \in [RoomNames -> Seq(Chans)]
  PROVE  /\ Everyone \in Seq(Chans)
         /\ \A c \in Range(Everyone) : \E r \in RoomNames : c \in Range(rooms[r])
<1>1. Cardinality(RoomNames) \in Nat /\ ExistsBijection(1 .. Cardinality(RoomNames), RoomNames)
  BY FS_CardinalityType, RoomsAssumption DEF RoomsAssumption
<1>2. \E f \in [1 .. Cardinality(RoomNames) -> RoomNames] : IsInjective(f)
  BY <1>1, Zenon DEF ExistsBijection, Bijection, Injection
<1>3. SetToSeq(RoomNames) \in [1 .. Cardinality(RoomNames) -> RoomNames]
  BY <1>2, Zenon DEF SetToSeq
<1> DEFINE parts == [i \in 1 .. Cardinality(RoomNames) |-> rooms[SetToSeq(RoomNames)[i]]]
           U == UNION {Range(rooms[r]) : r \in RoomNames}
<1>4. parts \in Seq(Seq(Chans)) /\ Len(parts) = Cardinality(RoomNames)
  BY <1>1, <1>3
<1>5. \A i \in 1 .. Len(parts) : Range(parts[i]) \subseteq U
  BY <1>3, <1>4
<1>6. Everyone = FlattenSeq(parts)
  BY Zenon DEF Everyone
<1> HIDE DEF parts
<1>7. Everyone \in Seq(Chans) /\ Range(Everyone) \subseteq U
  BY <1>4, <1>5, <1>6, Flattened
<1> QED
  BY <1>7

-----------------------------------------------------------------------------
(* The parts of the inductive invariant.                                   *)

Phases  == {"new", "bound", "open", "lost", "firing", "gone"}
Begun   == {"bound", "open"}

(* What a call of a thread is, by where the thread is in it. *)
OnChannel == {"release", "mediaBinary", "mediaHook", "mediaRoom", "mediaNote", "mediaLeave", "fragment", "queue"}
OnRoom    == {"deliver", "mediaBinary", "mediaHook", "mediaRoom", "mediaNote", "mediaLeave", "mediaCopy"}
Sending   == {"fragment", "queue"}

CallsRight == \A t \in Threads :
  /\ pc[t] # "idle" => call[t].does # "none"
  /\ pc[t] \in OnChannel => call[t].chan \in Chans
  /\ pc[t] \in OnRoom => call[t].room \in RoomNames
  /\ pc[t] \in Sending => call[t].key = None /\ call[t].piece \in 1 .. Pieces
  /\ pc[t] = "queue" =>
       /\ call[t].frame \in Frames /\ call[t].frame.by = t /\ call[t].frame.n = calls[t]
       /\ call[t].frame.key = None /\ call[t].frame.seq = call[t].piece
       /\ call[t].frame.fin = (call[t].piece = Pieces)

(* A channel that something refers to has an address that is its own. *)
Shared ==
  /\ \A c \in Chans : Referenced(c) => phase[c] # "new"
  /\ \A c, d \in Chans : Referenced(c) /\ Referenced(d) /\ addr[c] = addr[d] => c = d

(* The close handlers: App's is the first of a channel, the others are     *)
(* pulse_media's, and each is run once.                                    *)
HookRight(c) ==
  /\ phase[c] = "new" => onClose[c] = <<>>
  /\ phase[c] = "gone" => c \notin live
  /\ phase[c] # "new" => onClose[c] # <<>> /\ Head(onClose[c]) = "easy"
  /\ phase[c] = "firing" /\ c \in live => hooks[c] # <<>> /\ Head(hooks[c]) = "easy"
  /\ "media" \in Range(onClose[c]) => onBinary[c]
  /\ \A t \in Threads : pc[t] = "mediaHook" /\ call[t].chan = c => onBinary[c]

HooksRight == \A c \in Chans : HookRight(c)

(* Who is in a room without having joined late has a handler to come, or a *)
(* release under way, that takes it out.                                   *)
Releasing(c) == \E t \in Threads : pc[t] = "release" /\ call[t].chan = c

Members == \A c \in Chans \ late : \A r \in RoomNames : c \in Range(rooms[r]) =>
  \/ c \in live \/ Releasing(c)
  \/ phase[c] = "firing" /\ hooks[c] # <<>> /\ Head(hooks[c]) = "rooms"

(* What pulse_media knows of an address is due to a channel whose handler  *)
(* will clear it, or to an attach under way.                               *)
Attaching(c) == \E t \in Threads : pc[t] \in {"mediaBinary", "mediaHook"} /\ call[t].chan = c

Guarded(c) ==
  \/ Attaching(c)
  \/ phase[c] \in Begun /\ "media" \in Range(onClose[c])
  \/ phase[c] = "firing" /\ "media" \in Range(hooks[c])

Alone(c) == \A d \in Chans \ {c} : addr[d] # addr[c]

Noting(c) == \E t \in Threads : pc[t] \in {"mediaRoom", "mediaNote"} /\ call[t].chan = c

Noted ==
  /\ \A a \in Addrs : a \in attached \/ channelRooms[a] # None => \E c \in Chans : addr[c] = a
  /\ \A c \in Chans \ late : phase[c] \notin {"new", "lost"} /\ Alone(c) =>
       /\ addr[c] \in attached \/ channelRooms[addr[c]] # None => Guarded(c)
       /\ phase[c] \in Begun /\ Noting(c) => Guarded(c)
  /\ \A a \in attached \ stale : \E c \in Chans : addr[c] = a /\ Guarded(c)

(* What threads and rooms have counted bounds what is queued. *)
Holding(t, c) ==
  call[t].chan = c /\ (pc[t] = "fragment" \/ (pc[t] = "queue" /\ call[t].piece < Pieces))

FrameCounted(f) ==
  /\ f.n <= calls[f.by]
  /\ f.key # None => f.seq <= seqCounters[f.key]
  /\ f.n = calls[f.by] /\ pc[f.by] \in {"deliver", "mediaCopy"} => f.seq <= call[f.by].piece
  /\ f.n = calls[f.by] /\ pc[f.by] \in Sending => f.seq < call[f.by].piece
  /\ \A t \in Threads : call[t].key # None /\ f.key = call[t].key /\ f.seq = call[t].piece
                        => f.by = t /\ f.n = calls[t]

Counted == \A c \in Chans : \A i \in DOMAIN queue[c] : FrameCounted(queue[c][i])

(* While a thread holds a channel for its stream, no fragment of another   *)
(* stream but its last follows one of the thread's.                        *)
Follows(c, f, g) == f.n = calls[f.by] /\ ~f.fin /\ Holding(f.by, c) => g.fin \/ SameCall(f, g)

Unbroken ==
  \A c \in Chans : \A i, k \in DOMAIN queue[c] : i < k => Follows(c, queue[c][i], queue[c][k])

Sequenced ==
  /\ \A t \in Threads : call[t].key # None => call[t].piece <= seqCounters[call[t].key]
  /\ \A t, u \in Threads : call[t].key # None /\ call[u].key = call[t].key
                           /\ call[u].piece = call[t].piece => t = u

Held ==
  /\ \A t, u \in Threads, c \in Chans : Holding(t, c) /\ Holding(u, c) => t = u
  /\ \A t \in Threads, c \in Chans : Holding(t, c) => fragActive[c]

-----------------------------------------------------------------------------
(* Types.                                                                  *)

TypeOfChannels ==
  /\ phase \in [Chans -> Phases]
  /\ addr \in [Chans -> Addrs \cup {None}]
  /\ \A c \in Chans : (addr[c] = None) = (phase[c] = "new")
  /\ closed \in [Chans -> BOOLEAN] /\ closeFired \in [Chans -> BOOLEAN]
  /\ \A c \in Chans : closeFired[c] = (phase[c] \in {"firing", "gone"})
  /\ onClose \in [Chans -> Seq(Hooks)] /\ hooks \in [Chans -> Seq(Hooks)]
  /\ onBinary \in [Chans -> BOOLEAN]

TypeOfTables ==
  /\ rooms \in [RoomNames -> Seq(Chans)]
  /\ live \subseteq Chans /\ late \subseteq Chans
  /\ attached \subseteq Addrs /\ stale \subseteq Addrs
  /\ channelRooms \in [Addrs -> RoomNames \cup {None}]
  /\ seqCounters \in [Keys -> Nat]

TypeOfQueues ==
  /\ queue \in [Chans -> Seq(Frames)]
  /\ fragActive \in [Chans -> BOOLEAN] /\ fragFirst \in [Chans -> BOOLEAN]

TypeOfCalls ==
  pc \in [Threads -> Places] /\ call \in [Threads -> Calls] /\ calls \in [Threads -> Nat]

LEMMA TypeParts ==
  /\ TypeOK => TypeOfChannels /\ TypeOfTables /\ TypeOfQueues /\ TypeOfCalls
  /\ TypeOK => \A t \in Threads : (pc[t] = "idle") = (call[t] = Idle)
  /\ TypeOfChannels /\ TypeOfTables /\ TypeOfQueues /\ TypeOfCalls
     /\ (\A t \in Threads : (pc[t] = "idle") = (call[t] = Idle)) => TypeOK
BY Zenon DEF TypeOK, TypeOfChannels, TypeOfTables, TypeOfQueues, TypeOfCalls, Phases

LEMMA NoKey == None \notin Keys /\ \A k \in Keys : k[1] \in RoomNames
BY RoomsAssumption DEF RoomsAssumption, Keys

LEMMA AnyCall ==
  /\ \A d \in AllOps \cup {"none"}, c \in Chans \cup {None}, r \in RoomNames \cup {None},
        k \in Keys \cup {None}, s \in Seq(Chans), f \in Frames \cup {None}, p \in Nat :
       [does |-> d, chan |-> c, room |-> r, key |-> k, todo |-> s, frame |-> f, piece |-> p] \in Calls
  /\ Idle \in Calls
<1>1. \A d \in AllOps \cup {"none"}, c \in Chans \cup {None}, r \in RoomNames \cup {None},
        k \in Keys \cup {None}, s \in Seq(Chans), f \in Frames \cup {None}, p \in Nat :
        [does |-> d, chan |-> c, room |-> r, key |-> k, todo |-> s, frame |-> f, piece |-> p] \in Calls
  BY DEF Calls
<1>2. Idle \in Calls
  BY DEF Calls, Idle
<1> QED
  BY <1>1, <1>2

(* A thread that no step of a worker moves. *)
LEMMA WorkersLeaveThreads ==
  ASSUME NEW c \in Chans, WorkerStep(c)
  PROVE  UNCHANGED <<pc, call, calls, queue, fragActive, fragFirst, seqCounters>>
<1>1. CASE Open(c)
  BY <1>1 DEF Open, fragVars, mediaVars
<1>2. CASE FireClose(c)
  BY <1>2 DEF FireClose, fragVars, mediaVars
<1>3. CASE RunEasyHook(c)
  BY <1>3 DEF RunEasyHook, fragVars, mediaVars
<1>4. CASE RunEasyRooms(c)
  BY <1>4 DEF RunEasyRooms, fragVars, mediaVars
<1>5. CASE RunMediaHook(c)
  BY <1>5 DEF RunMediaHook, fragVars
<1>6. CASE Gone(c)
  BY <1>6 DEF Gone, fragVars, mediaVars
<1>7. CASE Adopt(c) \/ HandlerThrows(c) \/ Refuse(c)
  BY <1>7 DEF Adopt, HandlerThrows, Refuse, fragVars, mediaVars
<1> QED
  BY <1>1, <1>2, <1>3, <1>4, <1>5, <1>6, <1>7 DEF WorkerStep

(* The steps of the worker before there is a handler to run change of what *)
(* TypeOfChannels speaks of the phase or what is closed.                   *)
LEMMA Beginnings ==
  ASSUME NEW c \in Chans
  PROVE  /\ Adopt(c) => phase[c] = "bound" /\ phase' = [phase EXCEPT ![c] = "open"] /\ closed' = closed
         /\ HandlerThrows(c) => phase[c] = "bound" /\ phase' = [phase EXCEPT ![c] = "lost"] /\ closed' = closed
         /\ Refuse(c) => phase[c] = "open" /\ phase' = phase /\ closed' = [closed EXCEPT ![c] = TRUE]
         /\ Adopt(c) \/ HandlerThrows(c) \/ Refuse(c) =>
              UNCHANGED <<addr, closeFired, hooks, onClose, onBinary, live, rooms, attached, channelRooms, late>>
         /\ Adopt(c) \/ Refuse(c) => stale' = stale
BY DEF Adopt, HandlerThrows, Refuse, mediaVars, history

(* Threads change of a channel's own state only its handlers. *)
LEMMA ThreadsLeaveChannels ==
  ASSUME NEW t \in Threads, ThreadStep(t)
  PROVE  /\ UNCHANGED <<phase, addr, closed, closeFired, hooks>>
         /\ UNCHANGED <<onClose, onBinary>> \/ MediaBinary(t) \/ MediaHook(t)
<1>1. CASE Join(t) \/ Leave(t) \/ LeaveEverything(t) \/ Prune(t) \/ Release(t) \/ ReleaseRooms(t)
  BY <1>1 DEF Join, Leave, LeaveEverything, Prune, Release, ReleaseRooms, chanVars
<1>2. CASE Broadcast(t) \/ Deliver(t) \/ Send(t) \/ Stream(t) \/ WriteFragment(t) \/ QueueFragment(t)
  BY <1>2 DEF Broadcast, Deliver, Send, Stream, WriteFragment, QueueFragment, chanVars
<1>3. CASE MediaJoin(t) \/ MediaRoom(t) \/ MediaNote(t) \/ MediaLeave(t) \/ MediaLeaveRoom(t)
           \/ MediaSend(t) \/ MediaCopy(t)
  BY <1>3 DEF MediaJoin, MediaRoom, MediaNote, MediaLeave, MediaLeaveRoom, MediaSend, MediaCopy, chanVars
<1>4. CASE MediaBinary(t)
  BY <1>4 DEF MediaBinary
<1>5. CASE MediaHook(t)
  BY <1>5 DEF MediaHook
<1> QED
  BY <1>1, <1>2, <1>3, <1>4, <1>5, Zenon DEF ThreadStep

LEMMA HookTypes ==
  /\ <<"easy">> \in Seq(Hooks) /\ Head(<<"easy">>) = "easy" /\ Range(<<"easy">>) = {"easy"}
  /\ \A s \in Seq(Hooks) : s # <<>> =>
       /\ Tail(s) \in Seq(Hooks) /\ <<"rooms">> \o Tail(s) \in Seq(Hooks)
       /\ <<"rooms">> \o Tail(s) # <<>> /\ Head(<<"rooms">> \o Tail(s)) = "rooms"
       /\ Range(s) \subseteq Range(Tail(s)) \cup {Head(s)} /\ Range(Tail(s)) \subseteq Range(s)
       /\ Range(Tail(s)) \subseteq Range(<<"rooms">> \o Tail(s))
       /\ Append(s, "media") # <<>> /\ Head(Append(s, "media")) = Head(s)
  /\ \A s \in Seq(Hooks) :
       Append(s, "media") \in Seq(Hooks) /\ Range(Append(s, "media")) = Range(s) \cup {"media"}
<1>1. <<"easy">> \in Seq(Hooks) /\ Head(<<"easy">>) = "easy" /\ Range(<<"easy">>) = {"easy"}
  BY DEF Hooks, Range
<1>2. ASSUME NEW s \in Seq(Hooks), s # <<>>
      PROVE  /\ Tail(s) \in Seq(Hooks) /\ <<"rooms">> \o Tail(s) \in Seq(Hooks)
             /\ <<"rooms">> \o Tail(s) # <<>> /\ Head(<<"rooms">> \o Tail(s)) = "rooms"
             /\ Append(s, "media") # <<>> /\ Head(Append(s, "media")) = Head(s)
  <2>0. Tail(s) \in Seq(Hooks)
    BY <1>2, TailRange
  <2>1. PICK u \in Seq(Hooks) : u = Tail(s)
    BY <2>0
  <2>2. <<"rooms">> \in Seq(Hooks) /\ Len(<<"rooms">>) = 1 /\ <<"rooms">>[1] = "rooms"
    BY DEF Hooks
  <2>3. /\ <<"rooms">> \o u \in Seq(Hooks) /\ Len(<<"rooms">> \o u) = Len(u) + 1
        /\ (<<"rooms">> \o u)[1] = "rooms"
    BY <2>2
  <2>4. <<"rooms">> \o u # <<>> /\ Head(<<"rooms">> \o u) = "rooms"
    BY <2>3
  <2>5. Append(s, "media") # <<>> /\ Head(Append(s, "media")) = Head(s)
    BY <1>2
  <2> QED
    BY <2>1, <2>3, <2>4, <2>5
<1>3. ASSUME NEW s \in Seq(Hooks), s # <<>>
      PROVE  Range(s) \subseteq Range(Tail(s)) \cup {Head(s)} /\ Range(Tail(s)) \subseteq Range(s)
  <2>0. Tail(s) \in Seq(Hooks)
    BY <1>3, TailRange
  <2>1. PICK u \in Seq(Hooks) : u = Tail(s)
    BY <2>0
  <2>2. /\ Len(u) = Len(s) - 1 /\ \A i \in 1 .. Len(s) - 1 : u[i] = s[i + 1]
        /\ Head(s) = s[1] /\ Len(s) \in Nat \ {0} /\ Range(u) \subseteq Range(s)
    BY <1>3, <2>1, TailRange
  <2>3. ASSUME NEW i \in 1 .. Len(s) PROVE s[i] \in Range(u) \cup {Head(s)}
    <3>1. CASE i = 1
      BY <2>2, <3>1
    <3>2. CASE i # 1
      <4>1. i - 1 \in 1 .. Len(u) /\ u[i - 1] = s[i]
        BY <2>2, <3>2
      <4> QED
        BY <4>1, InRange
    <3> QED
      BY <3>1, <3>2
  <2>4. Range(s) \subseteq Range(u) \cup {Head(s)}
    BY <2>3, InRange
  <2> QED
    BY <2>1, <2>2, <2>4
<1>4. ASSUME NEW s \in Seq(Hooks), s # <<>>
      PROVE  Range(Tail(s)) \subseteq Range(<<"rooms">> \o Tail(s))
  <2>0. Tail(s) \in Seq(Hooks)
    BY <1>4, TailRange
  <2>1. PICK u \in Seq(Hooks) : u = Tail(s)
    BY <2>0
  <2>a. <<"rooms">> \in Seq(Hooks)
    BY DEF Hooks
  <2>2. PICK w \in Seq(Hooks) : w = <<"rooms">>
    BY <2>a
  <2>3. w \o u \in Seq(Hooks) /\ Len(w) = 1 /\ Len(w \o u) = Len(u) + 1
    BY <2>2
  <2>4. ASSUME NEW i \in 1 .. Len(u) PROVE u[i] \in Range(w \o u)
    <3>1. i + 1 \in 1 .. Len(w \o u) /\ (w \o u)[i + 1] = u[i]
      BY <2>3
    <3> QED
      BY <2>3, <3>1, InRange
  <2>5. Range(u) \subseteq Range(w \o u)
    BY <2>4, InRange
  <2> QED
    BY <2>1, <2>2, <2>5
<1>5. ASSUME NEW s \in Seq(Hooks)
      PROVE  Append(s, "media") \in Seq(Hooks) /\ Range(Append(s, "media")) = Range(s) \cup {"media"}
  <2>1. "media" \in Hooks
    BY DEF Hooks
  <2> QED
    BY <2>1, AppendedRange
<1> QED
  BY <1>1, <1>2, <1>3, <1>4, <1>5

LEMMA ChannelsStayTyped ==
  ASSUME TypeOfChannels, \A t \in Threads : pc[t] \in OnChannel => call[t].chan \in Chans, [Next]_vars
  PROVE  TypeOfChannels'
<1>1. CASE UNCHANGED <<phase, addr, closed, closeFired, hooks, onClose, onBinary>>
  BY <1>1, Zenon DEF TypeOfChannels
<1>2. ASSUME NEW t \in Threads, MediaBinary(t) PROVE TypeOfChannels'
  <2>1. call[t].chan \in Chans /\ onBinary' = [onBinary EXCEPT ![call[t].chan] = TRUE]
        /\ UNCHANGED <<phase, addr, closed, closeFired, onClose, hooks>>
    BY <1>2 DEF MediaBinary, OnChannel
  <2> QED
    BY <2>1 DEF TypeOfChannels
<1>3. ASSUME NEW t \in Threads, MediaHook(t) PROVE TypeOfChannels'
  <2>1. PICK c \in Chans : c = call[t].chan
    BY <1>3 DEF MediaHook, OnChannel
  <2>2. onClose' = [onClose EXCEPT ![c] = Append(onClose[c], "media")]
        /\ UNCHANGED <<phase, addr, closed, closeFired, onBinary, hooks>>
    BY <1>3, <2>1 DEF MediaHook
  <2>3. Append(onClose[c], "media") \in Seq(Hooks)
    BY HookTypes DEF TypeOfChannels
  <2>4. onClose' \in [Chans -> Seq(Hooks)]
    BY <2>2, <2>3 DEF TypeOfChannels
  <2> QED
    BY <2>2, <2>4, Zenon DEF TypeOfChannels
<1>4. ASSUME NEW c \in Chans, Open(c) PROVE TypeOfChannels'
  <2>1. PICK a \in Addrs : addr' = [addr EXCEPT ![c] = a]
    BY <1>4 DEF Open
  <2>2. /\ phase[c] = "new" /\ phase' = [phase EXCEPT ![c] = "bound"]
        /\ onClose' = [onClose EXCEPT ![c] = <<"easy">>]
        /\ UNCHANGED <<closed, closeFired, hooks, onBinary>>
    BY <1>4 DEF Open
  <2>3. a # None
    BY RoomsAssumption DEF RoomsAssumption
  <2>4. onClose' \in [Chans -> Seq(Hooks)]
    BY <2>2, HookTypes DEF TypeOfChannels
  <2>5. phase' \in [Chans -> Phases] /\ addr' \in [Chans -> Addrs \cup {None}]
    BY <2>1, <2>2 DEF TypeOfChannels, Phases
  <2>6. ASSUME NEW d \in Chans PROVE (addr'[d] = None) = (phase'[d] = "new")
    BY <2>1, <2>2, <2>3 DEF TypeOfChannels
  <2>7. ASSUME NEW d \in Chans PROVE closeFired'[d] = (phase'[d] \in {"firing", "gone"})
    BY <2>2 DEF TypeOfChannels
  <2> QED
    BY <2>2, <2>4, <2>5, <2>6, <2>7 DEF TypeOfChannels
<1>5. ASSUME NEW c \in Chans, FireClose(c) PROVE TypeOfChannels'
  <2>1. /\ phase[c] = "open" /\ phase' = [phase EXCEPT ![c] = "firing"]
        /\ closed' \in {closed, [closed EXCEPT ![c] = TRUE]}
        /\ closeFired' = [closeFired EXCEPT ![c] = TRUE]
        /\ hooks' = [hooks EXCEPT ![c] = onClose[c]]
        /\ UNCHANGED <<addr, onClose, onBinary>>
    BY <1>5 DEF FireClose
  <2>2. hooks' \in [Chans -> Seq(Hooks)]
    BY <2>1 DEF TypeOfChannels
  <2>3. ASSUME NEW d \in Chans PROVE (addr'[d] = None) = (phase'[d] = "new")
    BY <2>1 DEF TypeOfChannels
  <2>4. ASSUME NEW d \in Chans PROVE closeFired'[d] = (phase'[d] \in {"firing", "gone"})
    BY <2>1 DEF TypeOfChannels
  <2>5. /\ phase' \in [Chans -> Phases]
        /\ closed' \in [Chans -> BOOLEAN] /\ closeFired' \in [Chans -> BOOLEAN]
    BY <2>1 DEF TypeOfChannels, Phases
  <2> QED
    BY <2>1, <2>2, <2>3, <2>4, <2>5 DEF TypeOfChannels
<1>6. ASSUME NEW c \in Chans, RunEasyHook(c) \/ RunEasyRooms(c) \/ RunMediaHook(c) PROVE TypeOfChannels'
  <2>1. /\ hooks[c] # <<>>
        /\ hooks' \in {[hooks EXCEPT ![c] = Tail(hooks[c])], [hooks EXCEPT ![c] = <<"rooms">> \o Tail(hooks[c])]}
        /\ UNCHANGED <<phase, addr, closed, closeFired, onClose, onBinary>>
    BY <1>6 DEF RunEasyHook, RunEasyRooms, RunMediaHook
  <2>2. Tail(hooks[c]) \in Seq(Hooks) /\ <<"rooms">> \o Tail(hooks[c]) \in Seq(Hooks)
    BY <2>1, HookTypes DEF TypeOfChannels
  <2>3. hooks' \in [Chans -> Seq(Hooks)]
    BY <2>1, <2>2 DEF TypeOfChannels
  <2> QED
    BY <2>1, <2>3, Zenon DEF TypeOfChannels
<1>7. ASSUME NEW c \in Chans, Gone(c) PROVE TypeOfChannels'
  <2>1. /\ phase[c] = "firing" /\ phase' = [phase EXCEPT ![c] = "gone"]
        /\ closed' = [closed EXCEPT ![c] = TRUE]
        /\ UNCHANGED <<addr, closeFired, onClose, hooks, onBinary>>
    BY <1>7 DEF Gone
  <2>2. ASSUME NEW d \in Chans PROVE (addr'[d] = None) = (phase'[d] = "new")
    BY <2>1 DEF TypeOfChannels
  <2>3. ASSUME NEW d \in Chans PROVE closeFired'[d] = (phase'[d] \in {"firing", "gone"})
    BY <2>1 DEF TypeOfChannels
  <2>4. phase' \in [Chans -> Phases] /\ closed' \in [Chans -> BOOLEAN]
    BY <2>1 DEF TypeOfChannels, Phases
  <2> QED
    BY <2>1, <2>2, <2>3, <2>4 DEF TypeOfChannels
<1>11. ASSUME NEW c \in Chans, Adopt(c) \/ HandlerThrows(c) \/ Refuse(c) PROVE TypeOfChannels'
  <2>1. /\ phase' = phase \/ \E p \in {"open", "lost"} : phase[c] = "bound" /\ phase' = [phase EXCEPT ![c] = p]
        /\ closed' = closed \/ closed' = [closed EXCEPT ![c] = TRUE]
        /\ UNCHANGED <<addr, closeFired, onClose, hooks, onBinary>>
    BY <1>11, Beginnings
  <2>2. ASSUME NEW d \in Chans PROVE (addr'[d] = None) = (phase'[d] = "new")
    <3>1. phase'[d] = phase[d] \/ (phase[d] # "new" /\ phase'[d] # "new")
      BY <2>1 DEF TypeOfChannels
    <3> QED
      BY <2>1, <3>1 DEF TypeOfChannels
  <2>3. ASSUME NEW d \in Chans PROVE closeFired'[d] = (phase'[d] \in {"firing", "gone"})
    <3>1. phase'[d] = phase[d] \/ (phase[d] = "bound" /\ phase'[d] \in {"open", "lost"})
      BY <2>1 DEF TypeOfChannels
    <3> QED
      BY <2>1, <3>1 DEF TypeOfChannels
  <2>4. phase' \in [Chans -> Phases] /\ closed' \in [Chans -> BOOLEAN]
    BY <2>1 DEF TypeOfChannels, Phases
  <2> QED
    BY <2>1, <2>2, <2>3, <2>4 DEF TypeOfChannels
<1>8. CASE UNCHANGED vars
  BY <1>1, <1>8 DEF vars, chanVars
<1>9. ASSUME NEW t \in Threads, ThreadStep(t) PROVE TypeOfChannels'
  BY <1>1, <1>2, <1>3, <1>9, ThreadsLeaveChannels
<1>10. ASSUME NEW c \in Chans, WorkerStep(c) PROVE TypeOfChannels'
  BY <1>4, <1>5, <1>6, <1>7, <1>10, <1>11, Zenon DEF WorkerStep
<1> QED
  BY <1>8, <1>9, <1>10, Zenon DEF Next

(* One thread: where it is, its call, how many calls it has made. *)
CallIs(t, p, x, n) ==
  /\ p \in Places /\ x \in Calls /\ n \in Nat
  /\ (p = "idle") = (x = Idle)
  /\ p # "idle" => x.does # "none"
  /\ p \in OnChannel => x.chan \in Chans
  /\ p \in OnRoom => x.room \in RoomNames
  /\ p \in Sending => x.key = None /\ x.piece \in 1 .. Pieces
  /\ p = "queue" =>
       /\ x.frame \in Frames /\ x.frame.by = t /\ x.frame.n = n
       /\ x.frame.key = None /\ x.frame.seq = x.piece /\ x.frame.fin = (x.piece = Pieces)

LEMMA EachCall ==
  ASSUME TypeOK, CallsRight
  PROVE  \A t \in Threads : CallIs(t, pc[t], call[t], calls[t])
BY DEF TypeOK, CallsRight, CallIs

LEMMA ThreadMoves ==
  ASSUME TypeOK, CallsRight, NEW t \in Threads, NEW p, NEW x, NEW n, CallIs(t, p, x, n),
         pc' = [pc EXCEPT ![t] = p] \/ (pc' = pc /\ p = pc[t]),
         call' = [call EXCEPT ![t] = x] \/ (call' = call /\ x = call[t]),
         calls' = [calls EXCEPT ![t] = n] \/ (calls' = calls /\ n = calls[t])
  PROVE  TypeOfCalls' /\ CallsRight' /\ \A u \in Threads : (pc'[u] = "idle") = (call'[u] = Idle)
<1>1. /\ pc \in [Threads -> Places] /\ call \in [Threads -> Calls] /\ calls \in [Threads -> Nat]
      /\ p \in Places /\ x \in Calls /\ n \in Nat
  BY Zenon DEF TypeOK, CallIs
<1>2. /\ pc' \in [Threads -> Places] /\ call' \in [Threads -> Calls] /\ calls' \in [Threads -> Nat]
      /\ pc'[t] = p /\ call'[t] = x /\ calls'[t] = n
      /\ \A u \in Threads \ {t} : pc'[u] = pc[u] /\ call'[u] = call[u] /\ calls'[u] = calls[u]
  BY <1>1
<1>3. \A u \in Threads : CallIs(u, pc'[u], call'[u], calls'[u])
  <2> SUFFICES ASSUME NEW u \in Threads PROVE CallIs(u, pc'[u], call'[u], calls'[u])
    OBVIOUS
  <2>1. CallIs(u, pc[u], call[u], calls[u])
    BY EachCall
  <2>2. CASE u = t
    BY <1>2, <2>2
  <2>3. CASE u # t
    BY <1>2, <2>1, <2>3
  <2> QED
    BY <2>2, <2>3
<1>4. CallsRight'
  BY <1>3, Zenon DEF CallsRight, CallIs
<1>5. \A u \in Threads : (pc'[u] = "idle") = (call'[u] = Idle)
  BY <1>3, Zenon DEF CallIs
<1> QED
  BY <1>2, <1>4, <1>5 DEF TypeOfCalls

(* A call that has no frame to queue. *)
LEMMA PlainCall ==
  ASSUME NEW t \in Threads, NEW p \in Places \ {"idle", "queue"}, NEW d \in AllOps,
         NEW c \in Chans \cup {None}, NEW r \in RoomNames \cup {None}, NEW k \in Keys \cup {None},
         NEW s \in Seq(Chans), NEW m \in Nat, NEW n \in Nat, NEW x,
         x = [does |-> d, chan |-> c, room |-> r, key |-> k, todo |-> s, frame |-> None, piece |-> m],
         p \in OnChannel => c \in Chans, p \in OnRoom => r \in RoomNames,
         p \in Sending => k = None /\ m \in 1 .. Pieces
  PROVE  CallIs(t, p, x, n)
<1>1. x \in Calls
  BY AnyCall
<1>2. x.does = d /\ x.chan = c /\ x.room = r /\ x.key = k /\ x.piece = m /\ d # "none" /\ Idle.does = "none"
  BY DEF AllOps, Idle
<1>3. x # Idle
  BY <1>2
<1> QED
  BY <1>1, <1>2, <1>3 DEF CallIs

LEMMA CallsStayRight ==
  ASSUME TypeOK, CallsRight, [Next]_vars
  PROVE  TypeOfCalls' /\ CallsRight' /\ \A u \in Threads : (pc'[u] = "idle") = (call'[u] = Idle)
<1> DEFINE Goal == TypeOfCalls' /\ CallsRight' /\ \A u \in Threads : (pc'[u] = "idle") = (call'[u] = Idle)
<1> HIDE DEF Goal
<1>0. /\ pc \in [Threads -> Places] /\ call \in [Threads -> Calls] /\ calls \in [Threads -> Nat]
      /\ rooms \in [RoomNames -> Seq(Chans)] /\ seqCounters \in [Keys -> Nat]
      /\ live \subseteq Chans /\ None \notin RoomNames /\ <<>> \in Seq(Chans)
  BY RoomsAssumption DEF RoomsAssumption, TypeOK
<1>k. None \notin Keys /\ \A k \in Keys : k[1] \in RoomNames
  BY NoKey
<1>a. \A t \in Threads : CallIs(t, pc[t], call[t], calls[t])
  BY EachCall
<1>b. \A t \in Threads : CallIs(t, "idle", Idle, calls[t])
  BY <1>0, AnyCall DEF CallIs, Places, OnChannel, OnRoom, Sending
<1>c. \A t \in Threads : /\ pc[t] \in Places /\ call[t] \in Calls /\ calls[t] \in Nat /\ calls[t] + 1 \in Nat
                         /\ call[t].todo \in Seq(Chans) /\ call[t].chan \in Chans \cup {None}
                         /\ call[t].room \in RoomNames \cup {None} /\ call[t].piece \in Nat
                         /\ call[t].key \in Keys \cup {None}
  BY <1>0 DEF Calls
<1>1. ASSUME UNCHANGED <<pc, call, calls>> PROVE Goal
  BY <1>1, Zenon DEF Goal, TypeOfCalls, TypeOK, CallsRight
<1>2. ASSUME NEW t \in Threads, Join(t) \/ Leave(t) \/ LeaveEverything(t) \/ Prune(t) \/ Send(t) PROVE Goal
  <2>1. pc[t] = "idle" /\ UNCHANGED <<pc, call>> /\ calls' = [calls EXCEPT ![t] = calls[t] + 1]
    BY <1>2 DEF Join, Leave, LeaveEverything, Prune, Send, Begin
  <2>2. CallIs(t, pc[t], call[t], calls[t] + 1)
    BY <1>a, <1>c, <2>1 DEF CallIs
  <2> QED
    BY <2>1, <2>2, ThreadMoves DEF Goal
<1>3. ASSUME NEW t \in Threads, pc' = [pc EXCEPT ![t] = "idle"], call' = [call EXCEPT ![t] = Idle],
             calls' = calls PROVE Goal
  BY <1>3, <1>b, ThreadMoves DEF Goal
<1>4. ASSUME NEW t \in Threads, ReleaseRooms(t) \/ MediaNote(t) \/ MediaLeaveRoom(t) PROVE Goal
  <2>1. Return(t) /\ calls' = calls
    BY <1>4 DEF ReleaseRooms, MediaNote, MediaLeaveRoom
  <2> QED
    BY <1>3, <2>1 DEF Return
<1>5. ASSUME NEW t \in Threads, Release(t) PROVE Goal
  <2>1. PICK c \in live : call' = [call EXCEPT ![t] = [Idle EXCEPT !.does = "release", !.chan = c]]
    BY <1>5 DEF Release
  <2>2. pc' = [pc EXCEPT ![t] = "release"] /\ calls' = [calls EXCEPT ![t] = calls[t] + 1]
    BY <1>5 DEF Release, Begin
  <2>3. PICK x : x = [Idle EXCEPT !.does = "release", !.chan = c]
    OBVIOUS
  <2>4. x = [does |-> "release", chan |-> c, room |-> None, key |-> None, todo |-> <<>>, frame |-> None, piece |-> 0]
    BY <2>3 DEF Idle
  <2>5. CallIs(t, "release", x, calls[t] + 1)
    BY <1>0, <1>c, <2>4, PlainCall DEF AllOps, Places, OnChannel, OnRoom, Sending
  <2> QED
    BY <2>1, <2>2, <2>3, <2>5, ThreadMoves DEF Goal
<1>6. ASSUME NEW t \in Threads, Broadcast(t) PROVE Goal
  <2>1. PICK r \in RoomNames, does \in {"broadcast", "broadcastAll"} :
          call' = [call EXCEPT ![t] = [Idle EXCEPT !.does = does, !.room = r,
                                         !.todo = IF does = "broadcast" THEN rooms[r] ELSE Everyone]]
    BY <1>6 DEF Broadcast
  <2>2. pc' = [pc EXCEPT ![t] = "deliver"] /\ calls' = [calls EXCEPT ![t] = calls[t] + 1]
    BY <1>6 DEF Broadcast, Begin
  <2>3. PICK s \in Seq(Chans) : s = IF does = "broadcast" THEN rooms[r] ELSE Everyone
    BY <1>0, EveryoneJoined
  <2>4. PICK x : x = [Idle EXCEPT !.does = does, !.room = r, !.todo = s]
    OBVIOUS
  <2>5. x = [does |-> does, chan |-> None, room |-> r, key |-> None, todo |-> s, frame |-> None, piece |-> 0]
    BY <2>4 DEF Idle
  <2>a. /\ does \in AllOps /\ "deliver" \in Places \ {"idle", "queue"} /\ 0 \in Nat /\ calls[t] + 1 \in Nat
        /\ "deliver" \notin OnChannel /\ "deliver" \notin Sending
    BY <1>c DEF AllOps, Places, OnChannel, Sending
  <2>6. CallIs(t, "deliver", x, calls[t] + 1)
    BY <2>5, <2>a, PlainCall
  <2> QED
    BY <2>1, <2>2, <2>3, <2>4, <2>6, ThreadMoves DEF Goal
<1>7. ASSUME NEW t \in Threads, Deliver(t) PROVE Goal
  <2>1. CASE call[t].todo = <<>>
    BY <1>3, <1>7, <2>1 DEF Deliver, Return
  <2>2. CASE call[t].todo # <<>>
    <3>1. /\ pc[t] = "deliver" /\ pc' = pc /\ calls' = calls
          /\ call' = [call EXCEPT ![t].todo = Tail(call[t].todo)]
      BY <1>7, <2>2 DEF Deliver
    <3>2. PICK s \in Seq(Chans) : s = Tail(call[t].todo)
      BY <1>c, <2>2, TailRange
    <3>3. PICK x : x = [call[t] EXCEPT !.todo = s]
      OBVIOUS
    <3>4. call' = [call EXCEPT ![t] = x]
      BY <1>0, <3>1, <3>2, <3>3
    <3>5. /\ x \in Calls /\ x.does = call[t].does /\ x.chan = call[t].chan /\ x.room = call[t].room
          /\ x.key = call[t].key /\ x.piece = call[t].piece /\ x.frame = call[t].frame
      BY <1>c, <3>3 DEF Calls
    <3>6. x # Idle
      <4>1. x.does # "none"
        BY <3>1, <3>5 DEF CallsRight
      <4> QED
        BY <4>1 DEF Idle
    <3>7. CallIs(t, "deliver", x, calls[t])
      BY <1>a, <3>1, <3>5, <3>6 DEF CallIs
    <3> QED
      BY <3>1, <3>4, <3>7, ThreadMoves DEF Goal
  <2> QED
    BY <2>1, <2>2
<1>8. ASSUME NEW t \in Threads, MediaJoin(t) PROVE Goal
  <2>1. PICK c \in Chans, r \in RoomNames :
          /\ call' = [call EXCEPT ![t] = [Idle EXCEPT !.does = "mediaJoin", !.chan = c, !.room = r]]
          /\ pc' = [pc EXCEPT ![t] = IF addr[c] \in attached THEN "mediaRoom" ELSE "mediaBinary"]
    BY <1>8 DEF MediaJoin
  <2>2. calls' = [calls EXCEPT ![t] = calls[t] + 1]
    BY <1>8 DEF MediaJoin, Begin
  <2>3. PICK p \in {"mediaRoom", "mediaBinary"} : pc' = [pc EXCEPT ![t] = p]
    BY <2>1
  <2>4. PICK x : x = [Idle EXCEPT !.does = "mediaJoin", !.chan = c, !.room = r]
    OBVIOUS
  <2>5. x = [does |-> "mediaJoin", chan |-> c, room |-> r, key |-> None, todo |-> <<>>, frame |-> None, piece |-> 0]
    BY <2>4 DEF Idle
  <2>6. CallIs(t, p, x, calls[t] + 1)
    <3>1. /\ "mediaJoin" \in AllOps /\ p \in Places \ {"idle", "queue"} /\ 0 \in Nat /\ calls[t] + 1 \in Nat
          /\ p \notin Sending /\ <<>> \in Seq(Chans)
      BY <1>0, <1>c DEF AllOps, Places, Sending
    <3> QED
      BY <2>5, <3>1, PlainCall
  <2> QED
    BY <2>1, <2>2, <2>3, <2>4, <2>6, ThreadMoves DEF Goal
<1>9. ASSUME NEW t \in Threads, NEW p \in OnChannel \cap OnRoom, pc[t] \in OnChannel \cap OnRoom,
             pc' = [pc EXCEPT ![t] = p], UNCHANGED <<call, calls>> PROVE Goal
  <2>1. CallIs(t, p, call[t], calls[t])
    BY <1>a, <1>9 DEF CallIs, OnChannel, OnRoom, Sending, Places
  <2> QED
    BY <1>9, <2>1, ThreadMoves DEF Goal
<1>10. ASSUME NEW t \in Threads, MediaBinary(t) \/ MediaHook(t) \/ MediaRoom(t) PROVE Goal
  <2>1. PICK p \in OnChannel \cap OnRoom :
          pc[t] \in OnChannel \cap OnRoom /\ pc' = [pc EXCEPT ![t] = p] /\ UNCHANGED <<call, calls>>
    BY <1>10 DEF MediaBinary, MediaHook, MediaRoom, OnChannel, OnRoom
  <2> QED
    BY <1>9, <2>1
<1>11. ASSUME NEW t \in Threads, MediaLeave(t) PROVE Goal
  <2>1. PICK c \in Chans, r \in RoomNames :
          call' = [call EXCEPT ![t] = [Idle EXCEPT !.does = "mediaLeave", !.chan = c, !.room = r]]
    BY <1>11 DEF MediaLeave
  <2>2. pc' = [pc EXCEPT ![t] = "mediaLeave"] /\ calls' = [calls EXCEPT ![t] = calls[t] + 1]
    BY <1>11 DEF MediaLeave, Begin
  <2>3. PICK x : x = [Idle EXCEPT !.does = "mediaLeave", !.chan = c, !.room = r]
    OBVIOUS
  <2>4. x = [does |-> "mediaLeave", chan |-> c, room |-> r, key |-> None, todo |-> <<>>, frame |-> None, piece |-> 0]
    BY <2>3 DEF Idle
  <2>5. CallIs(t, "mediaLeave", x, calls[t] + 1)
    <3>1. /\ "mediaLeave" \in AllOps /\ "mediaLeave" \in Places \ {"idle", "queue"} /\ 0 \in Nat /\ calls[t] + 1 \in Nat
          /\ "mediaLeave" \notin Sending /\ <<>> \in Seq(Chans)
      BY <1>0, <1>c DEF AllOps, Places, Sending
    <3> QED
      BY <2>4, <3>1, PlainCall
  <2> QED
    BY <2>1, <2>2, <2>3, <2>5, ThreadMoves DEF Goal
<1>12. ASSUME NEW t \in Threads, MediaSend(t) PROVE Goal
  <2>1. PICK k \in Keys :
          call' = [call EXCEPT ![t] = [Idle EXCEPT !.does = "mediaSend", !.room = k[1], !.key = k,
                                                   !.piece = seqCounters[k] + 1]]
    BY <1>12, Zenon DEF MediaSend, MediaCall
  <2>2. pc' = [pc EXCEPT ![t] = "mediaCopy"] /\ calls' = [calls EXCEPT ![t] = calls[t] + 1]
    BY <1>12 DEF MediaSend, MediaCall, Begin
  <2>3. PICK m \in Nat : m = seqCounters[k] + 1
    BY <1>0
  <2>b. PICK r \in RoomNames : r = k[1]
    BY <1>k
  <2>4. PICK x : x = [Idle EXCEPT !.does = "mediaSend", !.room = r, !.key = k, !.piece = m]
    OBVIOUS
  <2>5. x = [does |-> "mediaSend", chan |-> None, room |-> r, key |-> k, todo |-> <<>>, frame |-> None, piece |-> m]
    BY <2>4 DEF Idle
  <2>a. /\ "mediaSend" \in AllOps /\ "mediaCopy" \in Places \ {"idle", "queue"} /\ calls[t] + 1 \in Nat
        /\ "mediaCopy" \notin OnChannel /\ "mediaCopy" \notin Sending
    BY <1>c DEF AllOps, Places, OnChannel, Sending
  <2>6. CallIs(t, "mediaCopy", x, calls[t] + 1)
    BY <1>0, <2>5, <2>a, PlainCall
  <2> QED
    BY <2>1, <2>2, <2>3, <2>b, <2>4, <2>6, ThreadMoves DEF Goal
<1>13. ASSUME NEW t \in Threads, MediaCopy(t) PROVE Goal
  <2>1. /\ pc[t] = "mediaCopy" /\ pc' = [pc EXCEPT ![t] = "deliver"] /\ calls' = calls
        /\ call' = [call EXCEPT ![t].todo = rooms[call[t].room]]
    BY <1>13 DEF MediaCopy
  <2>2. PICK s \in Seq(Chans) : s = rooms[call[t].room]
    BY <1>0, <2>1 DEF CallsRight, OnRoom
  <2>3. PICK x : x = [call[t] EXCEPT !.todo = s]
    OBVIOUS
  <2>4. call' = [call EXCEPT ![t] = x]
    BY <1>0, <2>1, <2>2, <2>3
  <2>5. /\ x \in Calls /\ x.does = call[t].does /\ x.chan = call[t].chan /\ x.room = call[t].room
        /\ x.key = call[t].key /\ x.piece = call[t].piece /\ x.frame = call[t].frame
    BY <1>c, <2>3 DEF Calls
  <2>6. x.does # "none" /\ x # Idle
    <3>1. x.does # "none"
      BY <2>1, <2>5 DEF CallsRight
    <3> QED
      BY <3>1 DEF Idle
  <2>7. CallIs(t, "deliver", x, calls[t])
    BY <1>a, <2>1, <2>5, <2>6 DEF CallIs, Places, OnChannel, OnRoom, Sending
  <2> QED
    BY <2>1, <2>4, <2>7, ThreadMoves DEF Goal
<1>14. ASSUME NEW t \in Threads, Stream(t) PROVE Goal
  <2>1. PICK c \in Chans :
          IF closed[c] \/ fragActive[c] THEN UNCHANGED <<pc, call>>
          ELSE /\ pc' = [pc EXCEPT ![t] = "fragment"]
               /\ call' = [call EXCEPT ![t] = [Idle EXCEPT !.does = "stream", !.chan = c, !.piece = 1]]
    BY <1>14 DEF Stream
  <2>2. pc[t] = "idle" /\ calls' = [calls EXCEPT ![t] = calls[t] + 1]
    BY <1>14 DEF Stream, Begin
  <2>3. CASE closed[c] \/ fragActive[c]
    <3>1. CallIs(t, pc[t], call[t], calls[t] + 1)
      BY <1>a, <1>c, <2>2 DEF CallIs
    <3> QED
      BY <2>1, <2>2, <2>3, <3>1, ThreadMoves DEF Goal
  <2>4. CASE ~(closed[c] \/ fragActive[c])
    <3>1. PICK x : x = [Idle EXCEPT !.does = "stream", !.chan = c, !.piece = 1]
      OBVIOUS
    <3>2. x = [does |-> "stream", chan |-> c, room |-> None, key |-> None, todo |-> <<>>, frame |-> None, piece |-> 1]
      BY <3>1 DEF Idle
    <3>3. 1 \in 1 .. Pieces
      BY RoomsAssumption DEF RoomsAssumption
    <3>4. CallIs(t, "fragment", x, calls[t] + 1)
      BY <1>0, <1>c, <3>2, <3>3, PlainCall DEF AllOps, Places, OnChannel, OnRoom, Sending
    <3> QED
      BY <2>1, <2>2, <2>4, <3>1, <3>4, ThreadMoves DEF Goal
  <2> QED
    BY <2>3, <2>4
<1>15. ASSUME NEW t \in Threads, WriteFragment(t) PROVE Goal
  <2>1. CASE ~fragActive[call[t].chan]
    BY <1>3, <1>15, <2>1 DEF WriteFragment, Return
  <2>2. CASE fragActive[call[t].chan]
    <3>1. PICK op \in {"data", "more"} : op = IF fragFirst[call[t].chan] THEN "data" ELSE "more"
      OBVIOUS
    <3>2. PICK last \in BOOLEAN : last = (call[t].piece = Pieces)
      OBVIOUS
    <3>3. PICK f : f = Frame(t, op, last)
      OBVIOUS
    <3>4. /\ pc[t] = "fragment" /\ pc' = [pc EXCEPT ![t] = "queue"] /\ calls' = calls
          /\ call' = [call EXCEPT ![t].frame = f]
      BY <1>15, <2>2, <3>1, <3>2, <3>3 DEF WriteFragment
    <3>5. call[t].key = None /\ call[t].piece \in 1 .. Pieces /\ call[t].chan \in Chans
      BY <3>4 DEF CallsRight, Sending, OnChannel
    <3>6. f = [by |-> t, n |-> calls[t], op |-> op, fin |-> last, key |-> None, seq |-> call[t].piece]
      BY <3>3, <3>5 DEF Frame
    <3>7. f \in Frames
      BY <1>c, <3>1, <3>2, <3>5, <3>6 DEF Frames
    <3>8. PICK x : x = [call[t] EXCEPT !.frame = f]
      OBVIOUS
    <3>9. call' = [call EXCEPT ![t] = x]
      BY <1>0, <3>4, <3>8
    <3>10. /\ x \in Calls /\ x.does = call[t].does /\ x.chan = call[t].chan /\ x.room = call[t].room
           /\ x.key = call[t].key /\ x.piece = call[t].piece /\ x.frame = f
      BY <1>c, <3>7, <3>8 DEF Calls
    <3>11. x.does # "none" /\ x # Idle
      <4>1. x.does # "none"
        BY <3>4, <3>10 DEF CallsRight
      <4> QED
        BY <4>1 DEF Idle
    <3>12. f.by = t /\ f.n = calls[t] /\ f.key = None /\ f.seq = call[t].piece /\ f.fin = (call[t].piece = Pieces)
      BY <3>2, <3>6
    <3>13. CallIs(t, "queue", x, calls[t])
      BY <1>c, <3>5, <3>7, <3>10, <3>11, <3>12 DEF CallIs, Places, OnChannel, OnRoom, Sending
    <3> QED
      BY <3>4, <3>9, <3>13, ThreadMoves DEF Goal
  <2> QED
    BY <2>1, <2>2
<1>16. ASSUME NEW t \in Threads, QueueFragment(t) PROVE Goal
  <2>1. CASE closed[call[t].chan] \/ call[t].piece = Pieces
    BY <1>3, <1>16, <2>1 DEF QueueFragment, Return
  <2>2. CASE ~(closed[call[t].chan] \/ call[t].piece = Pieces)
    <3>1. /\ pc[t] = "queue" /\ pc' = [pc EXCEPT ![t] = "fragment"] /\ calls' = calls
          /\ call' = [call EXCEPT ![t] = [Idle EXCEPT !.does = "stream", !.chan = call[t].chan,
                                                      !.piece = call[t].piece + 1]]
      BY <1>16, <2>2 DEF QueueFragment
    <3>2. call[t].piece \in 1 .. Pieces /\ call[t].chan \in Chans /\ Pieces \in Nat
      BY <3>1, RoomsAssumption DEF CallsRight, Sending, OnChannel, RoomsAssumption
    <3>3. PICK c \in Chans, m \in 1 .. Pieces : c = call[t].chan /\ m = call[t].piece + 1
      BY <2>2, <3>2
    <3>4. PICK x : x = [Idle EXCEPT !.does = "stream", !.chan = c, !.piece = m]
      OBVIOUS
    <3>5. x = [does |-> "stream", chan |-> c, room |-> None, key |-> None, todo |-> <<>>, frame |-> None, piece |-> m]
      BY <3>4 DEF Idle
    <3>a. /\ "stream" \in AllOps /\ "fragment" \in Places \ {"idle", "queue"} /\ calls[t] \in Nat
          /\ "fragment" \notin OnRoom /\ m \in Nat
      BY <1>c, <3>2 DEF AllOps, Places, OnRoom
    <3>6. CallIs(t, "fragment", x, calls[t])
      BY <1>0, <3>5, <3>a, PlainCall
    <3> QED
      BY <3>1, <3>3, <3>4, <3>6, ThreadMoves DEF Goal
  <2> QED
    BY <2>1, <2>2
<1>17. ASSUME NEW c \in Chans, WorkerStep(c) PROVE Goal
  <2>1. UNCHANGED <<pc, call, calls>>
    BY <1>17, WorkersLeaveThreads
  <2> QED
    BY <1>1, <2>1
<1>18. ASSUME NEW t \in Threads, ThreadStep(t) PROVE Goal
  BY <1>2, <1>4, <1>5, <1>6, <1>7, <1>8, <1>10, <1>11, <1>12, <1>13, <1>14, <1>15, <1>16, <1>18, Zenon DEF ThreadStep
<1>19. ASSUME UNCHANGED vars PROVE Goal
  BY <1>1, <1>19 DEF vars
<1> QED
  BY <1>17, <1>18, <1>19, Zenon DEF Next, Goal

-----------------------------------------------------------------------------
(* Rooms and references.                                                   *)

(* Members come with a join, and go with the handlers and a release. *)
LEMMA RoomsChange ==
  ASSUME TypeOK, CallsRight, [Next]_vars
  PROVE  /\ rooms' \in [RoomNames -> Seq(Chans)]
         /\ \A r \in RoomNames : \A d \in Range(rooms'[r]) :
              \/ d \in Range(rooms[r])
              \/ d \in Chans /\ Referenced(d) /\ (closeFired[d] \/ d \notin live => d \in late')
<1> DEFINE Goal == /\ rooms' \in [RoomNames -> Seq(Chans)]
                   /\ \A r \in RoomNames : \A d \in Range(rooms'[r]) :
                        \/ d \in Range(rooms[r])
                        \/ d \in Chans /\ Referenced(d) /\ (closeFired[d] \/ d \notin live => d \in late')
<1>0. rooms \in [RoomNames -> Seq(Chans)]
  BY DEF TypeOK
<1>1. ASSUME rooms' = rooms PROVE Goal
  BY <1>0, <1>1
<1>2. ASSUME NEW c \in Chans, rooms' = LeaveAll(c) PROVE Goal
  BY <1>0, <1>2, EveryRoomLeft
<1>3. ASSUME NEW c \in Chans, NEW r \in RoomNames, Referenced(c), JoinedLate(c),
             rooms' = [rooms EXCEPT ![r] = Append(rooms[r], c)] PROVE Goal
  <2>1. Append(rooms[r], c) \in Seq(Chans) /\ Range(Append(rooms[r], c)) = Range(rooms[r]) \cup {c}
    BY <1>0, AppendedRange
  <2>2. /\ rooms' \in [RoomNames -> Seq(Chans)] /\ rooms'[r] = Append(rooms[r], c)
        /\ \A q \in RoomNames \ {r} : rooms'[q] = rooms[q]
    BY <1>0, <1>3, <2>1
  <2>3. closeFired[c] \/ c \notin live => c \in late'
    BY <1>3 DEF JoinedLate
  <2>4. ASSUME NEW q \in RoomNames, NEW d \in Range(rooms'[q]) PROVE d \in Range(rooms[q]) \/ d = c
    BY <2>1, <2>2
  <2> QED
    BY <1>3, <2>2, <2>3, <2>4
<1>4. ASSUME NEW r \in RoomNames, NEW some, rooms' = [rooms EXCEPT ![r] = Keep(rooms[r], some)] PROVE Goal
  <2>1. Keep(rooms[r], some) \in Seq(Chans) /\ Range(Keep(rooms[r], some)) \subseteq Range(rooms[r])
    BY <1>0, Kept
  <2>2. /\ rooms' \in [RoomNames -> Seq(Chans)] /\ rooms'[r] = Keep(rooms[r], some)
        /\ \A q \in RoomNames \ {r} : rooms'[q] = rooms[q]
    BY <1>0, <1>4, <2>1
  <2>3. ASSUME NEW q \in RoomNames, NEW d \in Range(rooms'[q]) PROVE d \in Range(rooms[q])
    BY <2>1, <2>2
  <2> QED
    BY <2>2, <2>3
<1> HIDE DEF Goal
<1>5. ASSUME NEW c \in Chans, WorkerStep(c) PROVE Goal
  <2>1. rooms' = rooms \/ rooms' = LeaveAll(c)
    <3>1. CASE Open(c) \/ Adopt(c) \/ HandlerThrows(c) \/ Refuse(c) \/ FireClose(c) \/ RunEasyHook(c) \/ Gone(c)
      BY <3>1, Beginnings DEF Open, FireClose, RunEasyHook, Gone
    <3>2. CASE RunEasyRooms(c) \/ RunMediaHook(c)
      BY <3>2 DEF RunEasyRooms, RunMediaHook
    <3> QED
      BY <1>5, <3>1, <3>2, Zenon DEF WorkerStep
  <2> QED
    BY <1>1, <1>2, <2>1
<1>6. ASSUME NEW t \in Threads, Join(t) PROVE Goal
  <2>1. PICK c \in Chans, r \in RoomNames :
          Referenced(c) /\ JoinedLate(c) /\ rooms' = [rooms EXCEPT ![r] = Append(rooms[r], c)]
    BY <1>6 DEF Join
  <2> QED
    BY <1>3, <2>1
<1>7. ASSUME NEW t \in Threads, MediaRoom(t) PROVE Goal
  <2>1. pc[t] = "mediaRoom" /\ call[t].chan \in Chans /\ call[t].room \in RoomNames
    BY <1>7 DEF MediaRoom, CallsRight, OnChannel, OnRoom
  <2>2. JoinedLate(call[t].chan)
        /\ rooms' = [rooms EXCEPT ![call[t].room] = Append(rooms[call[t].room], call[t].chan)]
    BY <1>7 DEF MediaRoom
  <2>3. Referenced(call[t].chan)
    BY Zenon DEF Referenced
  <2> QED
    BY <1>3, <2>1, <2>2, <2>3
<1>8. ASSUME NEW t \in Threads, LeaveEverything(t) \/ ReleaseRooms(t) PROVE Goal
  <2>1. CASE LeaveEverything(t)
    BY <1>2, <2>1, Zenon DEF LeaveEverything
  <2>2. CASE ReleaseRooms(t)
    <3>1. pc[t] = "release" /\ rooms' = LeaveAll(call[t].chan)
      BY <2>2 DEF ReleaseRooms
    <3>2. call[t].chan \in Chans
      BY <3>1 DEF CallsRight, OnChannel
    <3> QED
      BY <1>2, <3>1, <3>2
  <2> QED
    BY <1>8, <2>1, <2>2
<1>9. ASSUME NEW t \in Threads, Leave(t) PROVE Goal
  <2>1. PICK c \in Chans, r \in RoomNames : rooms' = [rooms EXCEPT ![r] = Without(rooms[r], c)]
    BY <1>9 DEF Leave
  <2> QED
    BY <1>4, <2>1 DEF Without
<1>10. ASSUME NEW t \in Threads, MediaLeaveRoom(t) PROVE Goal
  <2>1. pc[t] = "mediaLeave"
        /\ rooms' = [rooms EXCEPT ![call[t].room] = Without(rooms[call[t].room], call[t].chan)]
    BY <1>10 DEF MediaLeaveRoom
  <2>2. call[t].room \in RoomNames
    BY <2>1 DEF CallsRight, OnRoom
  <2> QED
    BY <1>4, <2>1, <2>2 DEF Without
<1>11. ASSUME NEW t \in Threads, Prune(t) PROVE Goal
  <2>1. PICK r \in RoomNames : rooms' = [rooms EXCEPT ![r] = Keep(rooms[r], {c \in Chans : ~closed[c]})]
    BY <1>11 DEF Prune
  <2> QED
    BY <1>4, <2>1
<1>12. ASSUME NEW t \in Threads, Release(t) \/ Broadcast(t) \/ Deliver(t) \/ MediaJoin(t) \/ MediaBinary(t)
              \/ MediaHook(t) \/ MediaNote(t) \/ MediaLeave(t) \/ MediaSend(t) \/ MediaCopy(t) \/ Send(t)
              \/ Stream(t) \/ WriteFragment(t) \/ QueueFragment(t) PROVE Goal
  <2>1. rooms' = rooms
    BY <1>12 DEF Release, Broadcast, Deliver, MediaJoin, MediaBinary, MediaHook, MediaNote, MediaLeave,
                 MediaSend, MediaCopy, Send, Stream, WriteFragment, QueueFragment
  <2> QED
    BY <1>1, <2>1
<1>13. ASSUME NEW t \in Threads, ThreadStep(t) PROVE Goal
  BY <1>6, <1>7, <1>8, <1>9, <1>10, <1>11, <1>12, <1>13, Zenon DEF ThreadStep
<1>14. ASSUME UNCHANGED vars PROVE Goal
  BY <1>1, <1>14 DEF vars
<1> QED
  BY <1>5, <1>13, <1>14, Zenon DEF Next, Goal

(* A thread takes a channel out of the retained ones only to release it. *)
LEMMA ReleasesAlone ==
  ASSUME NEW t \in Threads, ThreadStep(t)
  PROVE  live' = live \/ Release(t)
<1>1. CASE Join(t) \/ Leave(t) \/ LeaveEverything(t) \/ Prune(t) \/ ReleaseRooms(t) \/ Broadcast(t)
           \/ Deliver(t) \/ Send(t) \/ Stream(t) \/ WriteFragment(t) \/ QueueFragment(t)
  BY <1>1 DEF Join, Leave, LeaveEverything, Prune, ReleaseRooms, Broadcast, Deliver, Send, Stream,
              WriteFragment, QueueFragment
<1>2. CASE MediaJoin(t) \/ MediaBinary(t) \/ MediaHook(t) \/ MediaRoom(t) \/ MediaNote(t)
           \/ MediaLeave(t) \/ MediaLeaveRoom(t) \/ MediaSend(t) \/ MediaCopy(t)
  BY <1>2 DEF MediaJoin, MediaBinary, MediaHook, MediaRoom, MediaNote, MediaLeave, MediaLeaveRoom,
              MediaSend, MediaCopy
<1> QED
  BY <1>1, <1>2, Zenon DEF ThreadStep

(* Who is retained: what is opened, until it closes or is released. *)
LEMMA LiveChanges ==
  ASSUME TypeOK, CallsRight, [Next]_vars
  PROVE  /\ live' \subseteq Chans
         /\ \A d \in Chans : d \in live' => d \in live \/ Open(d)
<1>1. CASE live' = live
  BY <1>1 DEF TypeOK
<1>2. ASSUME NEW c \in Chans, Open(c) PROVE live' = live \cup {c}
  BY <1>2 DEF Open
<1>3. ASSUME NEW c \in Chans, RunEasyHook(c) PROVE live' \subseteq live
  BY <1>3 DEF RunEasyHook
<1>4. ASSUME NEW c \in Chans, FireClose(c) \/ RunEasyRooms(c) \/ RunMediaHook(c) \/ Gone(c) PROVE live' = live
  BY <1>4 DEF FireClose, RunEasyRooms, RunMediaHook, Gone
<1>9. ASSUME NEW c \in Chans, Adopt(c) \/ HandlerThrows(c) \/ Refuse(c) PROVE live' = live
  BY <1>9, Beginnings
<1>5. ASSUME NEW t \in Threads, ThreadStep(t) PROVE live' \subseteq live
  BY <1>5, ReleasesAlone DEF Release
<1>6. CASE UNCHANGED vars
  BY <1>1, <1>6 DEF vars
<1>7. CASE \E c \in Chans : WorkerStep(c)
  <2>1. PICK c \in Chans : WorkerStep(c)
    BY <1>7
  <2>2. CASE Open(c)
    BY <1>2, <2>2 DEF TypeOK
  <2>3. CASE ~Open(c)
    <3>1. live' \subseteq live
      BY <1>3, <1>4, <1>9, <2>1, <2>3 DEF WorkerStep
    <3> QED
      BY <3>1 DEF TypeOK
  <2> QED
    BY <2>2, <2>3
<1>8. CASE \E t \in Threads : ThreadStep(t)
  <2>1. live' \subseteq live
    BY <1>5, <1>8
  <2> QED
    BY <2>1 DEF TypeOK
<1> QED
  BY <1>6, <1>7, <1>8, Zenon DEF Next

(* How far a channel's connection gets in one step. *)
LEMMA PhaseChanges ==
  ASSUME TypeOK, [Next]_vars
  PROVE  \A d \in Chans :
           /\ phase'[d] = phase[d] \/ Open(d) \/ Adopt(d) \/ HandlerThrows(d) \/ FireClose(d) \/ Gone(d)
           /\ addr'[d] = addr[d] \/ Open(d)
           /\ closeFired'[d] = closeFired[d] \/ FireClose(d)
<1> DEFINE Goal == \A d \in Chans :
           /\ phase'[d] = phase[d] \/ Open(d) \/ Adopt(d) \/ HandlerThrows(d) \/ FireClose(d) \/ Gone(d)
           /\ addr'[d] = addr[d] \/ Open(d)
           /\ closeFired'[d] = closeFired[d] \/ FireClose(d)
<1>1. ASSUME UNCHANGED <<phase, addr, closeFired>> PROVE Goal
  BY <1>1
<1>2. ASSUME NEW c \in Chans, Open(c) PROVE Goal
  <2>1. /\ phase' = [phase EXCEPT ![c] = "bound"] /\ closeFired' = closeFired
        /\ \E a \in Addrs : addr' = [addr EXCEPT ![c] = a]
    BY <1>2 DEF Open
  <2>2. \A d \in Chans \ {c} : phase'[d] = phase[d] /\ addr'[d] = addr[d]
    BY <2>1 DEF TypeOK
  <2> QED
    BY <1>2, <2>1, <2>2
<1>3. ASSUME NEW c \in Chans, FireClose(c) PROVE Goal
  <2>1. /\ phase' = [phase EXCEPT ![c] = "firing"] /\ addr' = addr
        /\ closeFired' = [closeFired EXCEPT ![c] = TRUE]
    BY <1>3 DEF FireClose
  <2>2. \A d \in Chans \ {c} : phase'[d] = phase[d] /\ closeFired'[d] = closeFired[d]
    BY <2>1 DEF TypeOK
  <2> QED
    BY <1>3, <2>1, <2>2
<1>4. ASSUME NEW c \in Chans, Gone(c) PROVE Goal
  <2>1. phase' = [phase EXCEPT ![c] = "gone"] /\ UNCHANGED <<addr, closeFired>>
    BY <1>4 DEF Gone
  <2>2. \A d \in Chans \ {c} : phase'[d] = phase[d]
    BY <2>1 DEF TypeOK
  <2> QED
    BY <1>4, <2>1, <2>2
<1>9. ASSUME NEW c \in Chans, Adopt(c) \/ HandlerThrows(c) PROVE Goal
  <2>1. (\E p : phase' = [phase EXCEPT ![c] = p]) /\ UNCHANGED <<addr, closeFired>>
    BY <1>9, Beginnings
  <2>2. \A d \in Chans \ {c} : phase'[d] = phase[d]
    BY <2>1 DEF TypeOK
  <2> QED
    BY <1>9, <2>1, <2>2
<1> HIDE DEF Goal
<1>5. ASSUME NEW c \in Chans, RunEasyHook(c) \/ RunEasyRooms(c) \/ RunMediaHook(c) \/ Refuse(c) PROVE Goal
  <2>1. UNCHANGED <<phase, addr, closeFired>>
    BY <1>5, Beginnings DEF RunEasyHook, RunEasyRooms, RunMediaHook
  <2> QED
    BY <1>1, <2>1
<1>6. ASSUME NEW t \in Threads, ThreadStep(t) PROVE Goal
  <2>1. UNCHANGED <<phase, addr, closeFired>>
    BY <1>6, ThreadsLeaveChannels
  <2> QED
    BY <1>1, <2>1
<1>7. ASSUME UNCHANGED vars PROVE Goal
  <2>1. UNCHANGED <<phase, addr, closeFired>>
    BY <1>7 DEF vars, chanVars
  <2> QED
    BY <1>1, <2>1
<1>8. ASSUME NEW c \in Chans, WorkerStep(c) PROVE Goal
  BY <1>2, <1>3, <1>4, <1>5, <1>8, <1>9, Zenon DEF WorkerStep
<1> QED
  BY <1>6, <1>7, <1>8, Zenon DEF Next, Goal

(* A call mentions only channels that something referred to. *)
Mentions(x, d) == d = x.chan \/ d \in Range(x.todo)

LEMMA CallChanges ==
  ASSUME TypeOK, CallsRight, [Next]_vars
  PROVE  \A t \in Threads, d \in Chans : Mentions(call'[t], d) => Referenced(d)
<1> DEFINE Goal == \A t \in Threads, d \in Chans : Mentions(call'[t], d) => Referenced(d)
<1>0. /\ call \in [Threads -> Calls] /\ None \notin Chans /\ Range(<<>>) = {}
      /\ \A t \in Threads : call[t].todo \in Seq(Chans)
      /\ \A r \in RoomNames : rooms[r] \in Seq(Chans)
  BY RoomsAssumption DEF RoomsAssumption, TypeOK, Calls, Range
<1>a. \A t \in Threads, d \in Chans : Mentions(call[t], d) => Referenced(d)
  BY Zenon DEF Mentions, Referenced
<1>b. \A d \in Chans : ~Mentions(Idle, d)
  BY <1>0 DEF Mentions, Idle
<1>c. \A c \in live : Referenced(c)
  BY Zenon DEF Referenced
<1>d. \A r \in RoomNames : \A c \in Range(rooms[r]) : Referenced(c)
  BY Zenon DEF Referenced
<1>1. ASSUME call' = call PROVE Goal
  BY <1>a, <1>1
<1>2. ASSUME NEW t \in Threads, NEW x, call' = [call EXCEPT ![t] = x],
             \A d \in Chans : Mentions(x, d) => Referenced(d) PROVE Goal
  <2>1. call'[t] = x /\ \A u \in Threads \ {t} : call'[u] = call[u]
    BY <1>0, <1>2
  <2> QED
    BY <1>2, <1>a, <2>1
<1> HIDE DEF Goal
<1>3. ASSUME NEW t \in Threads, Return(t) PROVE Goal
  BY <1>2, <1>3, <1>b DEF Return
<1>4. ASSUME NEW c \in Chans, WorkerStep(c) PROVE Goal
  <2>1. call' = call
    BY <1>4, WorkersLeaveThreads
  <2> QED
    BY <1>1, <2>1
<1>5. ASSUME NEW t \in Threads, Join(t) \/ Leave(t) \/ LeaveEverything(t) \/ Prune(t) \/ Send(t)
             \/ MediaBinary(t) \/ MediaHook(t) \/ MediaRoom(t) PROVE Goal
  <2>1. call' = call
    BY <1>5 DEF Join, Leave, LeaveEverything, Prune, Send, MediaBinary, MediaHook, MediaRoom
  <2> QED
    BY <1>1, <2>1
<1>6. ASSUME NEW t \in Threads, ReleaseRooms(t) \/ MediaNote(t) \/ MediaLeaveRoom(t) PROVE Goal
  <2>1. Return(t)
    BY <1>6, Zenon DEF ReleaseRooms, MediaNote, MediaLeaveRoom
  <2> QED
    BY <1>3, <2>1
<1>7. ASSUME NEW t \in Threads, Release(t) PROVE Goal
  <2>1. PICK c \in live : call' = [call EXCEPT ![t] = [Idle EXCEPT !.does = "release", !.chan = c]]
    BY <1>7 DEF Release
  <2>2. \A d \in Chans : Mentions([Idle EXCEPT !.does = "release", !.chan = c], d) => d = c
    BY <1>0 DEF Mentions, Idle
  <2> QED
    BY <1>2, <1>c, <2>1, <2>2
<1>8. ASSUME NEW t \in Threads, Broadcast(t) PROVE Goal
  <2>1. PICK r \in RoomNames, does \in {"broadcast", "broadcastAll"} :
          call' = [call EXCEPT ![t] = [Idle EXCEPT !.does = does, !.room = r,
                                         !.todo = IF does = "broadcast" THEN rooms[r] ELSE Everyone]]
    BY <1>8 DEF Broadcast
  <2>2. PICK s : s = IF does = "broadcast" THEN rooms[r] ELSE Everyone
    OBVIOUS
  <2>3. \A d \in Range(s) : Referenced(d)
    <3>1. rooms \in [RoomNames -> Seq(Chans)]
      BY DEF TypeOK
    <3> QED
      BY <1>d, <2>2, <3>1, EveryoneJoined
  <2>4. PICK x : x = [Idle EXCEPT !.does = does, !.room = r, !.todo = s]
    OBVIOUS
  <2>5. x.chan = None /\ x.todo = s
    BY <2>4 DEF Idle
  <2>6. \A d \in Chans : Mentions(x, d) => Referenced(d)
    BY <1>0, <2>3, <2>5 DEF Mentions
  <2> QED
    BY <1>2, <2>1, <2>2, <2>4, <2>6
<1>9. ASSUME NEW t \in Threads, Deliver(t) PROVE Goal
  <2>1. CASE call[t].todo = <<>>
    BY <1>3, <1>9, <2>1 DEF Deliver
  <2>2. CASE call[t].todo # <<>>
    <3>1. call' = [call EXCEPT ![t].todo = Tail(call[t].todo)]
      BY <1>9, <2>2 DEF Deliver
    <3>2. PICK s : s = Tail(call[t].todo)
      OBVIOUS
    <3>3. Range(s) \subseteq Range(call[t].todo)
      BY <1>0, <2>2, <3>2, TailRange
    <3>4. PICK x : x = [call[t] EXCEPT !.todo = s]
      OBVIOUS
    <3>5. call' = [call EXCEPT ![t] = x] /\ x.chan = call[t].chan /\ x.todo = s
      BY <1>0, <3>1, <3>2, <3>4 DEF Calls
    <3>6. \A d \in Chans : Mentions(x, d) => Mentions(call[t], d)
      BY <3>3, <3>5 DEF Mentions
    <3> QED
      BY <1>2, <1>a, <3>5, <3>6
  <2> QED
    BY <2>1, <2>2
<1>10. ASSUME NEW t \in Threads, MediaJoin(t) \/ MediaLeave(t) PROVE Goal
  <2>1. PICK c \in Chans, r \in RoomNames, does \in {"mediaJoin", "mediaLeave"} :
          Referenced(c) /\ call' = [call EXCEPT ![t] = [Idle EXCEPT !.does = does, !.chan = c, !.room = r]]
    BY <1>10 DEF MediaJoin, MediaLeave
  <2>2. PICK x : x = [Idle EXCEPT !.does = does, !.chan = c, !.room = r]
    OBVIOUS
  <2>3. x.chan = c /\ x.todo = <<>>
    BY <2>2 DEF Idle
  <2>4. \A d \in Chans : Mentions(x, d) => Referenced(d)
    BY <1>0, <2>1, <2>3 DEF Mentions
  <2> QED
    BY <1>2, <2>1, <2>2, <2>4
<1>11. ASSUME NEW t \in Threads, MediaSend(t) PROVE Goal
  <2>1. PICK k \in Keys :
          call' = [call EXCEPT ![t] = [Idle EXCEPT !.does = "mediaSend", !.room = k[1], !.key = k,
                                                   !.piece = seqCounters[k] + 1]]
    BY <1>11, Zenon DEF MediaSend, MediaCall
  <2>2. PICK x : x = [Idle EXCEPT !.does = "mediaSend", !.room = k[1], !.key = k, !.piece = seqCounters[k] + 1]
    OBVIOUS
  <2>3. x.chan = None /\ x.todo = <<>>
    BY <2>2 DEF Idle
  <2>4. \A d \in Chans : Mentions(x, d) => Referenced(d)
    BY <1>0, <2>3 DEF Mentions
  <2> QED
    BY <1>2, <2>1, <2>2, <2>4
<1>12. ASSUME NEW t \in Threads, MediaCopy(t) PROVE Goal
  <2>1. pc[t] = "mediaCopy" /\ call' = [call EXCEPT ![t].todo = rooms[call[t].room]]
    BY <1>12 DEF MediaCopy
  <2>2. call[t].room \in RoomNames
    BY <2>1 DEF CallsRight, OnRoom
  <2>3. PICK x : x = [call[t] EXCEPT !.todo = rooms[call[t].room]]
    OBVIOUS
  <2>4. call' = [call EXCEPT ![t] = x] /\ x.chan = call[t].chan /\ x.todo = rooms[call[t].room]
    BY <1>0, <2>1, <2>3 DEF Calls
  <2>5. \A d \in Chans : d = call[t].chan => Referenced(d)
    BY Zenon DEF Referenced
  <2>6. \A d \in Chans : Mentions(x, d) => Referenced(d)
    BY <1>d, <2>2, <2>4, <2>5 DEF Mentions
  <2> QED
    BY <1>2, <2>4, <2>6
<1>13. ASSUME NEW t \in Threads, Stream(t) PROVE Goal
  <2>1. PICK c \in Chans :
          /\ Referenced(c)
          /\ \/ call' = call
             \/ call' = [call EXCEPT ![t] = [Idle EXCEPT !.does = "stream", !.chan = c, !.piece = 1]]
    BY <1>13 DEF Stream
  <2>2. PICK x : x = [Idle EXCEPT !.does = "stream", !.chan = c, !.piece = 1]
    OBVIOUS
  <2>3. x.chan = c /\ x.todo = <<>>
    BY <2>2 DEF Idle
  <2>4. \A d \in Chans : Mentions(x, d) => Referenced(d)
    BY <1>0, <2>1, <2>3 DEF Mentions
  <2> QED
    BY <1>1, <1>2, <2>1, <2>2, <2>4
<1>14. ASSUME NEW t \in Threads, WriteFragment(t) PROVE Goal
  <2>1. CASE ~fragActive[call[t].chan]
    BY <1>3, <1>14, <2>1 DEF WriteFragment
  <2>2. CASE fragActive[call[t].chan]
    <3>1. \E f : call' = [call EXCEPT ![t].frame = f]
      BY <1>14, <2>2 DEF WriteFragment
    <3>2. PICK f : call' = [call EXCEPT ![t].frame = f]
      BY <3>1
    <3>3. PICK x : x = [call[t] EXCEPT !.frame = f]
      OBVIOUS
    <3>4. call' = [call EXCEPT ![t] = x] /\ x.chan = call[t].chan /\ x.todo = call[t].todo
      BY <1>0, <3>2, <3>3 DEF Calls
    <3>5. \A d \in Chans : Mentions(x, d) => Mentions(call[t], d)
      BY <3>4 DEF Mentions
    <3> QED
      BY <1>2, <1>a, <3>4, <3>5
  <2> QED
    BY <2>1, <2>2
<1>15. ASSUME NEW t \in Threads, QueueFragment(t) PROVE Goal
  <2>1. CASE closed[call[t].chan] \/ call[t].piece = Pieces
    BY <1>3, <1>15, <2>1 DEF QueueFragment
  <2>2. CASE ~(closed[call[t].chan] \/ call[t].piece = Pieces)
    <3>1. PICK c, m : c = call[t].chan /\ m = call[t].piece + 1
      OBVIOUS
    <3>2. PICK x : x = [Idle EXCEPT !.does = "stream", !.chan = c, !.piece = m]
      OBVIOUS
    <3>3. call' = [call EXCEPT ![t] = x]
      BY <1>15, <2>2, <3>1, <3>2 DEF QueueFragment
    <3>4. x.chan = c /\ x.todo = <<>>
      BY <3>2 DEF Idle
    <3>5. \A d \in Chans : Mentions(x, d) => Mentions(call[t], d)
      BY <1>0, <3>1, <3>4 DEF Mentions
    <3> QED
      BY <1>2, <1>a, <3>3, <3>5
  <2> QED
    BY <2>1, <2>2
<1>16. ASSUME NEW t \in Threads, ThreadStep(t) PROVE Goal
  BY <1>5, <1>6, <1>7, <1>8, <1>9, <1>10, <1>11, <1>12, <1>13, <1>14, <1>15, <1>16, Zenon DEF ThreadStep
<1>17. ASSUME UNCHANGED vars PROVE Goal
  BY <1>1, <1>17 DEF vars
<1> QED
  BY <1>4, <1>16, <1>17, Zenon DEF Next, Goal

(* Nothing is referred to that was not before, but what is opened. *)
LEMMA ReferencesChange ==
  ASSUME TypeOK, CallsRight, [Next]_vars, NEW d \in Chans, Referenced(d)'
  PROVE  Referenced(d) \/ Open(d)
<1>1. CASE phase'[d] \in {"bound", "open", "firing"}
  <2>1. phase'[d] = phase[d] \/ Open(d) \/ Adopt(d) \/ HandlerThrows(d) \/ FireClose(d) \/ Gone(d)
    BY PhaseChanges
  <2>2. Adopt(d) \/ HandlerThrows(d) \/ FireClose(d) \/ Gone(d) => phase[d] \in {"bound", "open", "firing"}
    BY Beginnings DEF FireClose, Gone
  <2> QED
    BY <1>1, <2>1, <2>2 DEF Referenced
<1>2. CASE d \in live'
  BY <1>2, LiveChanges DEF Referenced
<1>3. CASE \E r \in RoomNames : d \in Range(rooms'[r])
  BY <1>3, RoomsChange DEF Referenced
<1>4. CASE \E t \in Threads : Mentions(call'[t], d)
  BY <1>4, CallChanges
<1> QED
  BY <1>1, <1>2, <1>3, <1>4, Zenon DEF Referenced, Mentions

(* An address is given to a channel only when none has it that is referred *)
(* to.                                                                     *)
LEMMA SharedStays ==
  ASSUME TypeOK, CallsRight, Shared, [Next]_vars
  PROVE  Shared'
<1>0. phase \in [Chans -> Phases] /\ addr \in [Chans -> Addrs \cup {None}]
  BY DEF TypeOK, Phases
<1>1. ASSUME NEW c \in Chans, Open(c) PROVE Shared'
  <2>1. PICK a \in Addrs : (\A d \in Chans : addr[d] = a => ~Referenced(d)) /\ addr' = [addr EXCEPT ![c] = a]
    BY <1>1 DEF Open
  <2>2. phase' = [phase EXCEPT ![c] = "bound"] /\ phase[c] = "new"
    BY <1>1 DEF Open
  <2>3. \A d \in Chans \ {c} : phase'[d] = phase[d] /\ addr'[d] = addr[d]
    BY <1>0, <2>1, <2>2
  <2>4. phase'[c] = "bound" /\ addr'[c] = a
    BY <1>0, <2>1, <2>2
  <2>5. ASSUME NEW d \in Chans \ {c}, Referenced(d)' PROVE Referenced(d)
    <3>1. CASE Open(d)
      BY <2>3, <3>1 DEF Open, TypeOK
    <3> QED
      BY <2>5, <3>1, ReferencesChange
  <2>6. \A d \in Chans : Referenced(d)' => phase'[d] # "new"
    BY <2>3, <2>4, <2>5 DEF Shared
  <2>7. ASSUME NEW d \in Chans, NEW e \in Chans, Referenced(d)', Referenced(e)', addr'[d] = addr'[e] PROVE d = e
    BY <2>1, <2>3, <2>4, <2>5, <2>7 DEF Shared
  <2> QED
    BY <2>6, <2>7 DEF Shared
<1>2. ASSUME \A c \in Chans : ~Open(c) PROVE Shared'
  <2>1. \A d \in Chans : Referenced(d)' => Referenced(d)
    BY <1>2, ReferencesChange
  <2>2. \A d \in Chans : addr'[d] = addr[d] /\ (phase[d] # "new" => phase'[d] # "new")
    <3>1. \A d \in Chans : phase'[d] = phase[d] \/ Adopt(d) \/ HandlerThrows(d) \/ FireClose(d) \/ Gone(d)
      BY <1>2, PhaseChanges
    <3>2. \A d \in Chans : Adopt(d) \/ HandlerThrows(d) \/ FireClose(d) \/ Gone(d) => phase'[d] # "new"
      BY <1>0 DEF Adopt, HandlerThrows, FireClose, Gone
    <3> QED
      BY <1>2, <3>1, <3>2, PhaseChanges
  <2> QED
    BY <2>1, <2>2 DEF Shared
<1> QED
  BY <1>1, <1>2

-----------------------------------------------------------------------------
(* Types of the tables and the queues.                                     *)

LEMMA Addressed ==
  ASSUME TypeOK, Shared, NEW c \in Chans, Referenced(c)
  PROVE  addr[c] \in Addrs /\ phase[c] # "new"
BY DEF TypeOK, Shared

LEMMA CalledChannel ==
  ASSUME TypeOK, CallsRight, Shared, NEW t \in Threads, pc[t] \in OnChannel
  PROVE  /\ call[t].chan \in Chans /\ Referenced(call[t].chan)
         /\ addr[call[t].chan] \in Addrs /\ phase[call[t].chan] # "new"
<1>1. call[t].chan \in Chans
  BY DEF CallsRight
<1>2. Referenced(call[t].chan)
  BY Zenon DEF Referenced
<1> QED
  BY <1>1, <1>2, Addressed

LEMMA TablesStayTyped ==
  ASSUME TypeOK, CallsRight, Shared, [Next]_vars
  PROVE  TypeOfTables'
<1>0. /\ late \subseteq Chans /\ attached \subseteq Addrs /\ stale \subseteq Addrs
      /\ channelRooms \in [Addrs -> RoomNames \cup {None}] /\ seqCounters \in [Keys -> Nat]
  BY DEF TypeOK
<1>1. ASSUME late' \subseteq Chans, attached' \subseteq Addrs, stale' \subseteq Addrs,
             channelRooms' \in [Addrs -> RoomNames \cup {None}], seqCounters' \in [Keys -> Nat]
      PROVE  TypeOfTables'
  BY <1>1, RoomsChange, LiveChanges DEF TypeOfTables
<1>2. ASSUME UNCHANGED <<late, attached, stale, channelRooms, seqCounters>> PROVE TypeOfTables'
  BY <1>0, <1>1, <1>2
<1>3. ASSUME NEW c \in Chans, RunMediaHook(c) PROVE TypeOfTables'
  <2>1. /\ channelRooms' = [channelRooms EXCEPT ![addr[c]] = None] /\ attached' = attached \ {addr[c]}
        /\ stale' = stale \ {addr[c]} /\ UNCHANGED <<late, seqCounters>>
    BY <1>3 DEF RunMediaHook
  <2> QED
    BY <1>0, <1>1, <2>1
<1>4. ASSUME NEW c \in Chans, Open(c) \/ FireClose(c) \/ RunEasyHook(c) \/ RunEasyRooms(c) \/ Gone(c)
      PROVE  TypeOfTables'
  <2>1. UNCHANGED <<late, attached, stale, channelRooms, seqCounters>>
    BY <1>4 DEF Open, FireClose, RunEasyHook, RunEasyRooms, Gone, mediaVars, history
  <2> QED
    BY <1>2, <2>1
<1>18. ASSUME NEW c \in Chans, Adopt(c) \/ HandlerThrows(c) \/ Refuse(c) PROVE TypeOfTables'
  <2>1. stale' \subseteq Addrs
    BY <1>0, <1>18, Beginnings DEF HandlerThrows
  <2>2. UNCHANGED <<late, attached, channelRooms, seqCounters>>
    BY <1>18, Beginnings DEF Adopt, HandlerThrows, Refuse, mediaVars
  <2> QED
    BY <1>0, <1>1, <2>1, <2>2
<1>5. ASSUME NEW c \in Chans, JoinedLate(c) PROVE late' \subseteq Chans
  BY <1>0, <1>5 DEF JoinedLate
<1>6. ASSUME NEW t \in Threads, Join(t) PROVE TypeOfTables'
  <2>1. (\E c \in Chans : JoinedLate(c)) /\ UNCHANGED <<attached, stale, channelRooms, seqCounters>>
    BY <1>6 DEF Join, mediaVars
  <2> QED
    BY <1>0, <1>1, <1>5, <2>1
<1>7. ASSUME NEW t \in Threads, MediaHook(t) PROVE TypeOfTables'
  <2>1. /\ pc[t] = "mediaHook" /\ JoinedLate(call[t].chan)
        /\ stale' = IF PastHandlers(call[t].chan) THEN stale \cup {addr[call[t].chan]} ELSE stale
        /\ UNCHANGED <<attached, channelRooms, seqCounters>>
    BY <1>7 DEF MediaHook, mediaVars
  <2>2. call[t].chan \in Chans /\ addr[call[t].chan] \in Addrs
    BY <2>1, CalledChannel DEF OnChannel
  <2> QED
    BY <1>0, <1>1, <1>5, <2>1, <2>2
<1>8. ASSUME NEW t \in Threads, MediaRoom(t) PROVE TypeOfTables'
  <2>1. /\ pc[t] = "mediaRoom" /\ JoinedLate(call[t].chan)
        /\ UNCHANGED <<attached, stale, channelRooms, seqCounters>>
    BY <1>8 DEF MediaRoom, mediaVars
  <2>2. call[t].chan \in Chans
    BY <2>1, CalledChannel DEF OnChannel
  <2> QED
    BY <1>0, <1>1, <1>5, <2>1, <2>2
<1>9. ASSUME NEW t \in Threads, MediaNote(t) PROVE TypeOfTables'
  <2>1. /\ pc[t] = "mediaNote" /\ JoinedLate(call[t].chan)
        /\ channelRooms' = [channelRooms EXCEPT ![addr[call[t].chan]] = call[t].room]
        /\ stale' = IF PastHandlers(call[t].chan) THEN stale \cup {addr[call[t].chan]} ELSE stale
        /\ UNCHANGED <<attached, seqCounters>>
    BY <1>9 DEF MediaNote
  <2>2. call[t].chan \in Chans /\ addr[call[t].chan] \in Addrs /\ call[t].room \in RoomNames
    BY <2>1, CalledChannel DEF OnChannel, OnRoom, CallsRight
  <2> QED
    BY <1>0, <1>1, <1>5, <2>1, <2>2
<1>10. ASSUME NEW t \in Threads, MediaJoin(t) PROVE TypeOfTables'
  <2>1. PICK c \in Chans : Referenced(c) /\ attached' = attached \cup {addr[c]}
    BY <1>10 DEF MediaJoin
  <2>2. UNCHANGED <<late, stale, channelRooms, seqCounters>>
    BY <1>10 DEF MediaJoin, history
  <2>3. addr[c] \in Addrs
    BY <2>1, Addressed
  <2> QED
    BY <1>0, <1>1, <2>1, <2>2, <2>3
<1>11. ASSUME NEW t \in Threads, MediaLeave(t) PROVE TypeOfTables'
  <2>1. PICK c \in Chans, r \in RoomNames :
          channelRooms' = [channelRooms EXCEPT ![addr[c]] = IF channelRooms[addr[c]] = r THEN None ELSE channelRooms[addr[c]]]
    BY <1>11 DEF MediaLeave
  <2>2. UNCHANGED <<late, attached, stale, seqCounters>>
    BY <1>11 DEF MediaLeave, history
  <2>3. channelRooms' \in [Addrs -> RoomNames \cup {None}]
    <3>1. CASE addr[c] \in Addrs
      BY <1>0, <2>1, <3>1
    <3>2. CASE addr[c] \notin Addrs
      BY <1>0, <2>1, <3>2
    <3> QED
      BY <3>1, <3>2
  <2> QED
    BY <1>0, <1>1, <2>2, <2>3
<1>12. ASSUME NEW t \in Threads, MediaSend(t) PROVE TypeOfTables'
  <2>1. PICK k \in Keys : seqCounters' = [seqCounters EXCEPT ![k] = seqCounters[k] + 1]
    BY <1>12 DEF MediaSend
  <2>2. UNCHANGED <<late, attached, stale, channelRooms>>
    BY <1>12 DEF MediaSend, history
  <2>3. seqCounters' \in [Keys -> Nat]
    BY <1>0, <2>1
  <2> QED
    BY <1>0, <1>1, <2>2, <2>3
<1>13. ASSUME NEW t \in Threads, Leave(t) \/ LeaveEverything(t) \/ Prune(t) \/ Release(t) \/ ReleaseRooms(t)
              \/ Broadcast(t) \/ Deliver(t) PROVE TypeOfTables'
  <2>1. UNCHANGED <<late, attached, stale, channelRooms, seqCounters>>
    BY <1>13 DEF Leave, LeaveEverything, Prune, Release, ReleaseRooms, Broadcast, Deliver, mediaVars, history
  <2> QED
    BY <1>2, <2>1
<1>14. ASSUME NEW t \in Threads, MediaBinary(t) \/ MediaLeaveRoom(t) \/ MediaCopy(t) \/ Send(t) \/ Stream(t)
              \/ WriteFragment(t) \/ QueueFragment(t) PROVE TypeOfTables'
  <2>1. UNCHANGED <<late, attached, stale, channelRooms, seqCounters>>
    BY <1>14 DEF MediaBinary, MediaLeaveRoom, MediaCopy, Send, Stream, WriteFragment, QueueFragment,
                 mediaVars, history
  <2> QED
    BY <1>2, <2>1
<1>15. ASSUME NEW t \in Threads, ThreadStep(t) PROVE TypeOfTables'
  BY <1>6, <1>7, <1>8, <1>9, <1>10, <1>11, <1>12, <1>13, <1>14, <1>15, Zenon DEF ThreadStep
<1>16. ASSUME NEW c \in Chans, WorkerStep(c) PROVE TypeOfTables'
  BY <1>3, <1>4, <1>16, <1>18, Zenon DEF WorkerStep
<1>17. ASSUME UNCHANGED vars PROVE TypeOfTables'
  <2>1. UNCHANGED <<late, attached, stale, channelRooms, seqCounters>>
    BY <1>17 DEF vars, mediaVars, history
  <2> QED
    BY <1>2, <2>1
<1> QED
  BY <1>15, <1>16, <1>17, Zenon DEF Next

(* What is queued: one frame, on one channel, by one thread. *)
LEMMA Queues ==
  ASSUME TypeOK, CallsRight, [Next]_vars
  PROVE  \/ queue' = queue
         \/ \E t \in Threads : \E c \in Chans : \E f \in Frames :
              /\ f.by = t /\ queue' = [queue EXCEPT ![c] = Append(queue[c], f)]
              /\ \/ Send(t) /\ f.fin /\ f.n = calls[t] + 1 /\ f.key = None
                 \/ Deliver(t) /\ call[t].todo # <<>> /\ f.fin /\ f.n = calls[t]
                    /\ f.key = call[t].key /\ f.seq = call[t].piece
                 \/ QueueFragment(t) /\ f = call[t].frame /\ c = call[t].chan
<1> DEFINE Goal ==
      \/ queue' = queue
      \/ \E t \in Threads : \E c \in Chans : \E f \in Frames :
           /\ f.by = t /\ queue' = [queue EXCEPT ![c] = Append(queue[c], f)]
           /\ \/ Send(t) /\ f.fin /\ f.n = calls[t] + 1 /\ f.key = None
              \/ Deliver(t) /\ call[t].todo # <<>> /\ f.fin /\ f.n = calls[t]
                 /\ f.key = call[t].key /\ f.seq = call[t].piece
              \/ QueueFragment(t) /\ f = call[t].frame /\ c = call[t].chan
<1>0. /\ calls \in [Threads -> Nat] /\ call \in [Threads -> Calls] /\ \A t \in Threads : (pc[t] = "idle") = (call[t] = Idle)
      /\ \A t \in Threads : /\ call[t].key \in Keys \cup {None} /\ call[t].piece \in Nat
                            /\ call[t].todo \in Seq(Chans)
  BY DEF TypeOK, Calls
<1>1. ASSUME queue' = queue PROVE Goal
  BY <1>1
<1>2. ASSUME NEW t \in Threads, Send(t) PROVE Goal
  <2>1. PICK c \in Chans : Enqueue(c, [Frame(t, "data", TRUE) EXCEPT !.n = calls[t] + 1]) /\ pc[t] = "idle"
    BY <1>2 DEF Send, Begin
  <2>2. PICK yes \in BOOLEAN : yes = TRUE
    OBVIOUS
  <2>3. PICK f : f = [Frame(t, "data", yes) EXCEPT !.n = calls[t] + 1]
    OBVIOUS
  <2>4. call[t].key = None /\ call[t].piece = 0
    BY <1>0, <2>1 DEF Idle
  <2>5. f = [by |-> t, n |-> calls[t] + 1, op |-> "data", fin |-> yes, key |-> None, seq |-> 0]
    BY <2>3, <2>4 DEF Frame
  <2>6. f \in Frames /\ f.by = t /\ f.fin = yes /\ f.n = calls[t] + 1 /\ f.key = None
    BY <1>0, <2>5 DEF Frames
  <2>7. Enqueue(c, f)
    BY <2>1, <2>2, <2>3, Zenon
  <2>8. queue' = queue \/ queue' = [queue EXCEPT ![c] = Append(queue[c], f)]
    BY <2>7 DEF Enqueue
  <2> QED
    BY <1>1, <1>2, <2>2, <2>6, <2>8
<1>3. ASSUME NEW t \in Threads, Deliver(t) PROVE Goal
  <2>1. CASE call[t].todo = <<>>
    BY <1>1, <1>3, <2>1 DEF Deliver
  <2>2. CASE call[t].todo # <<>>
    <3>1. PICK c \in Chans : c = Head(call[t].todo)
      BY <1>0, <2>2, TailRange
    <3>2. PICK yes \in BOOLEAN : yes = TRUE
      OBVIOUS
    <3>3. PICK f : f = Frame(t, "data", yes)
      OBVIOUS
    <3>4. f = [by |-> t, n |-> calls[t], op |-> "data", fin |-> yes, key |-> call[t].key, seq |-> call[t].piece]
      BY <3>3 DEF Frame
    <3>5. f \in Frames
      BY <1>0, <3>4 DEF Frames
    <3>6. f.by = t /\ f.fin = yes /\ f.n = calls[t] /\ f.key = call[t].key /\ f.seq = call[t].piece
      BY <3>4
    <3>7. Enqueue(c, f)
      BY <1>3, <2>2, <3>1, <3>2, <3>3, Zenon DEF Deliver
    <3>8. queue' = queue \/ queue' = [queue EXCEPT ![c] = Append(queue[c], f)]
      BY <3>7 DEF Enqueue
    <3> QED
      BY <1>1, <1>3, <2>2, <3>2, <3>5, <3>6, <3>8
  <2> QED
    BY <2>1, <2>2
<1>4. ASSUME NEW t \in Threads, QueueFragment(t) PROVE Goal
  <2>1. pc[t] = "queue" /\ Enqueue(call[t].chan, call[t].frame)
    BY <1>4 DEF QueueFragment
  <2>2. call[t].chan \in Chans /\ call[t].frame \in Frames /\ call[t].frame.by = t
    BY <2>1 DEF CallsRight, OnChannel
  <2>3. PICK c \in Chans, f \in Frames : c = call[t].chan /\ f = call[t].frame /\ f.by = t
    BY <2>2
  <2>4. queue' = queue \/ queue' = [queue EXCEPT ![c] = Append(queue[c], f)]
    BY <2>1, <2>3 DEF Enqueue
  <2> QED
    BY <1>1, <1>4, <2>3, <2>4
<1> HIDE DEF Goal
<1>5. ASSUME NEW c \in Chans, WorkerStep(c) PROVE Goal
  <2>1. queue' = queue
    BY <1>5, WorkersLeaveThreads
  <2> QED
    BY <1>1, <2>1
<1>6. ASSUME NEW t \in Threads, Join(t) \/ Leave(t) \/ LeaveEverything(t) \/ Prune(t) \/ Release(t)
             \/ ReleaseRooms(t) \/ Broadcast(t) \/ Stream(t) \/ WriteFragment(t) PROVE Goal
  <2>1. queue' = queue
    BY <1>6 DEF Join, Leave, LeaveEverything, Prune, Release, ReleaseRooms, Broadcast, Stream, WriteFragment
  <2> QED
    BY <1>1, <2>1
<1>7. ASSUME NEW t \in Threads, MediaJoin(t) \/ MediaBinary(t) \/ MediaHook(t) \/ MediaRoom(t) \/ MediaNote(t)
             \/ MediaLeave(t) \/ MediaLeaveRoom(t) \/ MediaSend(t) \/ MediaCopy(t) PROVE Goal
  <2>1. queue' = queue
    BY <1>7 DEF MediaJoin, MediaBinary, MediaHook, MediaRoom, MediaNote, MediaLeave, MediaLeaveRoom,
                MediaSend, MediaCopy
  <2> QED
    BY <1>1, <2>1
<1>8. ASSUME NEW t \in Threads, ThreadStep(t) PROVE Goal
  BY <1>2, <1>3, <1>4, <1>6, <1>7, <1>8, Zenon DEF ThreadStep
<1>9. ASSUME UNCHANGED vars PROVE Goal
  BY <1>1, <1>9 DEF vars
<1> QED
  BY <1>5, <1>8, <1>9, Zenon DEF Next, Goal

LEMMA QueuesStayTyped ==
  ASSUME TypeOK, CallsRight, [Next]_vars
  PROVE  TypeOfQueues'
<1>1. queue' \in [Chans -> Seq(Frames)]
  <2>1. \/ queue' = queue
        \/ \E c \in Chans, f \in Frames : queue' = [queue EXCEPT ![c] = Append(queue[c], f)]
    BY Queues, Zenon
  <2>2. ASSUME NEW c \in Chans, NEW f \in Frames, queue' = [queue EXCEPT ![c] = Append(queue[c], f)]
        PROVE  queue' \in [Chans -> Seq(Frames)]
    <3>1. queue \in [Chans -> Seq(Frames)] /\ Append(queue[c], f) \in Seq(Frames)
      BY DEF TypeOK
    <3> QED
      BY <2>2, <3>1
  <2> QED
    BY <2>1, <2>2 DEF TypeOK
<1>2. fragActive' \in [Chans -> BOOLEAN] /\ fragFirst' \in [Chans -> BOOLEAN]
  <2> DEFINE Goal == fragActive' \in [Chans -> BOOLEAN] /\ fragFirst' \in [Chans -> BOOLEAN]
  <2>0. fragActive \in [Chans -> BOOLEAN] /\ fragFirst \in [Chans -> BOOLEAN]
    BY DEF TypeOK
  <2>1. ASSUME UNCHANGED <<fragActive, fragFirst>> PROVE Goal
    BY <2>0, <2>1
  <2>2. ASSUME NEW t \in Threads, Stream(t) PROVE Goal
    <3>1. UNCHANGED <<fragActive, fragFirst>>
          \/ \E c \in Chans : fragActive' = [fragActive EXCEPT ![c] = TRUE] /\ fragFirst' = [fragFirst EXCEPT ![c] = TRUE]
      BY <2>2 DEF Stream, fragVars
    <3> QED
      BY <2>0, <3>1
  <2>3. ASSUME NEW t \in Threads, WriteFragment(t) PROVE Goal
    <3>1. \/ UNCHANGED <<fragActive, fragFirst>>
          \/ /\ fragFirst' = [fragFirst EXCEPT ![call[t].chan] = FALSE]
             /\ \E last \in BOOLEAN : fragActive' = [fragActive EXCEPT ![call[t].chan] = last]
      BY <2>3 DEF WriteFragment, fragVars
    <3> QED
      BY <2>0, <3>1
  <2> HIDE DEF Goal
  <2>4. ASSUME NEW t \in Threads, Join(t) \/ Leave(t) \/ LeaveEverything(t) \/ Prune(t) \/ Release(t)
               \/ ReleaseRooms(t) \/ Broadcast(t) \/ Deliver(t) \/ Send(t) \/ QueueFragment(t) PROVE Goal
    <3>1. UNCHANGED <<fragActive, fragFirst>>
      BY <2>4 DEF Join, Leave, LeaveEverything, Prune, Release, ReleaseRooms, Broadcast, Deliver, Send,
                  QueueFragment, fragVars
    <3> QED
      BY <2>1, <3>1
  <2>5. ASSUME NEW t \in Threads, MediaJoin(t) \/ MediaBinary(t) \/ MediaHook(t) \/ MediaRoom(t) \/ MediaNote(t)
               \/ MediaLeave(t) \/ MediaLeaveRoom(t) \/ MediaSend(t) \/ MediaCopy(t) PROVE Goal
    <3>1. UNCHANGED <<fragActive, fragFirst>>
      BY <2>5 DEF MediaJoin, MediaBinary, MediaHook, MediaRoom, MediaNote, MediaLeave, MediaLeaveRoom,
                  MediaSend, MediaCopy, fragVars
    <3> QED
      BY <2>1, <3>1
  <2>6. ASSUME NEW t \in Threads, ThreadStep(t) PROVE Goal
    BY <2>2, <2>3, <2>4, <2>5, <2>6, Zenon DEF ThreadStep
  <2>7. ASSUME NEW c \in Chans, WorkerStep(c) PROVE Goal
    <3>1. UNCHANGED <<fragActive, fragFirst>>
      BY <2>7, WorkersLeaveThreads
    <3> QED
      BY <2>1, <3>1
  <2>8. ASSUME UNCHANGED vars PROVE Goal
    <3>1. UNCHANGED <<fragActive, fragFirst>>
      BY <2>8 DEF vars, fragVars
    <3> QED
      BY <2>1, <3>1
  <2> QED
    BY <2>6, <2>7, <2>8, Zenon DEF Next, Goal
<1> QED
  BY <1>1, <1>2 DEF TypeOfQueues

(* Types, where threads are in their calls, and addresses, together. *)
Base == TypeOK /\ CallsRight /\ Shared

LEMMA InitBase == Init => Base
<1> SUFFICES ASSUME Init PROVE Base
  OBVIOUS
<1>0. <<>> \in Seq(Hooks) /\ <<>> \in Seq(Frames) /\ <<>> \in Seq(Chans) /\ None \notin Chans /\ Range(<<>>) = {}
  BY RoomsAssumption DEF RoomsAssumption, Range
<1>1. TypeOfChannels
  <2>1. \A c \in Chans : addr[c] = None /\ phase[c] = "new" /\ closeFired[c] = FALSE
    BY DEF Init
  <2>2. /\ phase \in [Chans -> Phases] /\ addr \in [Chans -> Addrs \cup {None}]
        /\ closed \in [Chans -> BOOLEAN] /\ closeFired \in [Chans -> BOOLEAN] /\ onBinary \in [Chans -> BOOLEAN]
    BY DEF Init, Phases
  <2>3. onClose \in [Chans -> Seq(Hooks)] /\ hooks \in [Chans -> Seq(Hooks)]
    BY <1>0 DEF Init
  <2> QED
    BY <2>1, <2>2, <2>3 DEF TypeOfChannels
<1>2. TypeOfTables
  BY <1>0 DEF Init, TypeOfTables
<1>3. TypeOfQueues
  BY <1>0 DEF Init, TypeOfQueues
<1>4. TypeOfCalls /\ \A t \in Threads : pc[t] = "idle" /\ call[t] = Idle
  BY AnyCall DEF Init, TypeOfCalls, Places
<1>5. TypeOK
  BY <1>1, <1>2, <1>3, <1>4, TypeParts
<1>6. CallsRight
  BY <1>4 DEF CallsRight, OnChannel, OnRoom, Sending
<1>7. \A c \in Chans : ~Referenced(c)
  <2>1. \A t \in Threads : call[t].chan = None /\ call[t].todo = <<>>
    BY <1>4 DEF Idle
  <2>2. \A c \in Chans : phase[c] = "new" /\ c \notin live /\ \A r \in RoomNames : rooms[r] = <<>>
    BY DEF Init
  <2> QED
    BY <1>0, <2>1, <2>2 DEF Referenced
<1> QED
  BY <1>5, <1>6, <1>7 DEF Base, Shared

LEMMA NextBase == Base /\ [Next]_vars => Base'
<1> SUFFICES ASSUME Base, [Next]_vars PROVE Base'
  OBVIOUS
<1>1. TypeOK /\ CallsRight /\ Shared
  BY DEF Base
<1>2. \A t \in Threads : pc[t] \in OnChannel => call[t].chan \in Chans
  BY <1>1 DEF CallsRight
<1>3. TypeOfChannels'
  BY <1>1, <1>2, ChannelsStayTyped, TypeParts
<1>4. TypeOfCalls' /\ CallsRight' /\ \A t \in Threads : (pc'[t] = "idle") = (call'[t] = Idle)
  BY <1>1, CallsStayRight
<1>5. TypeOfTables' /\ TypeOfQueues'
  BY <1>1, TablesStayTyped, QueuesStayTyped
<1>6. TypeOK'
  BY <1>3, <1>4, <1>5, Zenon DEF TypeOK, TypeOfChannels, TypeOfTables, TypeOfQueues, TypeOfCalls, Phases
<1> QED
  BY <1>1, <1>4, <1>6, SharedStays DEF Base

-----------------------------------------------------------------------------
(* Where a thread comes from and where it goes.                            *)

LEMMA OthersStay ==
  ASSUME TypeOK, NEW t \in Threads, ThreadStep(t)
  PROVE  \A u \in Threads \ {t} : pc'[u] = pc[u] /\ call'[u] = call[u] /\ calls'[u] = calls[u]
<1> DEFINE Goal == \A u \in Threads \ {t} : pc'[u] = pc[u] /\ call'[u] = call[u] /\ calls'[u] = calls[u]
<1>0. pc \in [Threads -> Places] /\ call \in [Threads -> Calls] /\ calls \in [Threads -> Nat]
  BY DEF TypeOK
<1>1. ASSUME pc' = pc \/ (\E p : pc' = [pc EXCEPT ![t] = p]),
             \/ call' = call \/ (\E x : call' = [call EXCEPT ![t] = x])
             \/ (\E x : call' = [call EXCEPT ![t].todo = x]) \/ (\E x : call' = [call EXCEPT ![t].frame = x]),
             calls' = calls \/ (\E n : calls' = [calls EXCEPT ![t] = n])
      PROVE  Goal
  <2>1. \A u \in Threads \ {t} : pc'[u] = pc[u]
    BY <1>0, <1>1
  <2>2. \A u \in Threads \ {t} : calls'[u] = calls[u]
    BY <1>0, <1>1
  <2>3. \A u \in Threads \ {t} : call'[u] = call[u]
    BY <1>0, <1>1
  <2> QED
    BY <2>1, <2>2, <2>3
<1> HIDE DEF Goal
<1>2. ASSUME Return(t), calls' = calls PROVE Goal
  BY <1>1, <1>2 DEF Return
<1>3. CASE Join(t) \/ Leave(t) \/ LeaveEverything(t) \/ Prune(t) \/ Send(t)
  <2>1. UNCHANGED <<pc, call>> /\ calls' = [calls EXCEPT ![t] = calls[t] + 1]
    BY <1>3 DEF Join, Leave, LeaveEverything, Prune, Send, Begin
  <2> QED
    BY <1>1, <2>1 DEF Goal
<1>4. CASE ReleaseRooms(t) \/ MediaNote(t) \/ MediaLeaveRoom(t)
  <2>1. Return(t) /\ calls' = calls
    BY <1>4 DEF ReleaseRooms, MediaNote, MediaLeaveRoom
  <2> QED
    BY <1>2, <2>1 DEF Goal
<1>5. CASE MediaBinary(t) \/ MediaHook(t) \/ MediaRoom(t)
  <2>1. UNCHANGED <<call, calls>> /\ \E p : pc' = [pc EXCEPT ![t] = p]
    BY <1>5 DEF MediaBinary, MediaHook, MediaRoom
  <2> QED
    BY <1>1, <2>1 DEF Goal
<1>6. CASE Release(t) \/ Broadcast(t) \/ MediaJoin(t) \/ MediaLeave(t) \/ MediaSend(t)
  <2>1. calls' = [calls EXCEPT ![t] = calls[t] + 1]
    BY <1>6 DEF Release, Broadcast, MediaJoin, MediaLeave, MediaSend, MediaCall, Begin
  <2>2. \E p : pc' = [pc EXCEPT ![t] = p]
    BY <1>6, Zenon DEF Release, Broadcast, MediaJoin, MediaLeave, MediaSend, MediaCall
  <2>3. \E x : call' = [call EXCEPT ![t] = x]
    BY <1>6, Zenon DEF Release, Broadcast, MediaJoin, MediaLeave, MediaSend, MediaCall
  <2> QED
    BY <1>1, <2>1, <2>2, <2>3 DEF Goal
<1>7. CASE Deliver(t)
  <2>1. calls' = calls
    BY <1>7 DEF Deliver
  <2>2. Return(t) \/ (pc' = pc /\ \E x : call' = [call EXCEPT ![t].todo = x])
    BY <1>7, Zenon DEF Deliver
  <2> QED
    BY <1>1, <1>2, <2>1, <2>2 DEF Goal
<1>8. CASE MediaCopy(t)
  <2>1. calls' = calls /\ (\E p : pc' = [pc EXCEPT ![t] = p]) /\ \E x : call' = [call EXCEPT ![t].todo = x]
    BY <1>8, Zenon DEF MediaCopy
  <2> QED
    BY <1>1, <2>1 DEF Goal
<1>9. CASE Stream(t)
  <2>1. calls' = [calls EXCEPT ![t] = calls[t] + 1]
    BY <1>9 DEF Stream, Begin
  <2>2. /\ pc' = pc \/ \E p : pc' = [pc EXCEPT ![t] = p]
        /\ call' = call \/ \E x : call' = [call EXCEPT ![t] = x]
    BY <1>9 DEF Stream
  <2> QED
    BY <1>1, <2>1, <2>2 DEF Goal
<1>10. CASE WriteFragment(t)
  <2>1. calls' = calls
    BY <1>10 DEF WriteFragment
  <2>2. Return(t) \/ ((\E p : pc' = [pc EXCEPT ![t] = p]) /\ \E x : call' = [call EXCEPT ![t].frame = x])
    BY <1>10, Zenon DEF WriteFragment
  <2> QED
    BY <1>1, <1>2, <2>1, <2>2 DEF Goal
<1>11. CASE QueueFragment(t)
  <2>1. calls' = calls
    BY <1>11 DEF QueueFragment
  <2>2. Return(t) \/ ((\E p : pc' = [pc EXCEPT ![t] = p]) /\ \E x : call' = [call EXCEPT ![t] = x])
    BY <1>11, Zenon DEF QueueFragment
  <2> QED
    BY <1>1, <1>2, <2>1, <2>2 DEF Goal
<1> QED
  BY <1>3, <1>4, <1>5, <1>6, <1>7, <1>8, <1>9, <1>10, <1>11, Zenon DEF ThreadStep

(* The one action of a thread in each place, and the ones that bring it    *)
(* there.                                                                  *)
LEMMA PlacesLeft ==
  ASSUME TypeOK, NEW t \in Threads, ThreadStep(t)
  PROVE  /\ pc[t] = "release" => ReleaseRooms(t)
         /\ pc[t] = "mediaBinary" => MediaBinary(t)
         /\ pc[t] = "mediaHook" => MediaHook(t)
         /\ pc[t] = "mediaRoom" => MediaRoom(t)
         /\ pc[t] = "mediaNote" => MediaNote(t)
         /\ pc[t] = "mediaCopy" => MediaCopy(t)
         /\ pc[t] = "deliver" => Deliver(t)
         /\ pc[t] = "fragment" => WriteFragment(t)
         /\ pc[t] = "queue" => QueueFragment(t)
         /\ pc[t] = "mediaLeave" => MediaLeaveRoom(t)
         /\ pc[t] # "idle" => calls'[t] = calls[t]
         /\ pc[t] = "idle" => calls'[t] = calls[t] + 1
<1>1. calls \in [Threads -> Nat] /\ pc[t] \in Places
  BY DEF TypeOK
<1>2. CASE Join(t) \/ Leave(t) \/ LeaveEverything(t) \/ Prune(t) \/ Release(t) \/ Broadcast(t)
           \/ MediaJoin(t) \/ MediaLeave(t) \/ MediaSend(t) \/ Send(t) \/ Stream(t)
  <2>1. pc[t] = "idle" /\ calls' = [calls EXCEPT ![t] = calls[t] + 1]
    BY <1>2 DEF Join, Leave, LeaveEverything, Prune, Release, Broadcast, MediaJoin, MediaLeave, MediaSend,
                Send, Stream, MediaCall, Begin
  <2> QED
    BY <1>1, <2>1
<1>3. ReleaseRooms(t) => pc[t] = "release" /\ calls' = calls
  BY DEF ReleaseRooms
<1>4. MediaBinary(t) => pc[t] = "mediaBinary" /\ calls' = calls
  BY DEF MediaBinary
<1>5. MediaHook(t) => pc[t] = "mediaHook" /\ calls' = calls
  BY DEF MediaHook
<1>6. MediaRoom(t) => pc[t] = "mediaRoom" /\ calls' = calls
  BY DEF MediaRoom
<1>7. MediaNote(t) => pc[t] = "mediaNote" /\ calls' = calls
  BY DEF MediaNote
<1>8. MediaCopy(t) => pc[t] = "mediaCopy" /\ calls' = calls
  BY DEF MediaCopy
<1>9. Deliver(t) => pc[t] = "deliver" /\ calls' = calls
  BY DEF Deliver
<1>10. WriteFragment(t) => pc[t] = "fragment" /\ calls' = calls
  BY DEF WriteFragment
<1>11. QueueFragment(t) => pc[t] = "queue" /\ calls' = calls
  BY DEF QueueFragment
<1>12. MediaLeaveRoom(t) => pc[t] = "mediaLeave" /\ calls' = calls
  BY DEF MediaLeaveRoom
<1> QED
  BY <1>2, <1>3, <1>4, <1>5, <1>6, <1>7, <1>8, <1>9, <1>10, <1>11, <1>12 DEF ThreadStep

LEMMA PlacesReached ==
  ASSUME TypeOK, NEW t \in Threads, ThreadStep(t)
  PROVE  /\ pc'[t] = "release" => Release(t)
         /\ pc'[t] = "mediaBinary" => MediaJoin(t)
         /\ pc'[t] = "mediaHook" => MediaBinary(t)
         /\ pc'[t] = "mediaRoom" => MediaJoin(t) \/ MediaHook(t)
         /\ pc'[t] = "mediaNote" => MediaRoom(t)
         /\ pc'[t] = "mediaCopy" => MediaSend(t)
         /\ pc'[t] = "deliver" => Broadcast(t) \/ Deliver(t) \/ MediaCopy(t)
         /\ pc'[t] = "fragment" => Stream(t) \/ QueueFragment(t)
         /\ pc'[t] = "queue" => WriteFragment(t)
<1>0. pc \in [Threads -> Places]
  BY DEF TypeOK
<1>1. Join(t) \/ Leave(t) \/ LeaveEverything(t) \/ Prune(t) \/ Send(t) => pc'[t] = "idle"
  BY DEF Join, Leave, LeaveEverything, Prune, Send, Begin
<1>2. ReleaseRooms(t) \/ MediaNote(t) \/ MediaLeaveRoom(t) => pc'[t] = "idle"
  BY <1>0 DEF ReleaseRooms, MediaNote, MediaLeaveRoom, Return
<1>3. Release(t) => pc'[t] = "release"
  BY <1>0 DEF Release
<1>4. Broadcast(t) \/ MediaCopy(t) => pc'[t] = "deliver"
  BY <1>0 DEF Broadcast, MediaCopy
<1>5. Deliver(t) => pc'[t] \in {"idle", "deliver"}
  BY <1>0 DEF Deliver, Return
<1>6. MediaJoin(t) => pc'[t] \in {"mediaRoom", "mediaBinary"}
  BY <1>0 DEF MediaJoin
<1>7. MediaBinary(t) => pc'[t] = "mediaHook"
  BY <1>0 DEF MediaBinary
<1>8. MediaHook(t) => pc'[t] = "mediaRoom"
  BY <1>0 DEF MediaHook
<1>9. MediaRoom(t) => pc'[t] = "mediaNote"
  BY <1>0 DEF MediaRoom
<1>10. MediaLeave(t) => pc'[t] = "mediaLeave"
  BY <1>0 DEF MediaLeave
<1>11. MediaSend(t) => pc'[t] = "mediaCopy"
  BY <1>0 DEF MediaSend, MediaCall
<1>12. Stream(t) => pc'[t] \in {"idle", "fragment"}
  BY <1>0 DEF Stream, Begin
<1>13. WriteFragment(t) => pc'[t] \in {"idle", "queue"}
  BY <1>0 DEF WriteFragment, Return
<1>14. QueueFragment(t) => pc'[t] \in {"idle", "fragment"}
  BY <1>0 DEF QueueFragment, Return
<1> QED
  BY <1>1, <1>2, <1>3, <1>4, <1>5, <1>6, <1>7, <1>8, <1>9, <1>10, <1>11, <1>12, <1>13, <1>14 DEF ThreadStep

(* A worker's step is about its own channel. *)
LEMMA OtherChannelsStay ==
  ASSUME TypeOK, NEW c \in Chans, WorkerStep(c), NEW d \in Chans \ {c}
  PROVE  /\ phase'[d] = phase[d] /\ addr'[d] = addr[d] /\ closeFired'[d] = closeFired[d]
         /\ onClose'[d] = onClose[d] /\ hooks'[d] = hooks[d] /\ onBinary'[d] = onBinary[d]
         /\ d \in live' <=> d \in live
<1>0. /\ phase \in [Chans -> Phases] /\ addr \in [Chans -> Addrs \cup {None}]
      /\ closeFired \in [Chans -> BOOLEAN] /\ onClose \in [Chans -> Seq(Hooks)] /\ hooks \in [Chans -> Seq(Hooks)]
  BY Zenon DEF TypeOK, Phases
<1>1. CASE Open(c)
  <2>1. /\ phase' = [phase EXCEPT ![c] = "bound"] /\ onClose' = [onClose EXCEPT ![c] = <<"easy">>]
        /\ live' = live \cup {c} /\ (\E a \in Addrs : addr' = [addr EXCEPT ![c] = a])
        /\ UNCHANGED <<closeFired, hooks, onBinary>>
    BY <1>1 DEF Open
  <2> QED
    BY <1>0, <2>1
<1>2. CASE FireClose(c)
  <2>1. /\ phase' = [phase EXCEPT ![c] = "firing"] /\ closeFired' = [closeFired EXCEPT ![c] = TRUE]
        /\ hooks' = [hooks EXCEPT ![c] = onClose[c]] /\ UNCHANGED <<addr, onClose, onBinary, live>>
    BY <1>2 DEF FireClose
  <2> QED
    BY <1>0, <2>1
<1>3. CASE RunEasyHook(c)
  <2>1. /\ \E s : hooks' = [hooks EXCEPT ![c] = s]
        /\ live' = live \/ live' = live \ {c}
        /\ UNCHANGED <<phase, addr, closeFired, onClose, onBinary>>
    BY <1>3 DEF RunEasyHook
  <2> QED
    BY <1>0, <2>1
<1>4. CASE RunEasyRooms(c) \/ RunMediaHook(c)
  <2>1. /\ hooks' = [hooks EXCEPT ![c] = Tail(hooks[c])]
        /\ UNCHANGED <<phase, addr, closeFired, onClose, onBinary, live>>
    BY <1>4 DEF RunEasyRooms, RunMediaHook
  <2> QED
    BY <1>0, <2>1
<1>5. CASE Gone(c)
  <2>1. /\ phase' = [phase EXCEPT ![c] = "gone"]
        /\ UNCHANGED <<addr, closeFired, onClose, hooks, onBinary, live>>
    BY <1>5 DEF Gone
  <2> QED
    BY <1>0, <2>1
<1>6. CASE Adopt(c) \/ HandlerThrows(c) \/ Refuse(c)
  <2>1. /\ phase' = phase \/ \E p : phase' = [phase EXCEPT ![c] = p]
        /\ UNCHANGED <<addr, closeFired, onClose, hooks, onBinary, live>>
    BY <1>6, Beginnings
  <2> QED
    BY <1>0, <2>1
<1> QED
  BY <1>1, <1>2, <1>3, <1>4, <1>5, <1>6, Zenon DEF WorkerStep

-----------------------------------------------------------------------------
(* Close handlers, and members of rooms.                                   *)

LEMMA LateGrows ==
  ASSUME [Next]_vars
  PROVE  late \subseteq late'
<1>1. ASSUME NEW c \in Chans, WorkerStep(c) PROVE late' = late
  BY <1>1, Beginnings DEF WorkerStep, Open, FireClose, RunEasyHook, RunEasyRooms, RunMediaHook, Gone, history
<1>2. ASSUME NEW c, JoinedLate(c) PROVE late \subseteq late'
  BY <1>2 DEF JoinedLate
<1>3. ASSUME NEW t \in Threads, ThreadStep(t) PROVE late \subseteq late'
  <2>1. CASE Join(t) \/ MediaHook(t) \/ MediaRoom(t) \/ MediaNote(t)
    <3>1. \E c : JoinedLate(c)
      BY <2>1, Zenon DEF Join, MediaHook, MediaRoom, MediaNote
    <3> QED
      BY <1>2, <3>1
  <2>2. CASE Leave(t) \/ LeaveEverything(t) \/ Prune(t) \/ Release(t) \/ ReleaseRooms(t) \/ Broadcast(t)
             \/ Deliver(t) \/ Send(t) \/ Stream(t) \/ WriteFragment(t) \/ QueueFragment(t)
    BY <2>2 DEF Leave, LeaveEverything, Prune, Release, ReleaseRooms, Broadcast, Deliver, Send, Stream,
                WriteFragment, QueueFragment, history
  <2>3. CASE MediaJoin(t) \/ MediaBinary(t) \/ MediaLeave(t) \/ MediaLeaveRoom(t) \/ MediaSend(t) \/ MediaCopy(t)
    BY <2>3 DEF MediaJoin, MediaBinary, MediaLeave, MediaLeaveRoom, MediaSend, MediaCopy, history
  <2> QED
    BY <1>3, <2>1, <2>2, <2>3, Zenon DEF ThreadStep
<1> QED
  BY <1>1, <1>3 DEF Next, vars, history

LEMMA HooksStayRight ==
  ASSUME Base, HooksRight, [Next]_vars
  PROVE  HooksRight'
<1>0. TypeOK /\ CallsRight /\ Shared
  BY DEF Base
<1>a. /\ phase \in [Chans -> Phases] /\ closeFired \in [Chans -> BOOLEAN]
      /\ onClose \in [Chans -> Seq(Hooks)] /\ hooks \in [Chans -> Seq(Hooks)] /\ onBinary \in [Chans -> BOOLEAN]
  BY <1>0, Zenon DEF TypeOK, Phases
<1>b. \A c \in Chans : HookRight(c)
  BY DEF HooksRight
<1>1. ASSUME NEW c \in Chans,
             /\ phase'[c] = phase[c] /\ closeFired'[c] = closeFired[c] /\ onClose'[c] = onClose[c]
             /\ hooks'[c] = hooks[c] /\ onBinary'[c] = onBinary[c] /\ (c \in live' => c \in live),
             UNCHANGED <<pc, call>>
      PROVE  HookRight(c)'
  BY <1>1, <1>b DEF HookRight
<1>2. ASSUME NEW c \in Chans, WorkerStep(c) PROVE HookRight(c)'
  <2>0. UNCHANGED <<pc, call>>
    BY <1>2, WorkersLeaveThreads
  <2>1. CASE Open(c)
    <3>1. /\ phase[c] = "new" /\ phase'[c] = "bound" /\ onClose'[c] = <<"easy">>
          /\ UNCHANGED <<closeFired, hooks, onBinary>>
      BY <1>a, <2>1 DEF Open
    <3>2. \A t \in Threads : pc'[t] = "mediaHook" => call'[t].chan # c
      BY <1>0, <2>0, <3>1, CalledChannel DEF OnChannel
    <3>3. onClose'[c] # <<>> /\ Head(onClose'[c]) = "easy" /\ "media" \notin Range(onClose'[c])
      BY <3>1, HookTypes
    <3> QED
      BY <1>b, <3>1, <3>2, <3>3 DEF HookRight
  <2>2. CASE FireClose(c)
    <3>1. /\ phase[c] = "open" /\ phase'[c] = "firing" /\ closeFired'[c] = TRUE /\ hooks'[c] = onClose[c]
          /\ UNCHANGED <<onClose, onBinary, live>>
      BY <1>a, <2>2 DEF FireClose
    <3> QED
      BY <1>b, <2>0, <3>1 DEF HookRight
  <2>3. CASE RunEasyHook(c)
    <3>1. /\ phase[c] = "firing" /\ c \notin live' /\ UNCHANGED <<phase, closeFired, onClose, onBinary>>
      BY <2>3 DEF RunEasyHook
    <3> QED
      BY <1>b, <2>0, <3>1 DEF HookRight
  <2>4. CASE RunEasyRooms(c) \/ RunMediaHook(c)
    <3>1. /\ phase[c] = "firing" /\ hooks[c] # <<>> /\ Head(hooks[c]) \in {"rooms", "media"}
          /\ UNCHANGED <<phase, closeFired, onClose, onBinary, live>>
      BY <2>4 DEF RunEasyRooms, RunMediaHook
    <3> QED
      BY <1>b, <2>0, <3>1 DEF HookRight
  <2>5. CASE Gone(c)
    <3>1. /\ phase[c] = "firing" /\ hooks[c] = <<>> /\ phase'[c] = "gone"
          /\ UNCHANGED <<closeFired, onClose, hooks, onBinary, live>>
      BY <1>a, <2>5 DEF Gone
    <3> QED
      BY <1>a, <1>b, <2>0, <3>1 DEF HookRight
  <2>6. CASE Adopt(c) \/ HandlerThrows(c) \/ Refuse(c)
    <3>1. /\ phase'[c] = phase[c] \/ (phase[c] = "bound" /\ phase'[c] \in {"open", "lost"})
          /\ UNCHANGED <<closeFired, onClose, hooks, onBinary, live>>
      BY <1>a, <2>6, Beginnings
    <3> QED
      BY <1>b, <2>0, <3>1 DEF HookRight
  <2> QED
    BY <1>2, <2>1, <2>2, <2>3, <2>4, <2>5, <2>6, Zenon DEF WorkerStep
<1>3. ASSUME NEW c \in Chans, NEW d \in Chans \ {c}, WorkerStep(d) PROVE HookRight(c)'
  <2>1. UNCHANGED <<pc, call>>
    BY <1>3, WorkersLeaveThreads
  <2> QED
    BY <1>0, <1>1, <1>3, <2>1, OtherChannelsStay
<1>4. ASSUME NEW c \in Chans, NEW t \in Threads, ThreadStep(t) PROVE HookRight(c)'
  <2>1. UNCHANGED <<phase, closeFired, hooks>> /\ (UNCHANGED <<onClose, onBinary>> \/ MediaBinary(t) \/ MediaHook(t))
    BY <1>4, ThreadsLeaveChannels
  <2>2. c \in live' => c \in live
    BY <1>4, ReleasesAlone DEF Release
  <2>3. /\ onClose'[c] = onClose[c]
           \/ /\ onClose'[c] = Append(onClose[c], "media") /\ MediaHook(t) /\ pc[t] = "mediaHook"
              /\ call[t].chan = c /\ phase[c] # "new"
        /\ onBinary[c] => onBinary'[c]
    <3>1. CASE UNCHANGED <<onClose, onBinary>>
      BY <3>1
    <3>2. CASE MediaBinary(t)
      <4>1. onBinary' = [onBinary EXCEPT ![call[t].chan] = TRUE] /\ onClose' = onClose
        BY <3>2 DEF MediaBinary
      <4> QED
        BY <1>a, <4>1
    <3>3. CASE MediaHook(t)
      <4>1. /\ onClose' = [onClose EXCEPT ![call[t].chan] = Append(onClose[call[t].chan], "media")]
            /\ onBinary' = onBinary /\ pc[t] = "mediaHook"
        BY <3>3 DEF MediaHook
      <4>2. call[t].chan \in Chans /\ phase[call[t].chan] # "new"
        BY <1>0, <4>1, CalledChannel DEF OnChannel
      <4> QED
        BY <1>a, <3>3, <4>1, <4>2
    <3> QED
      BY <2>1, <3>1, <3>2, <3>3
  <2>4. ASSUME NEW u \in Threads, pc'[u] = "mediaHook", call'[u].chan = c PROVE onBinary'[c]
    <3>1. CASE u = t
      <4>1. MediaBinary(t)
        BY <1>0, <1>4, <2>4, <3>1, PlacesReached
      <4>2. onBinary' = [onBinary EXCEPT ![call[t].chan] = TRUE] /\ call' = call
        BY <4>1 DEF MediaBinary
      <4> QED
        BY <1>a, <2>4, <3>1, <4>2
    <3>2. CASE u # t
      <4>1. pc[u] = "mediaHook" /\ call[u].chan = c
        BY <1>0, <1>4, <2>4, <3>2, OthersStay
      <4> QED
        BY <1>b, <2>3, <4>1 DEF HookRight
    <3> QED
      BY <3>1, <3>2
  <2>5. CASE onClose'[c] = onClose[c]
    BY <1>b, <2>1, <2>2, <2>3, <2>4, <2>5 DEF HookRight
  <2>6. CASE onClose'[c] # onClose[c]
    <3>1. /\ onClose'[c] = Append(onClose[c], "media") /\ pc[t] = "mediaHook" /\ call[t].chan = c /\ phase[c] # "new"
      BY <2>3, <2>6
    <3>2. onClose[c] # <<>> /\ Head(onClose[c]) = "easy" /\ onBinary[c] /\ onClose[c] \in Seq(Hooks)
      BY <1>a, <1>b, <3>1 DEF HookRight
    <3>3. onClose'[c] # <<>> /\ Head(onClose'[c]) = "easy"
      BY <3>1, <3>2, HookTypes
    <3>4. onBinary'[c]
      BY <2>3, <3>2
    <3> QED
      BY <1>b, <2>1, <2>2, <2>4, <3>1, <3>3, <3>4 DEF HookRight
  <2> QED
    BY <2>5, <2>6
<1>5. ASSUME UNCHANGED vars, NEW c \in Chans PROVE HookRight(c)'
  <2>1. UNCHANGED <<phase, closeFired, onClose, hooks, onBinary, live, pc, call>>
    BY <1>5 DEF vars, chanVars
  <2> QED
    BY <1>1, <2>1
<1>6. \A c \in Chans : HookRight(c)'
  BY <1>2, <1>3, <1>4, <1>5 DEF Next
<1> QED
  BY <1>6 DEF HooksRight

LEMMA MembersStay ==
  ASSUME Base, HooksRight, Members, [Next]_vars
  PROVE  Members'
<1>0. TypeOK /\ CallsRight /\ Shared
  BY DEF Base
<1>a. /\ phase \in [Chans -> Phases] /\ rooms \in [RoomNames -> Seq(Chans)]
      /\ hooks \in [Chans -> Seq(Hooks)] /\ call \in [Threads -> Calls] /\ pc \in [Threads -> Places]
  BY <1>0, Zenon DEF TypeOK, Phases
<1> SUFFICES ASSUME NEW c \in Chans, c \notin late', NEW r \in RoomNames, c \in Range(rooms'[r])
             PROVE  \/ c \in live' \/ Releasing(c)'
                    \/ phase'[c] = "firing" /\ hooks'[c] # <<>> /\ Head(hooks'[c]) = "rooms"
  BY Zenon DEF Members
<1>1. \/ c \in live \/ Releasing(c)
      \/ phase[c] = "firing" /\ hooks[c] # <<>> /\ Head(hooks[c]) = "rooms"
  <2>1. c \notin late
    BY LateGrows
  <2>2. c \in Range(rooms[r]) \/ c \in live
    BY <1>0, RoomsChange
  <2> QED
    BY <2>1, <2>2 DEF Members
<1>2. ASSUME UNCHANGED <<pc, call>>, c \in live => c \in live', phase'[c] = phase[c], hooks'[c] = hooks[c]
      PROVE  \/ c \in live' \/ Releasing(c)'
             \/ phase'[c] = "firing" /\ hooks'[c] # <<>> /\ Head(hooks'[c]) = "rooms"
  BY <1>1, <1>2 DEF Releasing
<1>3. CASE WorkerStep(c)
  <2>0. UNCHANGED <<pc, call>>
    BY <1>3, WorkersLeaveThreads
  <2>1. CASE Open(c)
    BY <2>1 DEF Open
  <2>2. CASE FireClose(c)
    <3>1. live' = live /\ phase[c] = "open"
      BY <2>2 DEF FireClose
    <3> QED
      BY <1>1, <2>0, <3>1 DEF Releasing
  <2>3. CASE RunEasyHook(c)
    <3>1. /\ phase[c] = "firing" /\ hooks[c] # <<>> /\ Head(hooks[c]) = "easy" /\ phase' = phase
          /\ c \in live => hooks' = [hooks EXCEPT ![c] = <<"rooms">> \o Tail(hooks[c])]
      BY <2>3 DEF RunEasyHook
    <3>2. CASE c \in live
      <4>1. hooks'[c] = <<"rooms">> \o Tail(hooks[c])
        BY <1>a, <3>1, <3>2
      <4>2. hooks'[c] # <<>> /\ Head(hooks'[c]) = "rooms"
        BY <1>a, <3>1, <4>1, HookTypes
      <4> QED
        BY <3>1, <4>2
    <3>3. CASE c \notin live
      BY <1>1, <2>0, <3>1, <3>3 DEF Releasing
    <3> QED
      BY <3>2, <3>3
  <2>4. CASE RunEasyRooms(c) \/ RunMediaHook(c)
    <3>1. rooms' = LeaveAll(c)
      BY <2>4 DEF RunEasyRooms, RunMediaHook
    <3> QED
      BY <1>a, <3>1, EveryRoomLeft
  <2>5. CASE Gone(c)
    <3>1. live' = live /\ hooks[c] = <<>>
      BY <2>5 DEF Gone
    <3> QED
      BY <1>1, <2>0, <3>1 DEF Releasing
  <2>6. CASE Adopt(c) \/ HandlerThrows(c) \/ Refuse(c)
    <3>1. live' = live /\ phase[c] # "firing"
      <4>1. Adopt(c) \/ HandlerThrows(c) \/ Refuse(c) => live' = live
        BY Beginnings
      <4>2. Adopt(c) \/ HandlerThrows(c) \/ Refuse(c) => phase[c] \in {"bound", "open"}
        BY Beginnings
      <4> QED
        BY <2>6, <4>1, <4>2
    <3> QED
      BY <1>1, <2>0, <3>1 DEF Releasing
  <2> QED
    BY <1>3, <2>1, <2>2, <2>3, <2>4, <2>5, <2>6, Zenon DEF WorkerStep
<1>4. ASSUME NEW d \in Chans \ {c}, WorkerStep(d)
      PROVE  \/ c \in live' \/ Releasing(c)'
             \/ phase'[c] = "firing" /\ hooks'[c] # <<>> /\ Head(hooks'[c]) = "rooms"
  <2>1. UNCHANGED <<pc, call>>
    BY <1>4, WorkersLeaveThreads
  <2> QED
    BY <1>0, <1>2, <1>4, <2>1, OtherChannelsStay
<1>5. ASSUME NEW t \in Threads, ThreadStep(t)
      PROVE  \/ c \in live' \/ Releasing(c)'
             \/ phase'[c] = "firing" /\ hooks'[c] # <<>> /\ Head(hooks'[c]) = "rooms"
  <2>1. UNCHANGED <<phase, hooks>>
    BY <1>5, ThreadsLeaveChannels
  <2>2. CASE c \in live
    <3>1. CASE Release(t)
      <4>1. PICK d \in live : /\ live' = live \ {d} /\ pc' = [pc EXCEPT ![t] = "release"]
                              /\ call' = [call EXCEPT ![t] = [Idle EXCEPT !.does = "release", !.chan = d]]
        BY <3>1 DEF Release
      <4>2. pc'[t] = "release" /\ call'[t].chan = d
        BY <1>a, <4>1 DEF Idle
      <4>3. CASE d = c
        BY <4>2, <4>3 DEF Releasing
      <4>4. CASE d # c
        BY <2>2, <4>1, <4>4
      <4> QED
        BY <4>3, <4>4
    <3>2. CASE live' = live
      BY <2>2, <3>2
    <3> QED
      BY <1>5, <3>1, <3>2, ReleasesAlone
  <2>3. CASE Releasing(c)
    <3>1. PICK u \in Threads : pc[u] = "release" /\ call[u].chan = c
      BY <2>3 DEF Releasing
    <3>2. CASE u = t
      <4>1. ReleaseRooms(t)
        BY <1>0, <1>5, <3>1, <3>2, PlacesLeft
      <4>2. rooms' = LeaveAll(c)
        BY <3>1, <3>2, <4>1 DEF ReleaseRooms
      <4> QED
        BY <1>a, <4>2, EveryRoomLeft
    <3>3. CASE u # t
      <4>1. pc'[u] = "release" /\ call'[u].chan = c
        BY <1>0, <1>5, <3>1, <3>3, OthersStay
      <4> QED
        BY <4>1 DEF Releasing
    <3> QED
      BY <3>2, <3>3
  <2>4. CASE phase[c] = "firing" /\ hooks[c] # <<>> /\ Head(hooks[c]) = "rooms"
    BY <2>1, <2>4
  <2> QED
    BY <1>1, <2>2, <2>3, <2>4
<1>6. CASE UNCHANGED vars
  <2>1. UNCHANGED <<pc, call, live, phase, hooks>>
    BY <1>6 DEF vars, chanVars
  <2> QED
    BY <1>2, <2>1
<1> QED
  BY <1>3, <1>4, <1>5, <1>6 DEF Next

-----------------------------------------------------------------------------
(* What pulse_media knows of addresses.                                    *)

LEMMA EntriesChange ==
  ASSUME Base, [Next]_vars, NEW a \in Addrs
  PROVE  /\ a \in attached' => \/ a \in attached
                               \/ \E t \in Threads : /\ MediaJoin(t) /\ pc'[t] = "mediaBinary"
                                                     /\ call'[t].chan \in Chans /\ addr[call'[t].chan] = a
         /\ channelRooms'[a] # None => \/ channelRooms[a] # None
                                       \/ \E t \in Threads : MediaNote(t) /\ addr[call[t].chan] = a
         /\ a \in stale => a \in stale' \/ a \notin attached'
<1> DEFINE Goal == /\ a \in attached' => \/ a \in attached
                               \/ \E t \in Threads : /\ MediaJoin(t) /\ pc'[t] = "mediaBinary"
                                                     /\ call'[t].chan \in Chans /\ addr[call'[t].chan] = a
                   /\ channelRooms'[a] # None => \/ channelRooms[a] # None
                                       \/ \E t \in Threads : MediaNote(t) /\ addr[call[t].chan] = a
                   /\ a \in stale => a \in stale' \/ a \notin attached'
<1>0. /\ channelRooms \in [Addrs -> RoomNames \cup {None}] /\ pc \in [Threads -> Places] /\ call \in [Threads -> Calls]
  BY DEF Base, TypeOK
<1>1. ASSUME UNCHANGED <<attached, channelRooms, stale>> PROVE Goal
  BY <1>1
<1>2. ASSUME NEW c \in Chans, RunMediaHook(c) PROVE Goal
  <2>1. /\ channelRooms' = [channelRooms EXCEPT ![addr[c]] = None] /\ attached' = attached \ {addr[c]}
        /\ stale' = stale \ {addr[c]}
    BY <1>2 DEF RunMediaHook
  <2>2. channelRooms'[a] # None => channelRooms[a] # None
    BY <1>0, <2>1
  <2> QED
    BY <2>1, <2>2
<1>3. ASSUME NEW t \in Threads, MediaJoin(t) PROVE Goal
  <2>1. PICK c \in Chans, r \in RoomNames :
          /\ pc' = [pc EXCEPT ![t] = IF addr[c] \in attached THEN "mediaRoom" ELSE "mediaBinary"]
          /\ attached' = attached \cup {addr[c]}
          /\ call' = [call EXCEPT ![t] = [Idle EXCEPT !.does = "mediaJoin", !.chan = c, !.room = r]]
    BY <1>3 DEF MediaJoin
  <2>2. UNCHANGED <<channelRooms, stale>>
    BY <1>3 DEF MediaJoin, history
  <2>3. call'[t].chan = c /\ (addr[c] \notin attached => pc'[t] = "mediaBinary")
    BY <1>0, <2>1 DEF Idle
  <2> QED
    BY <1>3, <2>1, <2>2, <2>3
<1>4. ASSUME NEW t \in Threads, MediaHook(t) PROVE Goal
  <2>1. stale \subseteq stale' /\ UNCHANGED <<attached, channelRooms>>
    BY <1>4 DEF MediaHook, mediaVars
  <2> QED
    BY <2>1
<1>5. ASSUME NEW t \in Threads, MediaNote(t) PROVE Goal
  <2>1. /\ stale \subseteq stale' /\ attached' = attached
        /\ channelRooms' = [channelRooms EXCEPT ![addr[call[t].chan]] = call[t].room]
    BY <1>5 DEF MediaNote
  <2>2. channelRooms'[a] # None => channelRooms[a] # None \/ addr[call[t].chan] = a
    BY <1>0, <2>1
  <2> QED
    BY <1>5, <2>1, <2>2
<1>6. ASSUME NEW t \in Threads, MediaLeave(t) PROVE Goal
  <2>1. PICK c \in Chans, r \in RoomNames :
          channelRooms' = [channelRooms EXCEPT ![addr[c]] = IF channelRooms[addr[c]] = r THEN None ELSE channelRooms[addr[c]]]
    BY <1>6 DEF MediaLeave
  <2>2. channelRooms'[a] # None => channelRooms[a] # None
    BY <1>0, <2>1
  <2>3. UNCHANGED <<attached, stale>>
    BY <1>6 DEF MediaLeave, history
  <2> QED
    BY <2>2, <2>3
<1> HIDE DEF Goal
<1>7. ASSUME NEW c \in Chans, Open(c) \/ FireClose(c) \/ RunEasyHook(c) \/ RunEasyRooms(c) \/ Gone(c) PROVE Goal
  <2>1. UNCHANGED <<attached, channelRooms, stale>>
    BY <1>7 DEF Open, FireClose, RunEasyHook, RunEasyRooms, Gone, mediaVars, history
  <2> QED
    BY <1>1, <2>1
<1>13. ASSUME NEW c \in Chans, Adopt(c) \/ HandlerThrows(c) \/ Refuse(c) PROVE Goal
  <2>1. stale \subseteq stale' /\ UNCHANGED <<attached, channelRooms>>
    BY <1>13, Beginnings DEF HandlerThrows
  <2> QED
    BY <2>1 DEF Goal
<1>8. ASSUME NEW t \in Threads, Join(t) \/ Leave(t) \/ LeaveEverything(t) \/ Prune(t) \/ Release(t)
             \/ ReleaseRooms(t) \/ Broadcast(t) \/ Deliver(t) PROVE Goal
  <2>1. UNCHANGED <<attached, channelRooms, stale>>
    BY <1>8 DEF Join, Leave, LeaveEverything, Prune, Release, ReleaseRooms, Broadcast, Deliver, mediaVars, history
  <2> QED
    BY <1>1, <2>1
<1>9. ASSUME NEW t \in Threads, MediaBinary(t) \/ MediaRoom(t) \/ MediaLeaveRoom(t) \/ MediaSend(t) \/ MediaCopy(t)
             \/ Send(t) \/ Stream(t) \/ WriteFragment(t) \/ QueueFragment(t) PROVE Goal
  <2>1. UNCHANGED <<attached, channelRooms, stale>>
    BY <1>9 DEF MediaBinary, MediaRoom, MediaLeaveRoom, MediaSend, MediaCopy, Send, Stream, WriteFragment,
                QueueFragment, mediaVars, history
  <2> QED
    BY <1>1, <2>1
<1>10. ASSUME NEW t \in Threads, ThreadStep(t) PROVE Goal
  BY <1>3, <1>4, <1>5, <1>6, <1>8, <1>9, <1>10, Zenon DEF ThreadStep
<1>11. ASSUME NEW c \in Chans, WorkerStep(c) PROVE Goal
  BY <1>2, <1>7, <1>11, <1>13, Zenon DEF WorkerStep
<1>12. ASSUME UNCHANGED vars PROVE Goal
  <2>1. UNCHANGED <<attached, channelRooms, stale>>
    BY <1>12 DEF vars, mediaVars, history
  <2> QED
    BY <1>1, <2>1
<1> QED
  BY <1>10, <1>11, <1>12, Zenon DEF Next, Goal

(* The handler that clears an entry runs, or comes too late to be taken. *)
LateHook(c) == \E t \in Threads : MediaHook(t) /\ call[t].chan = c /\ PastHandlers(c)

LEMMA GuardStays ==
  ASSUME Base, HooksRight, [Next]_vars, NEW c \in Chans, Guarded(c)
  PROVE  Guarded(c)' \/ RunMediaHook(c) \/ LateHook(c) \/ HandlerThrows(c)
<1>0. TypeOK /\ CallsRight /\ Shared
  BY DEF Base
<1>a. /\ phase \in [Chans -> Phases] /\ onClose \in [Chans -> Seq(Hooks)]
      /\ hooks \in [Chans -> Seq(Hooks)] /\ pc \in [Threads -> Places]
      /\ \A d \in Chans : closeFired[d] = (phase[d] \in {"firing", "gone"})
  BY <1>0, Zenon DEF TypeOK, Phases
<1>1. ASSUME UNCHANGED <<pc, call>>, Attaching(c) PROVE Guarded(c)'
  BY <1>1 DEF Guarded, Attaching
<1>2. ASSUME UNCHANGED <<pc, call>>, phase'[c] = phase[c], onClose'[c] = onClose[c], hooks'[c] = hooks[c]
      PROVE  Guarded(c)'
  BY <1>2 DEF Guarded, Attaching
<1>3. CASE WorkerStep(c)
  <2>0. UNCHANGED <<pc, call>>
    BY <1>3, WorkersLeaveThreads
  <2>1. CASE Open(c)
    <3>1. phase[c] = "new"
      BY <2>1 DEF Open
    <3> QED
      BY <1>1, <2>0, <3>1 DEF Guarded, Begun
  <2>2. CASE FireClose(c)
    <3>1. phase[c] = "open" /\ phase'[c] = "firing" /\ hooks'[c] = onClose[c]
      BY <1>a, <2>2 DEF FireClose
    <3> QED
      BY <1>1, <2>0, <3>1 DEF Guarded
  <2>5. CASE Adopt(c) \/ Refuse(c)
    <3>1. phase[c] \in Begun /\ phase'[c] \in Begun /\ UNCHANGED <<onClose, hooks>>
      BY <1>a, <2>5, Beginnings DEF Begun
    <3> QED
      BY <1>1, <2>0, <3>1 DEF Guarded, Begun
  <2>3. CASE RunEasyHook(c) \/ RunEasyRooms(c)
    <3>1. /\ phase[c] = "firing" /\ hooks[c] # <<>> /\ Head(hooks[c]) # "media" /\ phase' = phase
          /\ hooks' = [hooks EXCEPT ![c] = <<"rooms">> \o Tail(hooks[c])] \/ hooks' = [hooks EXCEPT ![c] = Tail(hooks[c])]
      BY <2>3 DEF RunEasyHook, RunEasyRooms
    <3>2. hooks'[c] = <<"rooms">> \o Tail(hooks[c]) \/ hooks'[c] = Tail(hooks[c])
      BY <1>a, <3>1
    <3>3. /\ Range(hooks[c]) \subseteq Range(Tail(hooks[c])) \cup {Head(hooks[c])}
          /\ Range(Tail(hooks[c])) \subseteq Range(<<"rooms">> \o Tail(hooks[c]))
      BY <1>a, <3>1, HookTypes
    <3>4. "media" \in Range(hooks[c]) => "media" \in Range(hooks'[c])
      BY <3>1, <3>2, <3>3
    <3> QED
      BY <1>1, <2>0, <3>1, <3>4 DEF Guarded, Begun
  <2>4. CASE Gone(c)
    <3>1. phase[c] = "firing" /\ Range(hooks[c]) = {}
      BY <2>4 DEF Gone, Range
    <3> QED
      BY <1>1, <2>0, <3>1 DEF Guarded, Begun
  <2> QED
    BY <1>3, <2>1, <2>2, <2>3, <2>4, <2>5, Zenon DEF WorkerStep
<1>4. ASSUME NEW d \in Chans \ {c}, WorkerStep(d) PROVE Guarded(c)'
  <2>1. UNCHANGED <<pc, call>>
    BY <1>4, WorkersLeaveThreads
  <2> QED
    BY <1>0, <1>2, <1>4, <2>1, OtherChannelsStay
<1>5. ASSUME NEW t \in Threads, ThreadStep(t) PROVE Guarded(c)' \/ LateHook(c)
  <2>1. UNCHANGED <<phase, hooks>> /\ Range(onClose[c]) \subseteq Range(onClose'[c])
    <3>1. UNCHANGED <<phase, hooks>> /\ (onClose' = onClose \/ MediaBinary(t) \/ MediaHook(t))
      BY <1>5, ThreadsLeaveChannels
    <3>2. MediaBinary(t) => onClose' = onClose
      BY DEF MediaBinary
    <3>3. MediaHook(t) => onClose' = [onClose EXCEPT ![call[t].chan] = Append(onClose[call[t].chan], "media")]
      BY DEF MediaHook
    <3>4. MediaHook(t) => onClose'[c] = onClose[c] \/ onClose'[c] = Append(onClose[c], "media")
      BY <1>a, <3>3
    <3>5. Range(Append(onClose[c], "media")) = Range(onClose[c]) \cup {"media"}
      BY <1>a, HookTypes
    <3>6. Range(onClose[c]) \subseteq Range(onClose'[c])
      BY <3>1, <3>2, <3>4, <3>5
    <3> QED
      BY <3>1, <3>6
  <2>2. CASE Attaching(c)
    <3>1. PICK u \in Threads : pc[u] \in {"mediaBinary", "mediaHook"} /\ call[u].chan = c
      BY <2>2 DEF Attaching
    <3>2. CASE u # t
      <4>1. pc'[u] = pc[u] /\ call'[u] = call[u]
        BY <1>0, <1>5, <3>2, OthersStay
      <4> QED
        BY <3>1, <4>1 DEF Guarded, Attaching
    <3>3. CASE u = t /\ pc[t] = "mediaBinary"
      <4>1. MediaBinary(t)
        BY <1>0, <1>5, <3>3, PlacesLeft
      <4>2. pc'[t] = "mediaHook" /\ call' = call
        BY <1>a, <4>1 DEF MediaBinary
      <4> QED
        BY <3>1, <3>3, <4>2 DEF Guarded, Attaching
    <3>4. CASE u = t /\ pc[t] = "mediaHook"
      <4>1. MediaHook(t)
        BY <1>0, <1>5, <3>4, PlacesLeft
      <4>2. onClose' = [onClose EXCEPT ![c] = Append(onClose[c], "media")]
        BY <3>1, <3>4, <4>1 DEF MediaHook
      <4>3. "media" \in Range(onClose'[c])
        BY <1>a, <4>2, HookTypes
      <4>4. ~PastHandlers(c) => phase[c] \in Begun
        <5>1. phase[c] # "new"
          BY <1>0, <3>1, <3>4, CalledChannel DEF OnChannel
        <5> QED
          BY <1>a, <5>1 DEF PastHandlers, Phases, Begun
      <4> QED
        BY <2>1, <3>1, <3>4, <4>1, <4>3, <4>4 DEF Guarded, LateHook
    <3> QED
      BY <3>1, <3>2, <3>3, <3>4
  <2>3. CASE phase[c] \in Begun /\ "media" \in Range(onClose[c])
    BY <2>1, <2>3 DEF Guarded
  <2>4. CASE phase[c] = "firing" /\ "media" \in Range(hooks[c])
    BY <2>1, <2>4 DEF Guarded
  <2> QED
    BY <2>2, <2>3, <2>4 DEF Guarded
<1>6. CASE UNCHANGED vars
  <2>1. UNCHANGED <<pc, call, phase, onClose, hooks>>
    BY <1>6 DEF vars, chanVars
  <2> QED
    BY <1>2, <2>1
<1> QED
  BY <1>3, <1>4, <1>5, <1>6 DEF Next

LEMMA NotedStays ==
  ASSUME Base, HooksRight, Noted, [Next]_vars
  PROVE  Noted'
<1>0. TypeOK /\ CallsRight /\ Shared
  BY DEF Base
<1>a. /\ phase \in [Chans -> Phases] /\ addr \in [Chans -> Addrs \cup {None}]
      /\ channelRooms \in [Addrs -> RoomNames \cup {None}] /\ attached \subseteq Addrs /\ attached' \subseteq Addrs
      /\ call \in [Threads -> Calls] /\ pc \in [Threads -> Places] /\ None \notin Addrs
      /\ \A c \in Chans : (addr[c] = None) = (phase[c] = "new")
      /\ \A c \in Chans : closeFired[c] = (phase[c] \in {"firing", "gone"})
  <2>1. TypeOfTables'
    BY <1>0, TablesStayTyped
  <2> QED
    BY <1>0, <2>1, RoomsAssumption, Zenon DEF TypeOK, TypeOfTables, RoomsAssumption, Phases
<1>b. \A c \in Chans : addr[c] # None => addr'[c] = addr[c]
  <2>1. \A c \in Chans : Open(c) => phase[c] = "new"
    BY DEF Open
  <2> QED
    BY <1>0, <1>a, <2>1, PhaseChanges
<1>c. \A c \in Chans : ~PastHandlers(c) /\ phase[c] # "new" => phase[c] \in Begun
  BY <1>a DEF PastHandlers, Phases, Begun
<1>d. \A c \in Chans : RunMediaHook(c) => /\ phase[c] = "firing" /\ addr'[c] = addr[c]
                                          /\ addr[c] \notin attached' /\ channelRooms'[addr[c]] = None
  <2> SUFFICES ASSUME NEW c \in Chans, RunMediaHook(c)
               PROVE  /\ phase[c] = "firing" /\ addr'[c] = addr[c]
                      /\ addr[c] \notin attached' /\ channelRooms'[addr[c]] = None
    OBVIOUS
  <2>1. /\ phase[c] = "firing" /\ addr' = addr /\ attached' = attached \ {addr[c]}
        /\ channelRooms' = [channelRooms EXCEPT ![addr[c]] = None]
    BY DEF RunMediaHook
  <2>2. addr[c] \in Addrs
    BY <1>a, <2>1
  <2> QED
    BY <1>a, <2>1, <2>2
<1>e. \A c \in Chans : LateHook(c) => /\ addr[c] \in stale' /\ (closeFired[c] => c \in late')
                                      /\ (~closeFired[c] => phase'[c] = "lost")
  <2> SUFFICES ASSUME NEW c \in Chans, NEW t \in Threads, MediaHook(t), call[t].chan = c, PastHandlers(c)
               PROVE  /\ addr[c] \in stale' /\ (closeFired[c] => c \in late')
                      /\ (~closeFired[c] => phase'[c] = "lost")
    BY Zenon DEF LateHook
  <2>1. JoinedLate(c) /\ stale' = stale \cup {addr[c]} /\ phase' = phase
    BY DEF MediaHook
  <2> QED
    BY <2>1 DEF JoinedLate, PastHandlers
<1>g. \A c \in Chans : HandlerThrows(c) => /\ phase'[c] = "lost" /\ attached' = attached
                                           /\ (addr[c] \in attached => addr[c] \in stale')
  BY <1>a DEF HandlerThrows, mediaVars
<1>f. \A t \in Threads : MediaNote(t) => /\ call[t].chan \in Chans /\ phase[call[t].chan] # "new" /\ Noting(call[t].chan)
                                         /\ (closeFired[call[t].chan] => call[t].chan \in late')
  <2> SUFFICES ASSUME NEW t \in Threads, MediaNote(t)
               PROVE  /\ call[t].chan \in Chans /\ phase[call[t].chan] # "new" /\ Noting(call[t].chan)
                      /\ (closeFired[call[t].chan] => call[t].chan \in late')
    OBVIOUS
  <2>1. pc[t] = "mediaNote" /\ JoinedLate(call[t].chan)
    BY DEF MediaNote
  <2>2. call[t].chan \in Chans /\ phase[call[t].chan] # "new"
    BY <1>0, <2>1, CalledChannel DEF OnChannel
  <2> QED
    BY <2>1, <2>2 DEF JoinedLate, Noting
<1>1. ASSUME NEW a \in Addrs, a \in attached' \/ channelRooms'[a] # None PROVE \E c \in Chans : addr'[c] = a
  <2>1. \E c \in Chans : addr[c] = a
    <3>1. CASE a \in attached \/ channelRooms[a] # None
      BY <3>1 DEF Noted
    <3>2. CASE \E t \in Threads : /\ MediaJoin(t) /\ call'[t].chan \in Chans /\ addr[call'[t].chan] = a
      BY <3>2
    <3>3. CASE \E t \in Threads : MediaNote(t) /\ addr[call[t].chan] = a
      BY <1>f, <3>3
    <3> QED
      BY <1>1, <3>1, <3>2, <3>3, EntriesChange
  <2> QED
    BY <1>a, <1>b, <2>1
<1>2. ASSUME NEW c \in Chans, c \notin late', phase'[c] \notin {"new", "lost"}, Alone(c)'
      PROVE  /\ addr'[c] \in attached' \/ channelRooms'[addr'[c]] # None => Guarded(c)'
             /\ phase'[c] \in Begun /\ Noting(c)' => Guarded(c)'
  <2>0. c \notin late
    BY <1>2, LateGrows
  <2>1. CASE Open(c)
    <3>1. phase[c] = "new" /\ UNCHANGED <<pc, call, attached, channelRooms>>
          /\ \E a \in Addrs : addr' = [addr EXCEPT ![c] = a]
      BY <2>1 DEF Open, mediaVars
    <3>2. addr'[c] \in Addrs /\ addr[c] = None
      BY <1>a, <3>1
    <3>3. ASSUME addr'[c] \in attached' \/ channelRooms'[addr'[c]] # None PROVE FALSE
      <4>1. PICK d \in Chans : addr[d] = addr'[c]
        BY <3>1, <3>2, <3>3 DEF Noted
      <4>2. d # c /\ addr'[d] = addr[d]
        BY <1>a, <1>b, <3>2, <4>1
      <4> QED
        BY <1>2, <4>1, <4>2 DEF Alone
    <3>4. ~Noting(c)'
      <4> SUFFICES ASSUME NEW t \in Threads, pc[t] \in {"mediaRoom", "mediaNote"}, call[t].chan = c PROVE FALSE
        BY <3>1 DEF Noting
      <4> QED
        BY <1>0, <3>1, CalledChannel DEF OnChannel
    <3> QED
      BY <3>3, <3>4
  <2>2. CASE ~Open(c)
    <3>1. /\ addr'[c] = addr[c] /\ phase[c] \notin {"new", "lost"}
          /\ phase'[c] \in Begun => phase[c] \in Begun
      <4>1. FireClose(c) \/ Gone(c) => phase[c] \notin {"new", "lost"} /\ phase'[c] \notin Begun
        BY <1>a DEF FireClose, Gone, Begun
      <4>2. Adopt(c) => phase[c] = "bound"
        BY Beginnings
      <4>3. ~HandlerThrows(c)
        BY <1>2, <1>g
      <4>4. phase'[c] = phase[c] \/ Adopt(c) \/ FireClose(c) \/ Gone(c)
        BY <1>0, <2>2, <4>3, PhaseChanges
      <4>5. addr'[c] = addr[c]
        BY <1>0, <2>2, PhaseChanges
      <4> QED
        BY <1>2, <4>1, <4>2, <4>4, <4>5 DEF Begun
    <3>2. addr[c] \in Addrs
      BY <1>a, <3>1
    <3>3. Alone(c)
      <4> SUFFICES ASSUME NEW d \in Chans \ {c}, addr[d] = addr[c] PROVE FALSE
        BY DEF Alone
      <4>1. addr'[d] = addr[d]
        BY <1>a, <1>b, <3>2
      <4> QED
        BY <1>2, <3>1, <4>1 DEF Alone
    <3>4. ~LateHook(c) /\ ~HandlerThrows(c)
      BY <1>2, <1>e, <1>g
    <3>5. ASSUME addr'[c] \in attached' \/ channelRooms'[addr'[c]] # None PROVE Guarded(c)'
      <4>1. ~RunMediaHook(c)
        BY <1>d, <3>1, <3>5
      <4>2. CASE addr[c] \in attached \/ channelRooms[addr[c]] # None
        <5>1. Guarded(c)
          BY <2>0, <3>1, <3>3, <4>2 DEF Noted
        <5> QED
          BY <3>4, <4>1, <5>1, GuardStays
      <4>3. CASE \E t \in Threads : /\ MediaJoin(t) /\ pc'[t] = "mediaBinary"
                                    /\ call'[t].chan \in Chans /\ addr[call'[t].chan] = addr[c]
        <5>1. PICK t \in Threads : pc'[t] = "mediaBinary" /\ call'[t].chan \in Chans /\ addr[call'[t].chan] = addr[c]
          BY <4>3
        <5>2. call'[t].chan = c
          BY <3>3, <5>1 DEF Alone
        <5> QED
          BY <5>1, <5>2 DEF Guarded, Attaching
      <4>4. CASE \E t \in Threads : MediaNote(t) /\ addr[call[t].chan] = addr[c]
        <5>1. PICK t \in Threads : MediaNote(t) /\ addr[call[t].chan] = addr[c]
          BY <4>4
        <5>2. call[t].chan = c
          BY <1>f, <3>3, <5>1 DEF Alone
        <5>3. phase[c] \in Begun /\ Noting(c)
          BY <1>2, <1>c, <1>f, <3>1, <5>1, <5>2 DEF PastHandlers
        <5>4. Guarded(c)
          BY <2>0, <3>1, <3>3, <5>3 DEF Noted
        <5> QED
          BY <3>4, <4>1, <5>4, GuardStays
      <4> QED
        BY <3>1, <3>2, <3>5, <4>2, <4>3, <4>4, EntriesChange
    <3>6. ASSUME phase'[c] \in Begun, Noting(c)' PROVE Guarded(c)'
      <4>0. phase[c] \in Begun
        BY <3>1, <3>6
      <4>1. ~RunMediaHook(c)
        BY <1>d, <4>0 DEF Begun
      <4>2. Guarded(c) => Guarded(c)'
        BY <3>4, <4>1, GuardStays
      <4>3. CASE Noting(c)
        BY <2>0, <3>1, <3>3, <4>0, <4>2, <4>3 DEF Noted
      <4>4. CASE ~Noting(c)
        <5>1. PICK u \in Threads : pc'[u] \in {"mediaRoom", "mediaNote"} /\ call'[u].chan = c
          BY <3>6 DEF Noting
        <5>2. PICK t \in Threads : ThreadStep(t)
          <6>1. ~UNCHANGED <<pc, call>>
            BY <4>4, <5>1 DEF Noting
          <6>2. ASSUME NEW d \in Chans, WorkerStep(d) PROVE FALSE
            BY <6>1, <6>2, WorkersLeaveThreads
          <6>3. ~UNCHANGED vars
            BY <6>1 DEF vars
          <6> QED
            BY <6>2, <6>3 DEF Next
        <5>3. u = t
          <6>1. u # t => pc'[u] = pc[u] /\ call'[u] = call[u]
            BY <1>0, <5>2, OthersStay
          <6> QED
            BY <4>4, <5>1, <6>1 DEF Noting
        <5>4. MediaJoin(t) \/ MediaHook(t) \/ MediaRoom(t)
          BY <1>0, <5>1, <5>2, <5>3, PlacesReached
        <5>5. CASE MediaJoin(t)
          <6>1. PICK d \in Chans, r \in RoomNames :
                  /\ pc' = [pc EXCEPT ![t] = IF addr[d] \in attached THEN "mediaRoom" ELSE "mediaBinary"]
                  /\ call' = [call EXCEPT ![t] = [Idle EXCEPT !.does = "mediaJoin", !.chan = d, !.room = r]]
            BY <5>5 DEF MediaJoin
          <6>2. d = c
            BY <1>a, <5>1, <5>3, <6>1 DEF Idle
          <6>3. addr[c] \in attached
            BY <1>a, <5>1, <5>3, <6>1, <6>2
          <6> QED
            BY <2>0, <3>1, <3>3, <4>2, <6>3 DEF Noted
        <5>6. CASE MediaHook(t)
          <6>1. pc[t] = "mediaHook" /\ call[t].chan = c
            BY <5>1, <5>3, <5>6 DEF MediaHook
          <6> QED
            BY <4>2, <6>1 DEF Guarded, Attaching
        <5>7. CASE MediaRoom(t)
          <6>1. pc[t] = "mediaRoom" /\ call[t].chan = c
            BY <5>1, <5>3, <5>7 DEF MediaRoom
          <6> QED
            BY <4>4, <6>1 DEF Noting
        <5> QED
          BY <5>4, <5>5, <5>6, <5>7
      <4> QED
        BY <4>3, <4>4
    <3> QED
      BY <3>5, <3>6
  <2> QED
    BY <2>1, <2>2
<1>3. ASSUME NEW a \in attached' \ stale' PROVE \E c \in Chans : addr'[c] = a /\ Guarded(c)'
  <2>0. a \in Addrs
    BY <1>a
  <2>1. CASE a \in attached
    <3>1. a \notin stale
      BY <1>3, <2>0, EntriesChange
    <3>2. PICK c \in Chans : addr[c] = a /\ Guarded(c)
      BY <2>1, <3>1 DEF Noted
    <3>3. addr'[c] = a
      BY <1>a, <1>b, <2>0, <3>2
    <3>4. ~RunMediaHook(c) /\ ~LateHook(c) /\ ~HandlerThrows(c)
      BY <1>3, <1>d, <1>e, <1>g, <2>1, <3>2
    <3> QED
      BY <3>2, <3>3, <3>4, GuardStays
  <2>2. CASE a \notin attached
    <3>1. PICK t \in Threads : pc'[t] = "mediaBinary" /\ call'[t].chan \in Chans /\ addr[call'[t].chan] = a
      BY <1>3, <2>0, <2>2, EntriesChange
    <3>2. PICK c \in Chans : c = call'[t].chan
      BY <3>1
    <3>3. addr'[c] = a
      BY <1>a, <1>b, <2>0, <3>1, <3>2
    <3>4. Guarded(c)'
      BY <3>1, <3>2 DEF Guarded, Attaching
    <3> QED
      BY <3>3, <3>4
  <2> QED
    BY <2>1, <2>2
<1>4. \A a \in Addrs : a \in attached' \/ channelRooms'[a] # None => \E c \in Chans : addr'[c] = a
  BY <1>1
<1>5. \A c \in Chans \ late' : phase'[c] \notin {"new", "lost"} /\ Alone(c)' =>
        /\ addr'[c] \in attached' \/ channelRooms'[addr'[c]] # None => Guarded(c)'
        /\ phase'[c] \in Begun /\ Noting(c)' => Guarded(c)'
  BY <1>2
<1> QED
  BY <1>3, <1>4, <1>5, Zenon DEF Noted

-----------------------------------------------------------------------------
(* The tables.                                                             *)

TableInv == Base /\ HooksRight /\ Members /\ Noted

LEMMA InitTables == Init => TableInv
<1> SUFFICES ASSUME Init PROVE TableInv
  OBVIOUS
<1>1. Base
  BY InitBase
<1>2. Range(<<>>) = {}
  BY DEF Range
<1>3. /\ \A c \in Chans : phase[c] = "new" /\ closeFired[c] = FALSE /\ onClose[c] = <<>> /\ addr[c] = None
      /\ \A t \in Threads : pc[t] = "idle"
      /\ \A r \in RoomNames : rooms[r] = <<>>
      /\ \A a \in Addrs : channelRooms[a] = None
      /\ live = {} /\ attached = {}
  BY DEF Init
<1>4. HooksRight
  BY <1>2, <1>3 DEF HooksRight, HookRight
<1>5. Members
  BY <1>2, <1>3 DEF Members
<1>6. Noted
  BY <1>3 DEF Noted
<1> QED
  BY <1>1, <1>4, <1>5, <1>6 DEF TableInv

LEMMA NextTables == TableInv /\ [Next]_vars => TableInv'
BY NextBase, HooksStayRight, MembersStay, NotedStays DEF TableInv

LEMMA TablesFollow == TableInv => TablesTrue
<1> SUFFICES ASSUME TableInv, NEW c \in Chans, ~InCall(c) PROVE GoneMeansGone(c) /\ AttachedMeansWired(c)
  BY DEF TablesTrue
<1>0. TypeOK /\ CallsRight /\ Shared /\ HooksRight /\ Members /\ Noted
  BY DEF TableInv, Base
<1>1. ~Releasing(c) /\ ~Attaching(c)
  BY DEF InCall, Releasing, Attaching
<1>2. GoneMeansGone(c)
  <2> SUFFICES ASSUME phase[c] = "gone", c \notin late
               PROVE  /\ c \notin live /\ \A r \in RoomNames : c \notin Range(rooms[r])
                      /\ (\A d \in Chans \ {c} : addr[d] # addr[c]) =>
                           addr[c] \notin attached /\ channelRooms[addr[c]] = None
    BY DEF GoneMeansGone
  <2>1. c \notin live
    BY <1>0 DEF HooksRight, HookRight
  <2>2. \A r \in RoomNames : c \notin Range(rooms[r])
    BY <1>0, <1>1, <2>1 DEF Members
  <2>3. ~Guarded(c)
    BY <1>1 DEF Guarded, Begun
  <2>4. Alone(c) => addr[c] \notin attached /\ channelRooms[addr[c]] = None
    BY <1>0, <2>3 DEF Noted
  <2> QED
    BY <2>1, <2>2, <2>4 DEF Alone
<1>3. AttachedMeansWired(c)
  <2> SUFFICES ASSUME phase[c] \in {"bound", "open"}, addr[c] \in attached, addr[c] \notin stale
               PROVE  onBinary[c] /\ "media" \in Range(onClose[c])
    BY DEF AttachedMeansWired
  <2>1. PICK d \in Chans : addr[d] = addr[c] /\ Guarded(d)
    BY <1>0 DEF Noted
  <2>2. Referenced(d)
    BY <2>1, Zenon DEF Guarded, Attaching, Referenced, Begun
  <2>3. Referenced(c)
    BY DEF Referenced
  <2>4. d = c
    BY <1>0, <2>1, <2>2, <2>3 DEF Shared
  <2>5. "media" \in Range(onClose[c])
    BY <1>1, <2>1, <2>4 DEF Guarded
  <2> QED
    BY <1>0, <2>5 DEF HooksRight, HookRight
<1> QED
  BY <1>2, <1>3


-----------------------------------------------------------------------------
(* What threads and rooms count.                                           *)

(* What a step of a thread does to the room and the number of its call. *)
LEMMA MediaSends ==
  ASSUME TypeOK, NEW t \in Threads, MediaSend(t)
  PROVE  \E k \in Keys : /\ call'[t].key = k /\ call'[t].piece = seqCounters[k] + 1
                         /\ seqCounters' = [seqCounters EXCEPT ![k] = seqCounters[k] + 1]
                         /\ pc[t] = "idle" /\ pc'[t] = "mediaCopy"
<1>0. call \in [Threads -> Calls] /\ pc \in [Threads -> Places]
  BY DEF TypeOK
<1>1. PICK k \in Keys :
        /\ call' = [call EXCEPT ![t] = [Idle EXCEPT !.does = "mediaSend", !.room = k[1], !.key = k,
                                                 !.piece = seqCounters[k] + 1]]
        /\ seqCounters' = [seqCounters EXCEPT ![k] = seqCounters[k] + 1]
  BY Zenon DEF MediaSend, MediaCall
<1>2. pc[t] = "idle" /\ pc' = [pc EXCEPT ![t] = "mediaCopy"]
  BY DEF MediaSend, MediaCall, Begin
<1>3. call'[t].key = k /\ call'[t].piece = seqCounters[k] + 1
  <2>1. call'[t] = [Idle EXCEPT !.does = "mediaSend", !.room = k[1], !.key = k, !.piece = seqCounters[k] + 1]
    BY <1>0, <1>1
  <2> QED
    BY <2>1 DEF Idle
<1> QED
  BY <1>0, <1>1, <1>2, <1>3

LEMMA Counts ==
  ASSUME TypeOK, CallsRight, NEW t \in Threads, ThreadStep(t)
  PROVE  /\ seqCounters' = seqCounters \/ MediaSend(t)
         /\ \/ pc[t] = "idle" /\ call'[t].key = None
            \/ MediaSend(t)
            \/ /\ pc[t] # "idle" /\ call'[t].chan = call[t].chan /\ call'[t].key = call[t].key
               /\ call'[t].piece = call[t].piece
            \/ pc[t] # "idle" /\ call'[t] = Idle /\ pc'[t] = "idle"
            \/ /\ QueueFragment(t) /\ pc'[t] = "fragment" /\ call'[t].chan = call[t].chan
               /\ call'[t].key = None /\ call'[t].piece = call[t].piece + 1 /\ call[t].piece < Pieces
<1> DEFINE Goal ==
      /\ seqCounters' = seqCounters \/ MediaSend(t)
      /\ \/ pc[t] = "idle" /\ call'[t].key = None
         \/ MediaSend(t)
         \/ /\ pc[t] # "idle" /\ call'[t].chan = call[t].chan /\ call'[t].key = call[t].key
            /\ call'[t].piece = call[t].piece
         \/ pc[t] # "idle" /\ call'[t] = Idle /\ pc'[t] = "idle"
         \/ /\ QueueFragment(t) /\ pc'[t] = "fragment" /\ call'[t].chan = call[t].chan
            /\ call'[t].key = None /\ call'[t].piece = call[t].piece + 1 /\ call[t].piece < Pieces
<1>0. /\ call \in [Threads -> Calls] /\ pc \in [Threads -> Places]
      /\ \A u \in Threads : (pc[u] = "idle") = (call[u] = Idle)
  BY DEF TypeOK
<1>a. Idle.key = None /\ Idle.piece = 0
  BY DEF Idle
<1>1. ASSUME pc[t] # "idle", Return(t), seqCounters' = seqCounters PROVE Goal
  BY <1>0, <1>1 DEF Return
<1>2. ASSUME pc[t] = "idle", call'[t].key = None, seqCounters' = seqCounters PROVE Goal
  BY <1>2
<1>3. ASSUME pc[t] # "idle", call'[t].chan = call[t].chan, call'[t].key = call[t].key,
             call'[t].piece = call[t].piece, seqCounters' = seqCounters PROVE Goal
  BY <1>3
<1>4. ASSUME MediaSend(t) PROVE Goal
  BY <1>4
<1>5. ASSUME QueueFragment(t) PROVE Goal
  <2>1. /\ pc[t] = "queue" /\ seqCounters' = seqCounters
        /\ IF closed[call[t].chan] \/ call[t].piece = Pieces THEN Return(t)
           ELSE /\ call' = [call EXCEPT ![t] = [Idle EXCEPT !.does = "stream", !.chan = call[t].chan,
                                                            !.piece = call[t].piece + 1]]
                /\ pc' = [pc EXCEPT ![t] = "fragment"]
    BY <1>5 DEF QueueFragment, mediaVars
  <2>2. CASE closed[call[t].chan] \/ call[t].piece = Pieces
    <3>1. Return(t) /\ pc[t] # "idle"
      BY <2>1, <2>2
    <3> QED
      BY <1>1, <2>1, <3>1
  <2>3. CASE ~(closed[call[t].chan] \/ call[t].piece = Pieces)
    <3>1. call[t].piece \in 1 .. Pieces
      BY <2>1 DEF CallsRight, Sending
    <3>2. call[t].piece < Pieces
      BY <2>3, <3>1, RoomsAssumption DEF RoomsAssumption
    <3>3. call'[t].chan = call[t].chan /\ call'[t].key = None /\ call'[t].piece = call[t].piece + 1
      <4>1. call'[t] = [Idle EXCEPT !.does = "stream", !.chan = call[t].chan, !.piece = call[t].piece + 1]
        BY <1>0, <2>1, <2>3
      <4> QED
        BY <4>1 DEF Idle
    <3>4. pc'[t] = "fragment"
      BY <1>0, <2>1, <2>3
    <3> QED
      BY <1>5, <2>1, <3>2, <3>3, <3>4
  <2> QED
    BY <2>2, <2>3
<1> HIDE DEF Goal
<1>6. ASSUME Join(t) \/ Leave(t) \/ LeaveEverything(t) \/ Prune(t) \/ Send(t) PROVE Goal
  <2>1. pc[t] = "idle" /\ call' = call /\ seqCounters' = seqCounters
    BY <1>6 DEF Join, Leave, LeaveEverything, Prune, Send, Begin, mediaVars
  <2> QED
    BY <1>0, <1>2, <1>a, <2>1
<1>7. ASSUME ReleaseRooms(t) \/ MediaNote(t) \/ MediaLeaveRoom(t) PROVE Goal
  <2>1. pc[t] # "idle" /\ Return(t) /\ seqCounters' = seqCounters
    BY <1>7 DEF ReleaseRooms, MediaNote, MediaLeaveRoom, mediaVars
  <2> QED
    BY <1>1, <2>1
<1>8. ASSUME MediaBinary(t) \/ MediaHook(t) \/ MediaRoom(t) PROVE Goal
  <2>1. pc[t] # "idle" /\ call' = call /\ seqCounters' = seqCounters
    BY <1>8 DEF MediaBinary, MediaHook, MediaRoom, mediaVars
  <2> QED
    BY <1>3, <2>1
<1>9. ASSUME Release(t) \/ Broadcast(t) \/ MediaJoin(t) \/ MediaLeave(t) PROVE Goal
  <2>1. pc[t] = "idle" /\ seqCounters' = seqCounters
    BY <1>9 DEF Release, Broadcast, MediaJoin, MediaLeave, Begin, mediaVars
  <2>2. ASSUME NEW x, call' = [call EXCEPT ![t] = x], x.key = None PROVE Goal
    <3>1. call'[t] = x
      BY <1>0, <2>2
    <3> QED
      BY <1>2, <2>1, <2>2, <3>1
  <2>3. CASE Release(t)
    <3>1. PICK c \in live : call' = [call EXCEPT ![t] = [Idle EXCEPT !.does = "release", !.chan = c]]
      BY <2>3 DEF Release
    <3>2. [Idle EXCEPT !.does = "release", !.chan = c].key = None
      BY DEF Idle
    <3> QED
      BY <2>2, <3>1, <3>2
  <2>4. CASE Broadcast(t)
    <3>1. PICK r \in RoomNames, does \in {"broadcast", "broadcastAll"} :
            call' = [call EXCEPT ![t] = [Idle EXCEPT !.does = does, !.room = r,
                                           !.todo = IF does = "broadcast" THEN rooms[r] ELSE Everyone]]
      BY <2>4, Zenon DEF Broadcast
    <3>2. PICK s : s = IF does = "broadcast" THEN rooms[r] ELSE Everyone
      OBVIOUS
    <3>3. [Idle EXCEPT !.does = does, !.room = r, !.todo = s].key = None
      BY DEF Idle
    <3> QED
      BY <2>2, <3>1, <3>2, <3>3
  <2>5. CASE MediaJoin(t) \/ MediaLeave(t)
    <3>1. PICK does \in {"mediaJoin", "mediaLeave"}, c \in Chans, r \in RoomNames :
            call' = [call EXCEPT ![t] = [Idle EXCEPT !.does = does, !.chan = c, !.room = r]]
      BY <2>5 DEF MediaJoin, MediaLeave
    <3>2. [Idle EXCEPT !.does = does, !.chan = c, !.room = r].key = None
      BY DEF Idle
    <3> QED
      BY <2>2, <3>1, <3>2
  <2> QED
    BY <1>9, <2>3, <2>4, <2>5
<1>10. ASSUME Deliver(t) PROVE Goal
  <2>1. pc[t] = "deliver" /\ seqCounters' = seqCounters
    BY <1>10 DEF Deliver, mediaVars
  <2>2. Return(t) \/ \E s : call' = [call EXCEPT ![t].todo = s]
    BY <1>10, Zenon DEF Deliver
  <2>3. CASE \E s : call' = [call EXCEPT ![t].todo = s]
    <3>1. call'[t].chan = call[t].chan /\ call'[t].key = call[t].key /\ call'[t].piece = call[t].piece
      BY <1>0, <2>3 DEF Calls
    <3> QED
      BY <1>3, <2>1, <3>1
  <2> QED
    BY <1>1, <2>1, <2>2, <2>3
<1>11. ASSUME MediaCopy(t) PROVE Goal
  <2>1. pc[t] = "mediaCopy" /\ seqCounters' = seqCounters
    BY <1>11 DEF MediaCopy, mediaVars
  <2>2. \E s : call' = [call EXCEPT ![t].todo = s]
    BY <1>11, Zenon DEF MediaCopy
  <2>3. call'[t].chan = call[t].chan /\ call'[t].key = call[t].key /\ call'[t].piece = call[t].piece
    BY <1>0, <2>2 DEF Calls
  <2> QED
    BY <1>3, <2>1, <2>3
<1>12. ASSUME Stream(t) PROVE Goal
  <2>1. pc[t] = "idle" /\ seqCounters' = seqCounters
    BY <1>12 DEF Stream, Begin, mediaVars
  <2>2. CASE call' = call
    BY <1>0, <1>2, <1>a, <2>1, <2>2
  <2>3. CASE call' # call
    <3>1. PICK c \in Chans : call' = [call EXCEPT ![t] = [Idle EXCEPT !.does = "stream", !.chan = c, !.piece = 1]]
      BY <1>12, <2>3 DEF Stream
    <3>2. call'[t].key = None
      BY <1>0, <3>1 DEF Idle
    <3> QED
      BY <1>2, <2>1, <3>2
  <2> QED
    BY <2>2, <2>3
<1>13. ASSUME WriteFragment(t) PROVE Goal
  <2>1. pc[t] = "fragment" /\ seqCounters' = seqCounters
    BY <1>13 DEF WriteFragment, mediaVars
  <2>2. Return(t) \/ \E f : call' = [call EXCEPT ![t].frame = f]
    BY <1>13, Zenon DEF WriteFragment
  <2>3. CASE \E f : call' = [call EXCEPT ![t].frame = f]
    <3>1. call'[t].chan = call[t].chan /\ call'[t].key = call[t].key /\ call'[t].piece = call[t].piece
      BY <1>0, <2>3 DEF Calls
    <3> QED
      BY <1>3, <2>1, <3>1
  <2> QED
    BY <1>1, <2>1, <2>2, <2>3
<1>14. Goal
  BY <1>4, <1>5, <1>6, <1>7, <1>8, <1>9, <1>10, <1>11, <1>12, <1>13, Zenon DEF ThreadStep
<1> QED
  BY <1>14 DEF Goal

(* The steps that no thread takes count nothing. *)
LEMMA NothingCounted ==
  ASSUME [Next]_vars
  PROVE  \/ UNCHANGED <<pc, call, calls, queue, fragActive, seqCounters>>
         \/ \E t \in Threads : ThreadStep(t)
<1>1. ASSUME NEW c \in Chans, WorkerStep(c) PROVE UNCHANGED <<pc, call, calls, queue, fragActive, seqCounters>>
  BY <1>1, WorkersLeaveThreads
<1>2. UNCHANGED vars => UNCHANGED <<pc, call, calls, queue, fragActive, seqCounters>>
  BY DEF vars, fragVars, mediaVars
<1> QED
  BY <1>1, <1>2 DEF Next

LEMMA SequencedStays ==
  ASSUME TypeOK, CallsRight, Sequenced, [Next]_vars
  PROVE  Sequenced'
<1>0. /\ call \in [Threads -> Calls] /\ seqCounters \in [Keys -> Nat] /\ None \notin Keys
      /\ \A t \in Threads : call[t].key \in Keys \cup {None} /\ call[t].piece \in Nat
  BY NoKey DEF TypeOK, Calls
<1>1. CASE UNCHANGED <<call, seqCounters>>
  BY <1>1 DEF Sequenced
<1>2. ASSUME NEW t \in Threads, ThreadStep(t) PROVE Sequenced'
  <2>1. \A u \in Threads \ {t} : call'[u] = call[u]
    BY <1>2, OthersStay
  <2>2. CASE MediaSend(t)
    <3>1. PICK k \in Keys : /\ call'[t].key = k /\ call'[t].piece = seqCounters[k] + 1
                            /\ seqCounters' = [seqCounters EXCEPT ![k] = seqCounters[k] + 1]
      BY <2>2, MediaSends
    <3>2. seqCounters'[k] = seqCounters[k] + 1 /\ \A q \in Keys : seqCounters[q] <= seqCounters'[q]
      BY <1>0, <3>1
    <3>3. \A u \in Threads \ {t} : call[u].key # None => /\ call[u].piece <= seqCounters[call[u].key]
                                                         /\ call[u].key \in Keys
      BY <1>0 DEF Sequenced
    <3>4. \A u \in Threads \ {t} : call[u].key # None => call'[u].piece <= seqCounters'[call'[u].key]
      <4> SUFFICES ASSUME NEW u \in Threads \ {t}, call[u].key # None
                   PROVE  call'[u].piece <= seqCounters'[call'[u].key]
        OBVIOUS
      <4>1. PICK q \in Keys : q = call[u].key
        BY <3>3
      <4>2. call[u].piece <= seqCounters[q] /\ seqCounters[q] <= seqCounters'[q]
        BY <3>2, <3>3, <4>1
      <4>3. call[u].piece \in Nat /\ seqCounters[q] \in Nat /\ seqCounters'[q] \in Nat
        BY <1>0, <3>1, <4>1
      <4> QED
        BY <2>1, <4>1, <4>2, <4>3
    <3>5. \A u \in Threads \ {t} : call'[u].key = k => call'[u].piece # call'[t].piece
      BY <1>0, <2>1, <3>1, <3>3
    <3>6. \A u \in Threads : call'[u].key # None => call'[u].piece <= seqCounters'[call'[u].key]
      BY <1>0, <2>1, <3>1, <3>2, <3>4
    <3>7. \A u, v \in Threads \ {t} : call[u].key # None /\ call[v].key = call[u].key
                                       /\ call[v].piece = call[u].piece => u = v
      BY DEF Sequenced
    <3>8. \A u, v \in Threads : call'[u].key # None /\ call'[v].key = call'[u].key
                                /\ call'[v].piece = call'[u].piece => u = v
      BY <2>1, <3>1, <3>5, <3>7
    <3> QED
      BY <3>6, <3>8 DEF Sequenced
  <2>3. CASE ~MediaSend(t)
    <3>1. seqCounters' = seqCounters
      BY <1>2, <2>3, Counts
    <3>2. \/ call'[t].key = None
          \/ call'[t].key = call[t].key /\ call'[t].piece = call[t].piece
      BY <1>2, <2>3, Counts DEF Idle
    <3>3. call'[t].key # None => call'[t].key \in Keys
      <4>1. call' \in [Threads -> Calls]
        BY CallsStayRight DEF TypeOfCalls
      <4> QED
        BY <4>1 DEF Calls
    <3>4. call'[t].key # None => call'[t].piece <= seqCounters'[call'[t].key]
      BY <1>0, <3>1, <3>2, <3>3 DEF Sequenced
    <3>5. \A u \in Threads \ {t} : call'[t].key # None /\ call'[u].key = call'[t].key
                                   => call'[u].piece # call'[t].piece
      BY <2>1, <3>2 DEF Sequenced
    <3> QED
      BY <2>1, <3>1, <3>4, <3>5 DEF Sequenced
  <2> QED
    BY <2>2, <2>3
<1> QED
  BY <1>1, <1>2, NothingCounted

LEMMA FragmentsChange ==
  ASSUME TypeOK, NEW t \in Threads, ThreadStep(t)
  PROVE  fragActive' = fragActive \/ Stream(t) \/ WriteFragment(t)
<1>1. CASE Join(t) \/ Leave(t) \/ LeaveEverything(t) \/ Prune(t) \/ Release(t)
               \/ ReleaseRooms(t) \/ Broadcast(t) \/ Deliver(t) \/ Send(t) \/ QueueFragment(t)
  BY <1>1 DEF Join, Leave, LeaveEverything, Prune, Release, ReleaseRooms, Broadcast, Deliver, Send,
              QueueFragment, fragVars
<1>2. CASE MediaJoin(t) \/ MediaBinary(t) \/ MediaHook(t) \/ MediaRoom(t) \/ MediaNote(t)
               \/ MediaLeave(t) \/ MediaLeaveRoom(t) \/ MediaSend(t) \/ MediaCopy(t)
  BY <1>2 DEF MediaJoin, MediaBinary, MediaHook, MediaRoom, MediaNote, MediaLeave, MediaLeaveRoom,
              MediaSend, MediaCopy, fragVars
<1> QED
  BY <1>1, <1>2, Zenon DEF ThreadStep

(* A thread that holds a channel held it before, or has just begun its     *)
(* stream, when no stream was active.                                      *)
LEMMA HoldingBegins ==
  ASSUME TypeOK, CallsRight, NEW t \in Threads, ThreadStep(t), NEW c \in Chans, Holding(t, c)'
  PROVE  \/ Holding(t, c) /\ pc[t] # "idle"
         \/ Stream(t) /\ ~fragActive[c] /\ fragActive' = [fragActive EXCEPT ![c] = TRUE]
<1>0. call \in [Threads -> Calls] /\ pc \in [Threads -> Places]
  BY DEF TypeOK
<1>1. call'[t].chan = c /\ (pc'[t] = "fragment" \/ (pc'[t] = "queue" /\ call'[t].piece < Pieces))
  BY DEF Holding
<1>2. CASE Stream(t)
  <2>1. PICK d \in Chans :
          IF closed[d] \/ fragActive[d] THEN UNCHANGED <<pc, call>>
          ELSE /\ fragActive' = [fragActive EXCEPT ![d] = TRUE]
               /\ call' = [call EXCEPT ![t] = [Idle EXCEPT !.does = "stream", !.chan = d, !.piece = 1]]
    BY <1>2 DEF Stream
  <2>2. pc[t] = "idle"
    BY <1>2 DEF Stream, Begin
  <2>3. ~(closed[d] \/ fragActive[d])
    BY <1>1, <2>1, <2>2
  <2>4. d = c
    BY <1>0, <1>1, <2>1, <2>3 DEF Idle
  <2> QED
    BY <1>2, <2>1, <2>3, <2>4
<1>3. CASE QueueFragment(t)
  <2>1. pc[t] = "queue" /\ pc'[t] # "queue"
    BY <1>0, <1>3 DEF QueueFragment, Return
  <2>2. pc'[t] = "fragment" /\ pc[t] # "idle"
    BY <1>1, <2>1
  <2>3. ~MediaSend(t)
    BY <2>1 DEF MediaSend, MediaCall, Begin
  <2>4. call[t].chan = c /\ call[t].piece < Pieces
    <3>1. CASE call'[t].chan = call[t].chan /\ call'[t].piece = call[t].piece
      <4>1. /\ pc' = [pc EXCEPT ![t] = "fragment"] /\ call[t].piece # Pieces
            /\ call[t].piece \in 1 .. Pieces
        BY <1>0, <1>3, <2>1, <2>2 DEF QueueFragment, Return, CallsRight, Sending
      <4> QED
        BY <1>1, <3>1, <4>1, RoomsAssumption DEF RoomsAssumption
    <3>2. CASE call'[t].chan = call[t].chan /\ call[t].piece < Pieces
      BY <1>1, <3>2
    <3> QED
      BY <2>1, <2>2, <2>3, <3>1, <3>2, Counts
  <2> QED
    BY <2>1, <2>4 DEF Holding
<1>4. CASE WriteFragment(t)
  <2>1. pc[t] = "fragment" /\ pc'[t] # "fragment"
    BY <1>0, <1>4 DEF WriteFragment, Return
  <2>2. pc'[t] = "queue"
    BY <1>1, <2>1
  <2>3. call'[t].chan = call[t].chan
    BY <2>1, <2>2, Counts DEF MediaSend, MediaCall, Begin, QueueFragment
  <2> QED
    BY <1>1, <2>1, <2>3 DEF Holding
<1> QED
  BY <1>1, <1>2, <1>3, <1>4, PlacesReached

LEMMA HeldStays ==
  ASSUME TypeOK, CallsRight, Held, [Next]_vars
  PROVE  Held'
<1>0. fragActive \in [Chans -> BOOLEAN] /\ call \in [Threads -> Calls] /\ pc \in [Threads -> Places]
  BY DEF TypeOK
<1>1. CASE UNCHANGED <<pc, call, fragActive>>
  BY <1>1 DEF Held, Holding
<1>2. ASSUME NEW t \in Threads, ThreadStep(t) PROVE Held'
  <2>1. \A u \in Threads \ {t} : \A c \in Chans : Holding(u, c)' => Holding(u, c)
    BY <1>2, OthersStay DEF Holding
  <2>2. \A u \in Threads \ {t} : \A c \in Chans : Holding(u, c)' => ~Holding(t, c)'
    <3> SUFFICES ASSUME NEW u \in Threads \ {t}, NEW c \in Chans, Holding(u, c)', Holding(t, c)' PROVE FALSE
      OBVIOUS
    <3>1. Holding(u, c) /\ fragActive[c]
      BY <2>1 DEF Held
    <3>2. Holding(t, c)
      BY <1>2, <3>1, HoldingBegins
    <3> QED
      BY <3>1, <3>2 DEF Held
  <2>3. \A u, v \in Threads, c \in Chans : Holding(u, c)' /\ Holding(v, c)' => u = v
    <3> SUFFICES ASSUME NEW u \in Threads, NEW v \in Threads, NEW c \in Chans,
                        Holding(u, c)', Holding(v, c)', u # v PROVE FALSE
      OBVIOUS
    <3> QED
      BY <2>1, <2>2 DEF Held
  <2>4. ASSUME NEW u \in Threads, NEW c \in Chans, Holding(u, c)' PROVE fragActive'[c]
    <3>1. CASE Holding(u, c)
      <4>1. fragActive[c]
        BY <3>1 DEF Held
      <4>2. CASE fragActive' = fragActive
        BY <4>1, <4>2
      <4>3. CASE Stream(t)
        <5>1. fragActive' = fragActive \/ \E d \in Chans : fragActive' = [fragActive EXCEPT ![d] = TRUE]
          BY <4>3 DEF Stream, fragVars
        <5> QED
          BY <1>0, <4>1, <5>1
      <4>4. CASE WriteFragment(t)
        <5>1. /\ pc[t] = "fragment" /\ call[t].chan \in Chans
              /\ fragActive' = fragActive
                 \/ fragActive' = [fragActive EXCEPT ![call[t].chan] = ~(call[t].piece = Pieces)]
          BY <4>4 DEF WriteFragment, fragVars, CallsRight, OnChannel
        <5>2. CASE call[t].chan = c
          <6>1. u = t
            BY <3>1, <5>1, <5>2 DEF Held, Holding
          <6>2. pc'[t] \in {"idle", "queue"}
            BY <1>0, <4>4 DEF WriteFragment, Return
          <6>3. pc'[t] = "queue" /\ call'[t].piece < Pieces
            BY <2>4, <6>1, <6>2 DEF Holding
          <6>4. call'[t].piece = call[t].piece
            BY <1>2, <5>1, <6>3, Counts DEF MediaSend, MediaCall, Begin, QueueFragment
          <6>5. call[t].piece # Pieces
            BY <6>3, <6>4, RoomsAssumption DEF RoomsAssumption
          <6> QED
            BY <1>0, <4>1, <5>1, <5>2, <6>5
        <5>3. CASE call[t].chan # c
          BY <1>0, <4>1, <5>1, <5>3
        <5> QED
          BY <5>2, <5>3
      <4> QED
        BY <1>2, <4>2, <4>3, <4>4, FragmentsChange
    <3>2. CASE ~Holding(u, c)
      <4>1. u = t
        BY <2>1, <2>4, <3>2
      <4>2. fragActive' = [fragActive EXCEPT ![c] = TRUE]
        BY <1>2, <2>4, <3>2, <4>1, HoldingBegins
      <4> QED
        BY <1>0, <4>2
    <3> QED
      BY <3>1, <3>2
  <2> QED
    BY <2>3, <2>4 DEF Held
<1> QED
  BY <1>1, <1>2, NothingCounted

LEMMA FrameStaysCounted ==
  ASSUME TypeOK, CallsRight, [Next]_vars, NEW f \in Frames, FrameCounted(f)
  PROVE  FrameCounted(f)'
<1>0. /\ calls \in [Threads -> Nat] /\ call \in [Threads -> Calls] /\ seqCounters \in [Keys -> Nat]
      /\ None \notin Keys /\ \A t \in Threads : call[t].piece \in Nat
      /\ f.by \in Threads /\ f.n \in Nat /\ f.seq \in Nat /\ f.key \in Keys \cup {None}
  BY NoKey DEF TypeOK, Calls, Frames
<1>a. /\ f.n <= calls[f.by]
      /\ f.key # None => f.seq <= seqCounters[f.key]
      /\ f.n = calls[f.by] /\ pc[f.by] \in {"deliver", "mediaCopy"} => f.seq <= call[f.by].piece
      /\ f.n = calls[f.by] /\ pc[f.by] \in Sending => f.seq < call[f.by].piece
      /\ \A t \in Threads : call[t].key # None /\ f.key = call[t].key /\ f.seq = call[t].piece
                            => f.by = t /\ f.n = calls[t]
  BY Zenon DEF FrameCounted
<1>1. CASE UNCHANGED <<pc, call, calls, seqCounters>>
  BY <1>1, <1>a DEF FrameCounted
<1>2. ASSUME NEW t \in Threads, ThreadStep(t) PROVE FrameCounted(f)'
  <2>0. \A u \in Threads \ {t} : pc'[u] = pc[u] /\ call'[u] = call[u] /\ calls'[u] = calls[u]
    BY <1>2, OthersStay
  <2>1. (pc[t] # "idle" => calls'[t] = calls[t]) /\ (pc[t] = "idle" => calls'[t] = calls[t] + 1)
    BY <1>2, PlacesLeft
  <2>2. f.n <= calls'[f.by]
    BY <1>0, <1>a, <2>0, <2>1
  <2>3. f.key # None => f.seq <= seqCounters'[f.key]
    <3>1. CASE seqCounters' = seqCounters
      BY <1>a, <3>1
    <3>2. CASE MediaSend(t)
      <4>1. PICK k \in Keys : seqCounters' = [seqCounters EXCEPT ![k] = seqCounters[k] + 1]
        BY <3>2, MediaSends
      <4>2. f.key # None => seqCounters[f.key] \in Nat /\ seqCounters[f.key] <= seqCounters'[f.key]
        BY <1>0, <4>1
      <4> QED
        BY <1>0, <1>a, <4>1, <4>2
    <3> QED
      BY <1>2, <3>1, <3>2, Counts
  <2>4. ASSUME f.n = calls'[f.by], pc'[f.by] \in {"deliver", "mediaCopy"} PROVE f.seq <= call'[f.by].piece
    <3>1. CASE f.by = t
      <4>1. pc[t] # "idle" /\ f.n = calls[t]
        BY <1>0, <1>a, <2>1, <2>4, <3>1
      <4>2. ~MediaSend(t) /\ ~Broadcast(t)
        BY <4>1 DEF MediaSend, MediaCall, Broadcast, Begin
      <4>3. (Deliver(t) \/ MediaCopy(t)) /\ pc'[t] # "idle" /\ pc'[t] # "fragment"
        BY <1>2, <2>4, <3>1, <4>2, PlacesReached
      <4>4. pc[t] \in {"deliver", "mediaCopy"}
        BY <4>3 DEF Deliver, MediaCopy
      <4>5. call'[t].piece = call[t].piece
        BY <1>2, <4>1, <4>2, <4>3, Counts
      <4> QED
        BY <1>a, <3>1, <4>1, <4>4, <4>5
    <3>2. CASE f.by # t
      BY <1>0, <1>a, <2>0, <2>4, <3>2
    <3> QED
      BY <3>1, <3>2
  <2>5. ASSUME f.n = calls'[f.by], pc'[f.by] \in Sending PROVE f.seq < call'[f.by].piece
    <3>1. CASE f.by = t
      <4>1. pc[t] # "idle" /\ f.n = calls[t]
        BY <1>0, <1>a, <2>1, <2>5, <3>1
      <4>2. ~MediaSend(t) /\ ~Stream(t)
        BY <4>1 DEF MediaSend, Stream, MediaCall, Begin
      <4>3. (QueueFragment(t) \/ WriteFragment(t)) /\ pc'[t] # "idle"
        BY <1>2, <2>5, <3>1, <4>2, PlacesReached DEF Sending
      <4>4. pc[t] \in Sending
        BY <4>3 DEF QueueFragment, WriteFragment, Sending
      <4>5. call'[t].piece = call[t].piece \/ call'[t].piece = call[t].piece + 1
        BY <1>2, <4>1, <4>2, <4>3, Counts
      <4> QED
        BY <1>0, <1>a, <3>1, <4>1, <4>4, <4>5
    <3>2. CASE f.by # t
      BY <1>0, <1>a, <2>0, <2>5, <3>2
    <3> QED
      BY <3>1, <3>2
  <2>6. ASSUME NEW u \in Threads, call'[u].key # None, f.key = call'[u].key, f.seq = call'[u].piece
        PROVE  f.by = u /\ f.n = calls'[u]
    <3>1. CASE u # t
      BY <1>a, <2>0, <2>6, <3>1
    <3>2. CASE u = t
      <4>1. ~MediaSend(t)
        <5> SUFFICES ASSUME MediaSend(t) PROVE FALSE
          OBVIOUS
        <5>1. PICK k \in Keys : call'[t].key = k /\ call'[t].piece = seqCounters[k] + 1
          BY MediaSends
        <5> QED
          BY <1>0, <1>a, <2>6, <3>2, <5>1
      <4>2. pc[t] # "idle" /\ call'[t].key = call[t].key /\ call'[t].piece = call[t].piece
        BY <1>2, <2>6, <3>2, <4>1, Counts DEF Idle
      <4> QED
        BY <1>a, <2>1, <2>6, <3>2, <4>2
    <3> QED
      BY <3>1, <3>2
  <2> QED
    BY <2>2, <2>3, <2>4, <2>5, <2>6, Zenon DEF FrameCounted
<1> QED
  BY <1>1, <1>2, NothingCounted

(* What Queues says of the frame f that t adds to c's. *)
Adds(t, c, f) ==
  \/ Send(t) /\ f.fin /\ f.n = calls[t] + 1 /\ f.key = None
  \/ Deliver(t) /\ call[t].todo # <<>> /\ f.fin /\ f.n = calls[t] /\ f.key = call[t].key /\ f.seq = call[t].piece
  \/ QueueFragment(t) /\ f = call[t].frame /\ c = call[t].chan

LEMMA QueueGrows ==
  ASSUME TypeOK, CallsRight, [Next]_vars
  PROVE  \/ queue' = queue
         \/ \E t \in Threads, c \in Chans, f \in Frames :
              /\ ThreadStep(t) /\ f.by = t /\ Adds(t, c, f)
              /\ queue' = [queue EXCEPT ![c] = Append(queue[c], f)]
<1>1. \/ queue' = queue
      \/ \E t \in Threads : \E c \in Chans : \E f \in Frames :
           f.by = t /\ queue' = [queue EXCEPT ![c] = Append(queue[c], f)] /\ Adds(t, c, f)
  BY Queues, Zenon DEF Adds
<1>2. \A t \in Threads, c \in Chans, f \in Frames : Adds(t, c, f) => ThreadStep(t)
  BY Zenon DEF Adds, ThreadStep
<1> QED
  BY <1>1, <1>2, Zenon

(* A fragment that is queued, by CallsRight. *)
LEMMA FragmentQueued ==
  ASSUME TypeOK, CallsRight, NEW t \in Threads, QueueFragment(t), NEW f, f = call[t].frame
  PROVE  /\ pc[t] = "queue" /\ call[t].chan \in Chans /\ f.n = calls[t] /\ f.key = None /\ f.seq = call[t].piece
         /\ ~f.fin => Holding(t, call[t].chan)
<1>1. pc[t] = "queue"
  BY DEF QueueFragment
<1>2. /\ call[t].chan \in Chans /\ f.n = calls[t] /\ f.key = None /\ f.seq = call[t].piece
      /\ f.fin = (call[t].piece = Pieces) /\ call[t].piece \in 1 .. Pieces
  BY <1>1 DEF CallsRight, OnChannel, Sending
<1>3. ~f.fin => call[t].piece # Pieces
  BY <1>2, Zenon
<1>4. ~f.fin => call[t].piece < Pieces
  BY <1>2, <1>3, RoomsAssumption DEF RoomsAssumption
<1> QED
  BY <1>1, <1>2, <1>4 DEF Holding

LEMMA NewFrameCounted ==
  ASSUME TypeOK, CallsRight, Sequenced, NEW t \in Threads, ThreadStep(t), NEW c \in Chans, NEW f \in Frames,
         f.by = t, Adds(t, c, f)
  PROVE  FrameCounted(f)'
<1>0. /\ calls \in [Threads -> Nat] /\ call \in [Threads -> Calls] /\ seqCounters \in [Keys -> Nat]
      /\ pc \in [Threads -> Places] /\ None \notin Keys
      /\ call[t].piece \in Nat /\ call[t].todo \in Seq(Chans) /\ call[t].key \in Keys \cup {None}
      /\ f.n \in Nat /\ f.seq \in Nat
  BY NoKey DEF TypeOK, Calls, Frames
<1>1. CASE Send(t) /\ f.n = calls[t] + 1 /\ f.key = None
  <2>1. pc'[t] = "idle" /\ calls'[t] = calls[t] + 1
    BY <1>0, <1>1 DEF Send, Begin
  <2> QED
    BY <1>0, <1>1, <2>1 DEF FrameCounted, Sending
<1>2. CASE Deliver(t) /\ call[t].todo # <<>> /\ f.n = calls[t] /\ f.key = call[t].key /\ f.seq = call[t].piece
  <2>1. /\ pc[t] = "deliver" /\ pc' = pc /\ calls' = calls /\ seqCounters' = seqCounters
        /\ call' = [call EXCEPT ![t].todo = Tail(call[t].todo)]
    BY <1>2 DEF Deliver, mediaVars
  <2>2. \A u \in Threads : call'[u].key = call[u].key /\ call'[u].piece = call[u].piece
    BY <1>0, <2>1 DEF Calls
  <2>3. f.key # None => f.seq <= seqCounters[f.key]
    BY <1>2 DEF Sequenced
  <2>4. \A u \in Threads : call[u].key # None /\ f.key = call[u].key
                           /\ f.seq = call[u].piece => u = t
    BY <1>2 DEF Sequenced
  <2>5. f.n <= calls[t]
    BY <1>0, <1>2
  <2>6. f.seq <= call[t].piece
    BY <1>0, <1>2
  <2> QED
    BY <1>2, <2>1, <2>2, <2>3, <2>4, <2>5, <2>6 DEF FrameCounted, Sending
<1>3. CASE QueueFragment(t) /\ f = call[t].frame
  <2>1. pc[t] = "queue" /\ f.n = calls[t] /\ f.key = None /\ f.seq = call[t].piece
    BY <1>3, FragmentQueued
  <2>2. calls' = calls /\ pc'[t] \in {"idle", "fragment"}
    BY <1>0, <1>3 DEF QueueFragment, Return
  <2>3. pc'[t] = "fragment" => call'[t].piece = call[t].piece + 1
    <3> SUFFICES ASSUME pc'[t] = "fragment" PROVE call'[t].piece = call[t].piece + 1
      OBVIOUS
    <3>1. call' = [call EXCEPT ![t] = [Idle EXCEPT !.does = "stream", !.chan = call[t].chan,
                                                   !.piece = call[t].piece + 1]]
      BY <1>0, <1>3, <2>1 DEF QueueFragment, Return
    <3>2. call'[t] = [Idle EXCEPT !.does = "stream", !.chan = call[t].chan, !.piece = call[t].piece + 1]
      BY <1>0, <3>1
    <3> QED
      BY <3>2 DEF Idle
  <2> QED
    BY <1>0, <2>1, <2>2, <2>3 DEF FrameCounted, Sending
<1> QED
  BY <1>1, <1>2, <1>3 DEF Adds

LEMMA Appended ==
  ASSUME TypeOK, NEW c \in Chans, NEW f \in Frames, queue' = [queue EXCEPT ![c] = Append(queue[c], f)]
  PROVE  /\ \A d \in Chans \ {c} : queue'[d] = queue[d]
         /\ DOMAIN queue[c] = 1 .. Len(queue[c]) /\ DOMAIN queue'[c] = 1 .. Len(queue[c]) + 1 /\ Len(queue[c]) \in Nat
         /\ \A i \in 1 .. Len(queue[c]) : queue'[c][i] = queue[c][i]
         /\ queue'[c][Len(queue[c]) + 1] = f
<1>1. queue \in [Chans -> Seq(Frames)]
  BY DEF TypeOK
<1>2. queue'[c] = Append(queue[c], f) /\ \A d \in Chans \ {c} : queue'[d] = queue[d]
  BY <1>1
<1> QED
  BY <1>1, <1>2

LEMMA CountedStays ==
  ASSUME TypeOK, CallsRight, Sequenced, Counted, [Next]_vars
  PROVE  Counted'
<1>0. \A c \in Chans : \A i \in DOMAIN queue[c] : queue[c][i] \in Frames
  BY DEF TypeOK
<1>1. \A c \in Chans : \A i \in DOMAIN queue[c] : \E f \in Frames : f = queue[c][i] /\ FrameCounted(f)'
  <2> SUFFICES ASSUME NEW c \in Chans, NEW i \in DOMAIN queue[c]
               PROVE  \E f \in Frames : f = queue[c][i] /\ FrameCounted(f)'
    OBVIOUS
  <2>1. PICK f \in Frames : f = queue[c][i]
    BY <1>0
  <2>2. FrameCounted(f)
    BY <2>1, Zenon DEF Counted
  <2> QED
    BY <2>1, <2>2, FrameStaysCounted
<1>2. SUFFICES ASSUME NEW c \in Chans, NEW i \in DOMAIN queue'[c]
               PROVE  \E f \in Frames : f = queue'[c][i] /\ FrameCounted(f)'
  BY Zenon DEF Counted
<1>3. CASE queue' = queue
  BY <1>1, <1>3
<1>4. ASSUME NEW t \in Threads, NEW d \in Chans, NEW g \in Frames, ThreadStep(t), g.by = t, Adds(t, d, g),
             queue' = [queue EXCEPT ![d] = Append(queue[d], g)]
      PROVE  \E f \in Frames : f = queue'[c][i] /\ FrameCounted(f)'
  <2>1. FrameCounted(g)'
    BY <1>4, NewFrameCounted
  <2>2. CASE c = d
    <3>1. i \in 1 .. Len(queue[c]) \/ i = Len(queue[c]) + 1
      BY <1>4, <2>2, Appended
    <3>2. CASE i \in 1 .. Len(queue[c])
      BY <1>1, <1>4, <2>2, <3>2, Appended
    <3>3. CASE i = Len(queue[c]) + 1
      <4>1. queue'[d][Len(queue[d]) + 1] = g
        BY <1>4, Appended
      <4> QED
        BY <2>1, <2>2, <3>3, <4>1, Zenon
    <3> QED
      BY <3>1, <3>2, <3>3
  <2>3. CASE c # d
    BY <1>1, <1>4, <2>3, Appended
  <2> QED
    BY <2>2, <2>3
<1> QED
  BY <1>3, <1>4, QueueGrows

LEMMA UnbrokenStays ==
  ASSUME TypeOK, CallsRight, Held, Counted, Unbroken, [Next]_vars
  PROVE  Unbroken'
<1>a. \A c \in Chans : \A i \in DOMAIN queue[c] : queue[c][i] \in Frames
  BY DEF TypeOK
<1>b. \A f \in Frames : f.by \in Threads /\ f.n \in Nat
  BY DEF Frames
<1>0. /\ calls \in [Threads -> Nat]
      /\ \A c \in Chans : \A i \in DOMAIN queue[c] : queue[c][i] \in Frames
      /\ \A f \in Frames : f.by \in Threads /\ f.n \in Nat
  BY <1>a, <1>b, Zenon DEF TypeOK
(* Who holds a channel for the call that one of its frames is of held it   *)
(* already.                                                                *)
<1>1. ASSUME NEW c \in Chans, NEW f \in Frames, f.n <= calls[f.by], f.n = calls'[f.by], Holding(f.by, c)'
      PROVE  f.n = calls[f.by] /\ Holding(f.by, c)
  <2>1. CASE UNCHANGED <<pc, call, calls>>
    BY <1>1, <2>1 DEF Holding
  <2>2. ASSUME NEW t \in Threads, ThreadStep(t) PROVE f.n = calls[f.by] /\ Holding(f.by, c)
    <3>1. CASE f.by = t
      <4>1. pc[t] # "idle" /\ f.n = calls[t]
        BY <1>0, <1>1, <2>2, <3>1, PlacesLeft
      <4>2. ~Stream(t)
        BY <4>1 DEF Stream, Begin
      <4> QED
        BY <1>1, <2>2, <3>1, <4>1, <4>2, HoldingBegins
    <3>2. CASE f.by # t
      BY <1>0, <1>1, <2>2, <3>2, OthersStay DEF Holding
    <3> QED
      BY <3>1, <3>2
  <2> QED
    BY <2>1, <2>2, NothingCounted
<1>2. ASSUME NEW c \in Chans, NEW f \in Frames, NEW g, f.n <= calls[f.by], Follows(c, f, g) PROVE Follows(c, f, g)'
  BY <1>1, <1>2 DEF Follows
<1>3. \A c \in Chans : \A i \in DOMAIN queue[c] : queue[c][i].n <= calls[queue[c][i].by]
  BY Zenon DEF Counted, FrameCounted
<1>4. \A c \in Chans : \A i, k \in DOMAIN queue[c] : i < k => \E f \in Frames, g \in Frames :
        f = queue[c][i] /\ g = queue[c][k] /\ Follows(c, f, g)'
  <2> SUFFICES ASSUME NEW c \in Chans, NEW i \in DOMAIN queue[c], NEW k \in DOMAIN queue[c], i < k
               PROVE  \E f \in Frames, g \in Frames : f = queue[c][i] /\ g = queue[c][k] /\ Follows(c, f, g)'
    OBVIOUS
  <2>1. PICK f \in Frames, g \in Frames : f = queue[c][i] /\ g = queue[c][k]
    BY <1>0
  <2>2. Follows(c, f, g) /\ f.n <= calls[f.by]
    BY <1>3, <2>1, Zenon DEF Unbroken
  <2> QED
    BY <1>2, <2>1, <2>2
<1>5. SUFFICES ASSUME NEW c \in Chans, NEW i \in DOMAIN queue'[c], NEW k \in DOMAIN queue'[c], i < k
               PROVE  \E f \in Frames, g \in Frames : f = queue'[c][i] /\ g = queue'[c][k] /\ Follows(c, f, g)'
  BY Zenon DEF Unbroken
<1>6. CASE queue' = queue
  BY <1>4, <1>5, <1>6
<1>7. ASSUME NEW t \in Threads, NEW d \in Chans, NEW h \in Frames, ThreadStep(t), h.by = t, Adds(t, d, h),
             queue' = [queue EXCEPT ![d] = Append(queue[d], h)]
      PROVE  \E f \in Frames, g \in Frames : f = queue'[c][i] /\ g = queue'[c][k] /\ Follows(c, f, g)'
  <2>1. CASE c # d
    BY <1>4, <1>5, <1>7, <2>1, Appended
  <2>2. CASE c = d
    <3>1. /\ DOMAIN queue[c] = 1 .. Len(queue[c]) /\ DOMAIN queue'[c] = 1 .. Len(queue[c]) + 1
          /\ Len(queue[c]) \in Nat /\ queue'[c][Len(queue[c]) + 1] = h
          /\ \A j \in 1 .. Len(queue[c]) : queue'[c][j] = queue[c][j]
      <4>1. /\ DOMAIN queue[d] = 1 .. Len(queue[d]) /\ DOMAIN queue'[d] = 1 .. Len(queue[d]) + 1
            /\ Len(queue[d]) \in Nat /\ queue'[d][Len(queue[d]) + 1] = h
            /\ \A j \in 1 .. Len(queue[d]) : queue'[d][j] = queue[d][j]
        BY <1>7, Appended
      <4> QED
        BY <2>2, <4>1, Zenon
    <3>2. i \in 1 .. Len(queue[c]) /\ (k \in 1 .. Len(queue[c]) \/ k = Len(queue[c]) + 1)
      BY <1>5, <3>1
    <3>3. CASE k \in 1 .. Len(queue[c])
      <4>1. queue'[c][i] = queue[c][i] /\ queue'[c][k] = queue[c][k]
        BY <3>1, <3>2, <3>3
      <4> QED
        BY <1>4, <1>5, <3>1, <3>2, <3>3, <4>1
    <3>4. CASE k = Len(queue[c]) + 1
      <4>1. PICK f \in Frames : f = queue[c][i] /\ f = queue'[c][i] /\ f.n <= calls[f.by]
        BY <1>0, <1>3, <3>1, <3>2
      <4>2. h = queue'[c][k]
        BY <3>1, <3>4
      <4>3. ASSUME f.n = calls'[f.by], ~f.fin, Holding(f.by, c)', ~h.fin PROVE SameCall(f, h)
        <5>1. f.n = calls[f.by] /\ Holding(f.by, c)
          BY <1>1, <4>1, <4>3
        <5>2. QueueFragment(t) /\ h = call[t].frame /\ d = call[t].chan
          BY <1>7, <4>3 DEF Adds
        <5>3. Holding(t, c) /\ h.n = calls[t]
          BY <2>2, <4>3, <5>2, FragmentQueued
        <5>4. f.by = t
          BY <1>0, <5>1, <5>3 DEF Held
        <5> QED
          BY <1>7, <5>1, <5>3, <5>4 DEF SameCall
      <4>4. Follows(c, f, h)'
        BY <4>3 DEF Follows
      <4> QED
        BY <4>1, <4>2, <4>4
    <3> QED
      BY <3>2, <3>3, <3>4
  <2> QED
    BY <2>1, <2>2
<1> QED
  BY <1>6, <1>7, QueueGrows

(* What FramesInOrder says of two frames, the earlier first, whatever is   *)
(* between them.                                                           *)
Ordered(f, g) ==
  /\ f.by = g.by => f.n < g.n \/ (f.n = g.n /\ f.seq <= g.seq)
  /\ f.key # None /\ f.key = g.key /\ f.seq = g.seq => SameCall(f, g)

LEMMA OrderStays ==
  ASSUME TypeOK, CallsRight, Held, Counted, Unbroken, FramesInOrder, [Next]_vars
  PROVE  FramesInOrder'
<1>a. \A c \in Chans : \A i \in DOMAIN queue[c] : queue[c][i] \in Frames
  BY DEF TypeOK
<1>b. \A f \in Frames : /\ f.by \in Threads /\ f.n \in Nat /\ f.seq \in Nat /\ f.key \in Keys \cup {None}
                        /\ f.fin \in BOOLEAN
  BY DEF Frames
<1>0. calls \in [Threads -> Nat] /\ \A t \in Threads : call[t].piece \in Nat
  BY DEF TypeOK, Calls
<1>1. ASSUME NEW t \in Threads, NEW d \in Chans, NEW h \in Frames, ThreadStep(t), h.by = t, Adds(t, d, h),
             NEW f \in Frames, FrameCounted(f)
      PROVE  Ordered(f, h)
  <2>0. /\ f.n <= calls[f.by]
        /\ f.n = calls[f.by] /\ pc[f.by] \in {"deliver", "mediaCopy"} => f.seq <= call[f.by].piece
        /\ f.n = calls[f.by] /\ pc[f.by] \in Sending => f.seq < call[f.by].piece
        /\ \A u \in Threads : call[u].key # None /\ f.key = call[u].key
                              /\ f.seq = call[u].piece => f.by = u /\ f.n = calls[u]
    BY <1>1, Zenon DEF FrameCounted
  <2>1. CASE Send(t) /\ h.n = calls[t] + 1 /\ h.key = None
    BY <1>0, <1>1, <1>b, <2>0, <2>1 DEF Ordered
  <2>2. CASE Deliver(t) /\ h.n = calls[t] /\ h.key = call[t].key /\ h.seq = call[t].piece
    <3>1. pc[t] = "deliver"
      BY <2>2 DEF Deliver
    <3>2. f.by = t => f.n < h.n \/ (f.n = h.n /\ f.seq <= h.seq)
      BY <1>0, <1>b, <2>0, <2>2, <3>1
    <3>3. f.key # None /\ f.key = h.key /\ f.seq = h.seq => f.by = t /\ f.n = h.n
      BY <2>0, <2>2
    <3> QED
      BY <1>1, <3>2, <3>3 DEF Ordered, SameCall
  <2>3. CASE QueueFragment(t) /\ h = call[t].frame
    <3>1. pc[t] = "queue" /\ h.n = calls[t] /\ h.key = None /\ h.seq = call[t].piece
      BY <2>3, FragmentQueued
    <3>2. f.by = t => f.n < h.n \/ (f.n = h.n /\ f.seq <= h.seq)
      BY <1>0, <1>b, <2>0, <3>1 DEF Sending
    <3> QED
      BY <1>1, <3>1, <3>2 DEF Ordered
  <2> QED
    BY <1>1, <2>1, <2>2, <2>3 DEF Adds
<1>2. CASE queue' = queue
  BY <1>2 DEF FramesInOrder, SameCall
<1>3. ASSUME NEW t \in Threads, NEW d \in Chans, NEW h \in Frames, ThreadStep(t), h.by = t, Adds(t, d, h),
             queue' = [queue EXCEPT ![d] = Append(queue[d], h)]
      PROVE  FramesInOrder'
  <2> SUFFICES ASSUME NEW c \in Chans, NEW i \in DOMAIN queue'[c], NEW j \in DOMAIN queue'[c], i < j
               PROVE  /\ Ordered(queue'[c][i], queue'[c][j])
                      /\ ~queue'[c][i].fin /\ ~queue'[c][j].fin /\ SameCall(queue'[c][i], queue'[c][j]) =>
                           \A k \in i .. j : queue'[c][k].fin \/ SameCall(queue'[c][i], queue'[c][k])
    BY DEF FramesInOrder, Ordered, SameCall
  <2>0. \A e \in Chans : \A m, n \in DOMAIN queue[e] : m < n =>
          /\ Ordered(queue[e][m], queue[e][n])
          /\ ~queue[e][m].fin /\ ~queue[e][n].fin /\ SameCall(queue[e][m], queue[e][n]) =>
               \A k \in m .. n : queue[e][k].fin \/ SameCall(queue[e][m], queue[e][k])
    BY DEF FramesInOrder, Ordered, SameCall
  <2>1. CASE c # d
    <3>1. queue'[c] = queue[c]
      BY <1>3, <2>1, Appended
    <3> QED
      BY <2>0, <3>1
  <2>2. CASE c = d
    <3>1. /\ DOMAIN queue[c] = 1 .. Len(queue[c]) /\ DOMAIN queue'[c] = 1 .. Len(queue[c]) + 1
          /\ Len(queue[c]) \in Nat /\ queue'[c][Len(queue[c]) + 1] = h
          /\ \A k \in 1 .. Len(queue[c]) : queue'[c][k] = queue[c][k]
      <4>1. /\ DOMAIN queue[d] = 1 .. Len(queue[d]) /\ DOMAIN queue'[d] = 1 .. Len(queue[d]) + 1
            /\ Len(queue[d]) \in Nat /\ queue'[d][Len(queue[d]) + 1] = h
            /\ \A k \in 1 .. Len(queue[d]) : queue'[d][k] = queue[d][k]
        BY <1>3, Appended
      <4> QED
        BY <2>2, <4>1, Zenon
    <3>2. i \in 1 .. Len(queue[c]) /\ (j \in 1 .. Len(queue[c]) \/ j = Len(queue[c]) + 1)
      BY <3>1
    <3>3. CASE j \in 1 .. Len(queue[c])
      <4>1. queue'[c][i] = queue[c][i] /\ queue'[c][j] = queue[c][j]
        BY <3>1, <3>2, <3>3
      <4>2. \A k \in i .. j : k \in 1 .. Len(queue[c]) /\ queue'[c][k] = queue[c][k]
        BY <3>1, <3>2, <3>3
      <4>3. i \in DOMAIN queue[c] /\ j \in DOMAIN queue[c]
        BY <3>1, <3>2, <3>3
      <4> QED
        BY <2>0, <4>1, <4>2, <4>3
    <3>4. CASE j = Len(queue[c]) + 1
      <4>1. PICK f \in Frames : f = queue[c][i] /\ f = queue'[c][i] /\ FrameCounted(f)
        BY <1>a, <3>1, <3>2 DEF Counted
      <4>2. h = queue'[c][j]
        BY <3>1, <3>4
      <4>3. Ordered(f, h)
        BY <1>1, <1>3, <4>1
      <4>4. ASSUME ~f.fin, ~h.fin, SameCall(f, h), NEW k \in i .. j PROVE queue'[c][k].fin \/ SameCall(f, queue'[c][k])
        <5>1. CASE k = i
          BY <4>1, <5>1 DEF SameCall
        <5>2. CASE k = j
          BY <4>2, <4>4, <5>2
        <5>3. CASE k # i /\ k # j
          <6>1. k \in 1 .. Len(queue[c]) /\ i < k /\ queue'[c][k] = queue[c][k]
            BY <3>1, <3>2, <3>4, <5>3
          <6>2. QueueFragment(t) /\ h = call[t].frame /\ d = call[t].chan
            BY <1>3, <4>4 DEF Adds
          <6>3. Holding(t, c) /\ h.n = calls[t]
            BY <2>2, <4>4, <6>2, FragmentQueued
          <6>4. f.by = t /\ f.n = calls[t]
            BY <1>3, <4>4, <6>3 DEF SameCall
          <6>5. Follows(c, queue[c][i], queue[c][k])
            BY <3>1, <3>2, <6>1, Zenon DEF Unbroken
          <6> QED
            BY <4>1, <4>4, <6>1, <6>3, <6>4, <6>5 DEF Follows
        <5> QED
          BY <5>1, <5>2, <5>3
      <4> QED
        BY <4>1, <4>2, <4>3, <4>4
    <3> QED
      BY <3>2, <3>3, <3>4
  <2> QED
    BY <2>1, <2>2
<1> QED
  BY <1>2, <1>3, QueueGrows

FrameInv == Base /\ Sequenced /\ Held /\ Counted /\ Unbroken /\ FramesInOrder

LEMMA InitFrames == Init => FrameInv
<1> SUFFICES ASSUME Init PROVE FrameInv
  OBVIOUS
<1>1. Base
  BY InitBase
<1>2. /\ \A c \in Chans : DOMAIN queue[c] = {}
      /\ \A t \in Threads : pc[t] = "idle" /\ call[t].key = None
  BY DEF Init, Idle
<1>3. Sequenced /\ Held
  BY <1>2 DEF Sequenced, Held, Holding
<1>4. Counted /\ Unbroken /\ FramesInOrder
  BY <1>2 DEF Counted, Unbroken, FramesInOrder
<1> QED
  BY <1>1, <1>3, <1>4 DEF FrameInv

LEMMA NextFrames == FrameInv /\ [Next]_vars => FrameInv'
BY NextBase, SequencedStays, HeldStays, CountedStays, UnbrokenStays, OrderStays, Zenon DEF FrameInv, Base

-----------------------------------------------------------------------------
(* Every variable stays of its type; in particular a thread between calls  *)
(* has nothing left of its last one, the close handlers of a channel are   *)
(* taken exactly when it leaves the connection it was on, and a channel    *)
(* has an address from its upgrade on.                                     *)
THEOREM TypeCorrect == Spec => []TypeOK
<1>1. Base => TypeOK
  BY DEF Base
<1> QED
  BY <1>1, InitBase, NextBase, PTL DEF Spec

(* The tables tell the truth: once the close handlers of a channel have    *)
(* run it is in no room, App does not retain it and pulse_media knows      *)
(* nothing of its address, and an open channel that pulse_media takes for  *)
(* attached dispatches its binary frames and leaves when it closes.        *)
THEOREM TablesTellTheTruth == Spec => []TablesTrue
BY InitTables, NextTables, TablesFollow, PTL DEF Spec

(* The frames of one thread reach a member in the order of its calls and   *)
(* pieces, those of one room and stream have numbers of their own, and of  *)
(* other messages at most the last fragment falls into a message.          *)
THEOREM FramesKeepOrder == Spec => []FramesInOrder
<1>1. FrameInv => FramesInOrder
  BY DEF FrameInv
<1> QED
  BY <1>1, InitFrames, NextFrames, PTL DEF Spec
=============================================================================
