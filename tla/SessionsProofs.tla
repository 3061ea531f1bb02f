---------------------------- MODULE SessionsProofs ----------------------------
(***************************************************************************)
(* Proofs of what Sessions promises, for any number of requests, ids and   *)
(* keys and any calls of their handlers.                                   *)
(***************************************************************************)
EXTENDS Sessions, WellFoundedInduction, TLAPS

-----------------------------------------------------------------------------
(* Ids and handlers.                                                       *)

LEMMA Least ==
  ASSUME NEW T, T \subseteq Nat, T # {}
  PROVE  \E n \in T : \A m \in T : n <= m
<1>1. PICK n \in T : \A m \in T : ~ (<<m, n>> \in OpToRel(<, Nat))
  BY NatLessThanWellFounded, WFMin, Zenon
<1>2. \A m \in T : m < n => <<m, n>> \in OpToRel(<, Nat)
  BY DEF OpToRel
<1>3. \A m \in T : ~(m < n)
  BY <1>1, <1>2, Zenon
<1> QED
  BY <1>3

(* An id that is drawn is nobody's. *)
LEMMA NewIdIsFresh ==
  ASSUME Ids \ UsedIds # {}
  PROVE  NewId \in Ids \ UsedIds
<1>1. \E i \in Ids \ UsedIds : \A j \in Ids \ UsedIds : i <= j
  BY Least, SessionsAssumption DEF SessionsAssumption
<1> QED
  BY <1>1, Zenon DEF NewId

Session == [id : Ids \cup {NoId}, data : SUBSET Keys, isNew : BOOLEAN, dirty : BOOLEAN,
            touched : BOOLEAN, destroyed : BOOLEAN, regenerated : BOOLEAN]

(* What a handler may have made of session s: t. *)
Became(s, t) ==
  /\ t.id = s.id
  /\ s.regenerated => t.regenerated
  /\ User \in t.data => User \in s.data \/ t.regenerated
  /\ s.dirty => t.dirty
  /\ ~t.dirty => t.data = s.data
  /\ ~t.isNew => ~s.isNew
  /\ t.isNew => s.isNew \/ t.regenerated

LEMMA CallBecomes ==
  ASSUME NEW s \in Session, NEW t \in CallsOn(s)
  PROVE  t \in Session /\ Became(s, t)
<1> USE SessionsAssumption DEF SessionsAssumption, Session
<1>a. s.data \in SUBSET Keys /\ s.dirty \in BOOLEAN
  OBVIOUS
<1>1. CASE \E k \in Keys \ {User} : t = [s EXCEPT !.data = @ \cup {k}, !.dirty = TRUE]
  <2>1. PICK data \in SUBSET Keys :
          t = [s EXCEPT !.data = data, !.dirty = TRUE] /\ (User \in data => User \in s.data)
    <3>1. PICK k \in Keys \ {User} : t = [s EXCEPT !.data = s.data \cup {k}, !.dirty = TRUE]
      BY <1>1
    <3>2. s.data \cup {k} \in SUBSET Keys /\ (User \in s.data \cup {k} => User \in s.data)
      BY <1>a
    <3> QED
      BY <3>1, <3>2, Zenon
  <2> QED
    BY <2>1 DEF Became
<1>2. CASE \E k \in Keys : t = Erased(s, k)
  <2>1. PICK k \in Keys : t = [s EXCEPT !.data = s.data \ {k}, !.dirty = s.dirty \/ k \in s.data]
    BY <1>2 DEF Erased
  <2>2. PICK data \in SUBSET Keys, dirty \in BOOLEAN :
          /\ t = [s EXCEPT !.data = data, !.dirty = dirty] /\ (User \in data => User \in s.data)
          /\ s.dirty => dirty
          /\ ~dirty => data = s.data
    <3>1. s.data \ {k} \in SUBSET Keys /\ (k \notin s.data => s.data \ {k} = s.data)
      BY <1>a
    <3>2. (s.dirty \/ k \in s.data) \in BOOLEAN
      OBVIOUS
    <3> QED
      BY <2>1, <3>1, <3>2, Zenon
  <2> QED
    BY <2>2 DEF Became
<1>3. CASE t = [s EXCEPT !.data = {}, !.dirty = @ \/ s.data # {}]
  BY <1>3 DEF Became
<1>4. CASE t = [s EXCEPT !.touched = TRUE] \/ t = [s EXCEPT !.destroyed = TRUE]
  BY <1>4 DEF Became
<1>5. CASE t = Regenerate(s) \/ t = [Regenerate(s) EXCEPT !.data = @ \cup {User}]
  <2>1. PICK data \in SUBSET Keys :
          t = [s EXCEPT !.data = data, !.regenerated = TRUE, !.dirty = TRUE, !.touched = TRUE, !.isNew = TRUE]
    <3>1. s.data \cup {User} \in SUBSET Keys
      BY <1>a
    <3>2. CASE t = Regenerate(s)
      <4>1. t = [s EXCEPT !.data = s.data, !.regenerated = TRUE, !.dirty = TRUE, !.touched = TRUE, !.isNew = TRUE]
        BY <3>2 DEF Regenerate
      <4> QED
        BY <1>a, <4>1, Zenon
    <3>3. CASE t = [Regenerate(s) EXCEPT !.data = @ \cup {User}]
      <4>1. t = [s EXCEPT !.data = s.data \cup {User}, !.regenerated = TRUE, !.dirty = TRUE,
                          !.touched = TRUE, !.isNew = TRUE]
        BY <3>3 DEF Regenerate
      <4> QED
        BY <3>1, <4>1, Zenon
    <3> QED
      BY <1>5, <3>2, <3>3
  <2> QED
    BY <2>1 DEF Became
<1> QED
  BY <1>1, <1>2, <1>3, <1>4, <1>5 DEF CallsOn

(* The calls of a handler, as the function Handled builds. *)
Unfolds(f, s, m) ==
  f = [n \in 0 .. m |-> IF n = 0 THEN {s} ELSE f[n - 1] \cup UNION {CallsOn(t) : t \in f[n - 1]}]

LEMMA CallsUnfold ==
  ASSUME NEW s
  PROVE  \A m \in Nat : \E f : Unfolds(f, s, m)
<1> DEFINE T == {m \in Nat : ~ \E f : Unfolds(f, s, m)}
<1> SUFFICES ASSUME T # {} PROVE FALSE
  OBVIOUS
<1>1. PICK m \in T : \A k \in T : m <= k
  BY Least
<1>2. m # 0
  <2>1. Unfolds([n \in 0 .. 0 |-> {s}], s, 0)
    BY DEF Unfolds
  <2> QED
    BY <2>1
<1>3. PICK f : Unfolds(f, s, m - 1)
  <2>1. m - 1 \in Nat /\ ~(m <= m - 1)
    BY <1>2
  <2> QED
    BY <1>1, <2>1
<1> DEFINE Then(a) == a \cup UNION {CallsOn(t) : t \in a}
           g == [n \in 0 .. m |-> IF n = m THEN Then(f[m - 1]) ELSE f[n]]
<1>4. Unfolds(g, s, m)
  <2> HIDE DEF Then
  <2>1. f = [n \in 0 .. m - 1 |-> IF n = 0 THEN {s} ELSE Then(f[n - 1])]
    BY <1>3 DEF Unfolds, Then
  <2>2. ASSUME NEW n \in 0 .. m PROVE g[n] = IF n = 0 THEN {s} ELSE Then(g[n - 1])
    <3>1. CASE n = m
      <4>1. g[n] = Then(f[m - 1]) /\ m - 1 \in 0 .. m /\ m - 1 # m
        BY <1>2, <3>1
      <4> QED
        BY <1>2, <3>1, <4>1
    <3>2. CASE n # m
      <4>1. n \in 0 .. m - 1 /\ g[n] = f[n]
        BY <1>2, <3>2
      <4>2. n # 0 => n - 1 \in 0 .. m /\ n - 1 # m
        BY <4>1
      <4> QED
        BY <2>1, <4>1, <4>2
    <3> QED
      BY <3>1, <3>2
  <2>3. g = [n \in 0 .. m |-> IF n = 0 THEN {s} ELSE Then(g[n - 1])]
    BY <2>2
  <2> QED
    BY <2>3 DEF Unfolds, Then
<1> QED
  BY <1>4

LEMMA HandledUnfolds ==
  ASSUME NEW r
  PROVE  \E f : Unfolds(f, sess[r], MaxOps) /\ Handled(r) = f[MaxOps]
<1>1. \E f : Unfolds(f, sess[r], MaxOps)
  BY CallsUnfold, SessionsAssumption DEF SessionsAssumption
<1>2. Handled(r) = (CHOOSE f : Unfolds(f, sess[r], MaxOps))[MaxOps]
  BY Zenon DEF Handled, Unfolds
<1> QED
  BY <1>1, <1>2, Zenon

LEMMA BecameTransitive ==
  \A s, t, u : Became(s, t) /\ Became(t, u) => Became(s, u)
BY DEF Became

LEMMA HandledBecame ==
  ASSUME NEW r, sess[r] \in Session
  PROVE  \A s \in Handled(r) : s \in Session /\ Became(sess[r], s)
<1>1. PICK f : Unfolds(f, sess[r], MaxOps) /\ Handled(r) = f[MaxOps]
  BY HandledUnfolds
<1> DEFINE T == {m \in 0 .. MaxOps : ~ \A s \in f[m] : s \in Session /\ Became(sess[r], s)}
<1>2. MaxOps \in Nat
  BY SessionsAssumption DEF SessionsAssumption
<1>3. T = {}
  <2> SUFFICES ASSUME T # {} PROVE FALSE
    OBVIOUS
  <2>1. T \subseteq Nat
    OBVIOUS
  <2>2. PICK m \in T : \A k \in T : m <= k
    BY <2>1, Least
  <2>a. m \in Nat /\ m <= MaxOps
    BY <1>2
  <2>b. \A k \in 0 .. MaxOps : k < m => k \notin T
    BY <2>2, <2>a
  <2>3. PICK t \in f[m] : ~(t \in Session /\ Became(sess[r], t))
    BY <2>2
  <2>4. CASE m = 0
    <3>1. t = sess[r]
      BY <1>1, <1>2, <2>3, <2>4 DEF Unfolds
    <3> QED
      BY <2>3, <3>1 DEF Became
  <2>5. CASE m # 0
    <3>1. m - 1 \in 0 .. MaxOps /\ m - 1 < m /\ m \in 0 .. MaxOps
      BY <1>2, <2>a, <2>5
    <3>2. \A s \in f[m - 1] : s \in Session /\ Became(sess[r], s)
      BY <2>b, <3>1
    <3>3. f[m] = f[m - 1] \cup UNION {CallsOn(s) : s \in f[m - 1]}
      BY <1>1, <2>5, <3>1 DEF Unfolds
    <3>4. t \in f[m - 1] \/ \E s \in f[m - 1] : t \in CallsOn(s)
      BY <2>3, <3>3
    <3> QED
      BY <2>3, <3>2, <3>4, CallBecomes, BecameTransitive
  <2> QED
    BY <2>4, <2>5
<1> QED
  BY <1>1, <1>2, <1>3

-----------------------------------------------------------------------------
(* What a step does.                                                       *)

Stored == conf.strategy = "ServerStore"

(* Request r opens session s from credential c. *)
Opening(r, c, s) ==
  /\ c \in issued \cup {NoCred, BadCred} /\ s \in Session
  /\ ~s.dirty /\ ~s.regenerated /\ (s.isNew <=> ~Opens(c)) /\ s.data = DataOf(c)
  /\ conf.strategy = "SignedCookie" => s.id = NoId
  /\ conf.strategy # "SignedCookie" =>
       IF Opens(c) /\ c.id # NoId THEN s.id = c.id ELSE s.id \in Ids \ UsedIds
  /\ \/ store' = store
     \/ Stored /\ c \in issued /\ ~Live(c.id) /\ store' = [store EXCEPT ![c.id] = Absent]
  /\ phase[r] = "new" /\ phase' = [phase EXCEPT ![r] = "handler"]
  /\ sess' = [sess EXCEPT ![r] = s] /\ brought' = [brought EXCEPT ![r] = c]
  /\ LET shared == {q \in Active : sess[q].id = s.id}
     IN alone' = [q \in Reqs |-> IF q = r THEN shared = {} ELSE IF q \in shared THEN FALSE ELSE alone[q]]
  /\ before' = [before EXCEPT ![r] = {p \in kept : p.cred = c /\ Opens(c)}]
  /\ kept' = {p \in kept : p.cred = c => ~Opens(c)}
  /\ used' = [used EXCEPT ![s.id] = clock]
  /\ UNCHANGED <<conf, clock, issued, guest, gone>>

LEMMA OpenedSession ==
  ASSUME TypeOK, Stored => \A c \in issued : c.id # NoId,
         NEW c \in issued \cup {NoCred, BadCred}, NeedsId(c) => Ids \ UsedIds # {},
         NEW s, s = Opened(c)
  PROVE  /\ s \in Session /\ ~s.dirty /\ ~s.regenerated /\ (s.isNew <=> ~Opens(c)) /\ s.data = DataOf(c)
         /\ conf.strategy = "SignedCookie" => s.id = NoId
         /\ conf.strategy # "SignedCookie" =>
              IF Opens(c) /\ c.id # NoId THEN s.id = c.id ELSE s.id \in Ids \ UsedIds
<1>1. (c \in issued /\ c \in Credential) \/ ~Opens(c)
  BY DEF TypeOK, Opens
<1>2. DataOf(c) \in SUBSET Keys
  <2>1. CASE Opens(c) /\ Stored
    <3>1. c.id \in Ids
      BY <1>1, <2>1 DEF Credential
    <3> QED
      BY <2>1, <3>1 DEF DataOf, Stored, TypeOK
  <2>2. CASE ~Opens(c)
    BY <2>2 DEF DataOf
  <2>3. CASE Opens(c) /\ ~Stored
    BY <1>1, <2>3 DEF DataOf, Stored, Credential
  <2> QED
    BY <2>1, <2>2, <2>3
<1>3. PICK data \in SUBSET Keys : data = DataOf(c)
  BY <1>2
<1>4. PICK new \in BOOLEAN : new <=> ~Opens(c)
  OBVIOUS
<1>5. PICK id : /\ id \in Ids \cup {NoId}
                /\ conf.strategy = "SignedCookie" => id = NoId
                /\ conf.strategy # "SignedCookie" =>
                     IF Opens(c) /\ c.id # NoId THEN id = c.id ELSE id \in Ids \ UsedIds
                /\ s = [NoSession EXCEPT !.isNew = ~Opens(c), !.data = data, !.id = id]
  <2>1. CASE conf.strategy = "SignedCookie"
    BY <1>3, <2>1 DEF Opened
  <2>2. CASE conf.strategy # "SignedCookie" /\ Opens(c) /\ c.id # NoId
    BY <1>1, <1>3, <2>2 DEF Opened, Credential
  <2>3. CASE conf.strategy # "SignedCookie" /\ ~(Opens(c) /\ c.id # NoId)
    <3>1. NewId \in Ids \ UsedIds
      BY <2>3, NewIdIsFresh DEF NeedsId
    <3> QED
      BY <1>3, <2>3, <3>1 DEF Opened
  <2> QED
    BY <2>1, <2>2, <2>3
<1>6. /\ s.id = id /\ s.data = data /\ s.isNew = ~Opens(c) /\ s.dirty = FALSE /\ s.regenerated = FALSE
      /\ s.touched = FALSE /\ s.destroyed = FALSE
  BY <1>5 DEF NoSession
<1>7. s = [id |-> id, data |-> data, isNew |-> new, dirty |-> FALSE, touched |-> FALSE,
           destroyed |-> FALSE, regenerated |-> FALSE]
  BY <1>4, <1>5 DEF NoSession
<1>8. s \in Session
  <2>1. \A i \in Ids \cup {NoId}, d \in SUBSET Keys, b, no \in BOOLEAN :
          [id |-> i, data |-> d, isNew |-> b, dirty |-> no, touched |-> no,
           destroyed |-> no, regenerated |-> no] \in Session
    BY DEF Session
  <2>2. PICK no \in BOOLEAN : no = FALSE
    OBVIOUS
  <2>3. s = [id |-> id, data |-> data, isNew |-> new, dirty |-> no, touched |-> no,
             destroyed |-> no, regenerated |-> no]
    BY <1>7, <2>2, Zenon
  <2>4. id \in Ids \cup {NoId}
    BY <1>5
  <2> QED
    BY <2>1, <2>3, <2>4
<1> QED
  BY <1>3, <1>5, <1>6, <1>8, Zenon

LEMMA Loads ==
  ASSUME TypeOK, Stored => \A c \in issued : c.id # NoId, NEW r \in Reqs, Load(r)
  PROVE  \E c, s : Opening(r, c, s)
<1>1. PICK cookie \in issued \cup {NoCred, BadCred}, bearer \in issued \cup {NoCred, BadCred} :
        LET c == TokenOf(cookie, bearer)
            s == Opened(c)
            shared == {q \in Active : sess[q].id = s.id}
        IN /\ NeedsId(c) => Ids \ UsedIds # {}
           /\ sess' = [sess EXCEPT ![r] = s]
           /\ store' = IF conf.strategy = "ServerStore" /\ c \notin {NoCred, BadCred}
                       THEN AfterLoad(c.id) ELSE store
           /\ brought' = [brought EXCEPT ![r] = c]
           /\ alone' = [q \in Reqs |-> IF q = r THEN shared = {} ELSE
                                       IF q \in shared THEN FALSE ELSE alone[q]]
           /\ before' = [before EXCEPT ![r] = {p \in kept : p.cred = c /\ Opens(c)}]
           /\ kept' = {p \in kept : p.cred = c => ~Opens(c)}
           /\ used' = [used EXCEPT ![s.id] = clock]
  BY Zenon DEF Load
<1>2. PICK c \in issued \cup {NoCred, BadCred} : c = TokenOf(cookie, bearer)
  BY Zenon DEF TokenOf
<1>3. PICK s : s = Opened(c)
  OBVIOUS
<1>4. /\ phase[r] = "new" /\ phase' = [phase EXCEPT ![r] = "handler"]
      /\ UNCHANGED <<conf, clock, issued, guest, gone>>
  BY Zenon DEF Load
<1>5. NeedsId(c) => Ids \ UsedIds # {}
  BY <1>1, <1>2, Zenon
<1>6. store' = IF conf.strategy = "ServerStore" /\ c \notin {NoCred, BadCred} THEN AfterLoad(c.id) ELSE store
  BY <1>1, <1>2, Zenon
<1>7. \/ store' = store
      \/ Stored /\ c \in issued /\ ~Live(c.id) /\ store' = [store EXCEPT ![c.id] = Absent]
  BY <1>6, Zenon DEF AfterLoad, Stored
<1>8. /\ s \in Session /\ ~s.dirty /\ ~s.regenerated /\ (s.isNew <=> ~Opens(c)) /\ s.data = DataOf(c)
      /\ conf.strategy = "SignedCookie" => s.id = NoId
      /\ conf.strategy # "SignedCookie" =>
           IF Opens(c) /\ c.id # NoId THEN s.id = c.id ELSE s.id \in Ids \ UsedIds
  BY <1>3, <1>5, OpenedSession, Zenon
<1>9. c \in issued \cup {NoCred, BadCred} /\ sess' = [sess EXCEPT ![r] = s] /\ brought' = [brought EXCEPT ![r] = c]
  BY <1>1, <1>2, <1>3, Zenon
<1>10. LET shared == {q \in Active : sess[q].id = s.id}
       IN alone' = [q \in Reqs |-> IF q = r THEN shared = {} ELSE IF q \in shared THEN FALSE ELSE alone[q]]
  BY <1>1, <1>2, <1>3, Zenon
<1>11. /\ before' = [before EXCEPT ![r] = {p \in kept : p.cred = c /\ Opens(c)}]
       /\ kept' = {p \in kept : p.cred = c => ~Opens(c)}
       /\ used' = [used EXCEPT ![s.id] = clock]
  BY <1>1, <1>2, <1>3, Zenon
<1>12. Opening(r, c, s)
  BY <1>4, <1>7, <1>8, <1>9, <1>10, <1>11, Zenon DEF Opening
<1> QED
  BY <1>12

(* Request r is finished: what is promised, and whose session it was. *)
LEMMA Finishes ==
  ASSUME TypeOK, DOMAIN before = Reqs, NEW r \in Reqs, phase[r] \in {"handler", "save"}, NEW promises, Finish(r, promises)
  PROVE  /\ Active' = Active \ {r} /\ r \in Active
         /\ \A q \in Reqs \ {r} : /\ phase'[q] = phase[q] /\ sess'[q] = sess[q] /\ alone'[q] = alone[q]
                                  /\ brought'[q] = brought[q] /\ before'[q] = before[q]
         /\ phase'[r] = "done" /\ sess'[r] = NoSession /\ brought'[r] = NoCred /\ before'[r] = {}
<1>1. /\ phase' = [phase EXCEPT ![r] = "done"] /\ sess' = [sess EXCEPT ![r] = NoSession]
      /\ brought' = [brought EXCEPT ![r] = NoCred] /\ alone' = [alone EXCEPT ![r] = FALSE]
      /\ before' = [before EXCEPT ![r] = {}]
  BY Zenon DEF Finish
<1>2. /\ phase'[r] = "done" /\ sess'[r] = NoSession /\ brought'[r] = NoCred
      /\ \A q \in Reqs \ {r} : phase'[q] = phase[q] /\ sess'[q] = sess[q]
                               /\ alone'[q] = alone[q] /\ brought'[q] = brought[q]
  BY <1>1 DEF TypeOK
<1>3. before'[r] = {} /\ \A q \in Reqs \ {r} : before'[q] = before[q]
  BY <1>1
<1>4. Active' = Active \ {r} /\ r \in Active
  BY <1>2 DEF Active
<1> QED
  BY <1>2, <1>3, <1>4

(* What is saved, or left as it is: the request's own session, and never   *)
(* one that still waits for a new id.                                      *)
LEMMA Ready ==
  ASSUME TypeOK, NEW r \in Reqs, NEW s \in ToPersist(r)
  PROVE  /\ s \in Session /\ phase[r] \in {"handler", "save"} /\ Became(sess[r], s)
         /\ phase[r] = "save" => s = sess[r]
         /\ phase[r] = "handler" => ~(s.regenerated /\ Stored)
<1>1. sess[r] \in Session
  BY DEF TypeOK, Session
<1>2. CASE phase[r] = "save"
  <2>1. s = sess[r]
    BY <1>2 DEF ToPersist
  <2> QED
    BY <1>1, <1>2, <2>1 DEF Became
<1>3. CASE phase[r] = "handler"
  <2>1. s \in Handled(r) /\ ~(s.regenerated /\ Stored)
    BY <1>3 DEF ToPersist, Stored
  <2> QED
    BY <1>1, <1>3, <2>1, HandledBecame
<1>4. phase[r] = "save" \/ phase[r] = "handler"
  BY DEF ToPersist
<1> QED
  BY <1>2, <1>3, <1>4

LEMMA SealedCredential ==
  ASSUME TypeOK, NEW s \in Session
  PROVE  /\ Sealed(s) \in Credential
         /\ Stored => Sealed(s) = [id |-> s.id, data |-> {}, exp |-> 0]
         /\ ~Stored => Sealed(s).data = s.data
         /\ conf.strategy = "JWT" => Sealed(s).id = s.id /\ Sealed(s).exp = clock + TTL
<1>1. conf.strategy \in Strategies /\ clock \in 0 .. MaxClock /\ TTL \in Nat /\ MaxClock \in Nat
  BY SessionsAssumption DEF SessionsAssumption, TypeOK, Options
<1>2. s.id \in Ids \cup {NoId} /\ s.data \in SUBSET Keys
  BY DEF Session
<1>3. CASE Stored
  BY <1>1, <1>2, <1>3 DEF Stored, Sealed, Credential
<1>4. CASE conf.strategy = "SignedCookie"
  BY <1>1, <1>2, <1>4 DEF Stored, Sealed, Credential
<1>5. CASE conf.strategy = "JWT"
  BY <1>1, <1>2, <1>5 DEF Stored, Sealed, Credential
<1> QED
  BY <1>1, <1>3, <1>4, <1>5 DEF Stored, Strategies

-----------------------------------------------------------------------------
(* Types, of the history too.                                              *)

Promised == [cred : Credential, data : SUBSET Keys, until : 0 .. MaxClock + TTL]

HistoryOK ==
  /\ used \in [Ids \cup {NoId} -> 0 .. MaxClock] /\ \A i \in Ids \cup {NoId} : used[i] <= clock
  /\ kept \subseteq Promised /\ \A p \in kept : p.cred \in issued
  /\ before \in [Reqs -> SUBSET Promised]
  /\ \A r \in Reqs : \A p \in before[r] : p.cred = brought[r] /\ p.cred \in issued

(* Whose session is whose, and what its id may be.                         *)
Identities ==
  /\ Stored => \A c \in issued : c.id # NoId /\ c.data = {} /\ c.exp = 0
  /\ Stored => \A r \in Active : sess[r].id # NoId
  /\ \A r \in Reqs : phase[r] = "handler" =>
       /\ ~sess[r].regenerated /\ ~sess[r].dirty /\ (before[r] # {} => ~sess[r].isNew)
       /\ ~sess[r].isNew => brought[r] \in issued /\ (Stored => sess[r].id = brought[r].id)
  /\ \A r \in Reqs : phase[r] = "save" => Stored /\ sess[r].regenerated
  /\ Stored => \A q, r \in Active : q # r /\ sess[q].id = sess[r].id =>
       ~alone[r] /\ \E c \in issued : c.id = sess[r].id

LEMMA FinishTypes ==
  ASSUME TypeOK, HistoryOK, NEW r \in Reqs, NEW promises \in SUBSET Promised, Finish(r, promises),
         issued \subseteq issued', \A p \in promises : p.cred \in issued', clock' = clock
  PROVE  /\ phase' \in [Reqs -> {"new", "handler", "save", "done"}] /\ sess' \in [Reqs -> Session]
         /\ brought' \in [Reqs -> issued' \cup {NoCred, BadCred}] /\ alone' \in [Reqs -> BOOLEAN]
         /\ HistoryOK'
<1>1. /\ phase' = [phase EXCEPT ![r] = "done"] /\ sess' = [sess EXCEPT ![r] = NoSession]
      /\ brought' = [brought EXCEPT ![r] = NoCred] /\ alone' = [alone EXCEPT ![r] = FALSE]
      /\ before' = [before EXCEPT ![r] = {}] /\ used' = [used EXCEPT ![sess[r].id] = clock]
      /\ kept' \subseteq kept \cup promises
  BY Zenon DEF Finish
<1>2. NoSession \in Session
  BY DEF NoSession, Session
<1>3. sess \in [Reqs -> Session] /\ sess[r].id \in Ids \cup {NoId}
  BY DEF TypeOK, Session
<1>4. sess' \in [Reqs -> Session]
  BY <1>1, <1>2, <1>3
<1>5. phase' \in [Reqs -> {"new", "handler", "save", "done"}]
  BY <1>1 DEF TypeOK
<1>6. alone' \in [Reqs -> BOOLEAN]
  BY <1>1, Zenon DEF TypeOK
<1>7. brought' \in [Reqs -> issued' \cup {NoCred, BadCred}]
  BY <1>1 DEF TypeOK
<1>8. used' \in [Ids \cup {NoId} -> 0 .. MaxClock] /\ \A i \in Ids \cup {NoId} : used'[i] <= clock
  BY <1>1, <1>3 DEF TypeOK, HistoryOK
<1>9. kept' \subseteq Promised /\ \A p \in kept' : p.cred \in issued'
  BY <1>1 DEF HistoryOK
<1>10. before' \in [Reqs -> SUBSET Promised] /\ before'[r] = {}
       /\ \A q \in Reqs \ {r} : before'[q] = before[q] /\ brought'[q] = brought[q]
  BY <1>1 DEF HistoryOK, TypeOK
<1>11. \A q \in Reqs : \A p \in before'[q] : p.cred = brought'[q] /\ p.cred \in issued'
  BY <1>10 DEF HistoryOK
<1> QED
  BY <1>4, <1>5, <1>6, <1>7, <1>8, <1>9, <1>10, <1>11 DEF HistoryOK

Entries == [Ids -> [data : SUBSET Keys, expires : 0 .. MaxClock + TTL]]

(* The store after a load or a destroy, and after a save.                  *)
LEMMA DroppedEntry ==
  ASSUME TypeOK, NEW i
  PROVE  [store EXCEPT ![i] = Absent] \in Entries
<1>1. store \in Entries /\ TTL \in Nat /\ MaxClock \in Nat
  BY SessionsAssumption DEF SessionsAssumption, TypeOK, Entries
<1>2. Absent \in [data : SUBSET Keys, expires : 0 .. MaxClock + TTL]
  BY <1>1 DEF Absent
<1> QED
  BY <1>1, <1>2 DEF Entries

LEMMA PrunedEntries ==
  ASSUME TypeOK
  PROVE  /\ Pruned \in Entries
         /\ \A j \in Ids : Pruned[j] = store[j] \/ (store[j].expires <= clock /\ Pruned[j] = Absent)
<1>1. store \in Entries /\ clock \in 0 .. MaxClock /\ TTL \in Nat /\ MaxClock \in Nat
  BY SessionsAssumption DEF SessionsAssumption, TypeOK, Entries
<1>2. Absent \in [data : SUBSET Keys, expires : 0 .. MaxClock + TTL]
  BY <1>1 DEF Absent
<1>3. Pruned = store \/ Pruned = [i \in Ids |-> IF Live(i) THEN store[i] ELSE Absent]
  BY Zenon DEF Pruned
<1>4. ASSUME NEW j \in Ids PROVE Live(j) \/ store[j].expires <= clock
  BY <1>1 DEF Live, Entries
<1>5. ASSUME NEW j \in Ids PROVE Pruned[j] = store[j] \/ (~Live(j) /\ Pruned[j] = Absent)
  BY <1>3, Zenon
<1>6. Pruned \in Entries
  BY <1>1, <1>2, <1>3 DEF Entries
<1> QED
  BY <1>4, <1>5, <1>6, Zenon

LEMMA SavedEntry ==
  ASSUME TypeOK, NEW i \in Ids, NEW data \in SUBSET Keys
  PROVE  /\ Saved(i, data) \in Entries
         /\ Saved(i, data)[i] = [data |-> data, expires |-> clock + TTL]
         /\ \A j \in Ids \ {i} : \/ Saved(i, data)[j] = store[j]
                                 \/ store[j].expires <= clock /\ Saved(i, data)[j] = Absent
<1>1. clock \in 0 .. MaxClock /\ TTL \in Nat /\ MaxClock \in Nat
  BY SessionsAssumption DEF SessionsAssumption, TypeOK
<1>2. PICK entry \in [data : SUBSET Keys, expires : 0 .. MaxClock + TTL] :
        entry = [data |-> data, expires |-> clock + TTL]
  <2>1. clock + TTL \in 0 .. MaxClock + TTL
    BY <1>1
  <2>2. [data |-> data, expires |-> clock + TTL] \in [data : SUBSET Keys, expires : 0 .. MaxClock + TTL]
    BY <2>1
  <2> QED
    BY <2>2
<1>3. Saved(i, data) = [Pruned EXCEPT ![i] = entry]
  BY <1>2, Zenon DEF Saved
<1>4. /\ Saved(i, data) \in Entries /\ Saved(i, data)[i] = entry
      /\ \A j \in Ids \ {i} : Saved(i, data)[j] = Pruned[j]
  BY <1>2, <1>3, PrunedEntries DEF Entries
<1>5. ASSUME NEW j \in Ids \ {i}
      PROVE  Saved(i, data)[j] = store[j] \/ (store[j].expires <= clock /\ Saved(i, data)[j] = Absent)
  BY <1>4, PrunedEntries
<1> QED
  BY <1>2, <1>4, <1>5

(* A step that finishes a request.                                         *)
Finishing(r) == Throw(r) \/ PersistDestroyed(r) \/ Persist(r) \/ PersistNothing(r)

LEMMA TypesKept ==
  ASSUME TypeOK, HistoryOK, Identities, [Next]_vars
  PROVE  TypeOK' /\ HistoryOK'
<1>a. clock \in 0 .. MaxClock /\ TTL \in Nat \ {0} /\ MaxClock \in Nat
  BY SessionsAssumption DEF SessionsAssumption, TypeOK
<1>1. CASE Tick
  <2>1. clock' \in 0 .. MaxClock /\ clock <= clock'
    BY <1>1, <1>a DEF Tick
  <2>2. TypeOK'
    BY <1>1, <2>1 DEF Tick, TypeOK, server, request, history
  <2>3. HistoryOK'
    BY <1>1, <1>a, <2>1 DEF Tick, HistoryOK, server, request, history
  <2> QED
    BY <2>2, <2>3
<1>2. CASE IssueFlat
  <2>1. PICK data \in SUBSET (Keys \ {User}) :
          LET c == [id |-> NoId, data |-> data, exp |-> clock + TTL] IN issued' = {c} /\ guest' = {c}
    BY <1>2, Zenon DEF IssueFlat
  <2>2. /\ issued = {} /\ used' = [used EXCEPT ![NoId] = clock]
        /\ UNCHANGED <<conf, store, clock, phase, sess, brought, alone, before, kept, gone>>
    BY <1>2, Zenon DEF IssueFlat, server, request
  <2>3. issued' \subseteq Credential /\ guest' \subseteq issued'
    BY <1>a, <2>1 DEF Credential
  <2>4. TypeOK'
    BY <2>2, <2>3 DEF TypeOK
  <2>5. HistoryOK'
    BY <1>a, <2>2 DEF HistoryOK
  <2> QED
    BY <2>4, <2>5
<1>3. ASSUME NEW r \in Reqs, Load(r) PROVE TypeOK' /\ HistoryOK'
  <2>1. PICK c, s : Opening(r, c, s)
    BY <1>3, Loads DEF Identities
  <2>2. /\ c \in issued \cup {NoCred, BadCred} /\ s \in Session
        /\ phase' = [phase EXCEPT ![r] = "handler"]
        /\ sess' = [sess EXCEPT ![r] = s] /\ brought' = [brought EXCEPT ![r] = c]
        /\ before' = [before EXCEPT ![r] = {p \in kept : p.cred = c /\ Opens(c)}]
        /\ kept' \subseteq kept
        /\ used' = [used EXCEPT ![s.id] = clock]
        /\ UNCHANGED <<conf, clock, issued, guest, gone>>
    BY <2>1 DEF Opening
  <2>3. store' \in Entries
    <3>1. store' = store \/ store' = [store EXCEPT ![c.id] = Absent]
      BY <2>1, Zenon DEF Opening
    <3>2. store \in Entries
      BY DEF TypeOK, Entries
    <3> QED
      BY <3>1, <3>2, DroppedEntry
  <2>4. alone' \in [Reqs -> BOOLEAN]
    <3>1. PICK shared : alone' = [q \in Reqs |-> IF q = r THEN shared = {} ELSE
                                                 IF q \in shared THEN FALSE ELSE alone[q]]
      BY <2>1, Zenon DEF Opening
    <3>2. alone \in [Reqs -> BOOLEAN]
      BY DEF TypeOK
    <3>3. (shared = {}) \in BOOLEAN
      OBVIOUS
    <3> QED
      BY <3>1, <3>2, <3>3, Zenon
  <2>5. TypeOK'
    BY <2>2, <2>3, <2>4 DEF TypeOK, Entries, Session
  <2>6. s.id \in Ids \cup {NoId}
    BY <2>2 DEF Session
  <2>7. used' \in [Ids \cup {NoId} -> 0 .. MaxClock] /\ \A i \in Ids \cup {NoId} : used'[i] <= clock
    BY <1>a, <2>2, <2>6 DEF HistoryOK
  <2>8. /\ before' \in [Reqs -> SUBSET Promised]
        /\ \A q \in Reqs : \A p \in before'[q] : p.cred = brought'[q] /\ p.cred \in issued
    BY <2>2 DEF HistoryOK, TypeOK
  <2>9. HistoryOK'
    BY <2>2, <2>7, <2>8 DEF HistoryOK
  <2> QED
    BY <2>5, <2>9
<1>4. ASSUME NEW r \in Reqs, PersistRegenerated(r) PROVE TypeOK' /\ HistoryOK'
  <2>1. /\ phase[r] = "handler" /\ Ids \ UsedIds # {} /\ store' = Dropped(sess[r].id)
        /\ gone' = gone \cup Ended(r) /\ alone' = [alone EXCEPT ![r] = TRUE]
        /\ phase' = [phase EXCEPT ![r] = "save"]
        /\ UNCHANGED <<conf, clock, brought, before, issued, guest, kept, used>>
    BY <1>4, Zenon DEF PersistRegenerated
  <2>2. PICK s \in Handled(r) : sess' = [sess EXCEPT ![r] = [s EXCEPT !.id = NewId]]
    BY <1>4, Zenon DEF PersistRegenerated, FreshId
  <2>3. sess \in [Reqs -> Session] /\ sess[r] \in Session
    BY DEF TypeOK, Session
  <2>4. s \in Session /\ NewId \in Ids
    BY <2>1, <2>3, NewIdIsFresh, HandledBecame
  <2>5. [s EXCEPT !.id = NewId] \in Session
    BY <2>4 DEF Session
  <2>6. sess' \in [Reqs -> Session]
    BY <2>2, <2>3, <2>5
  <2>7. gone' \subseteq issued
    BY <2>1 DEF Ended, Identities, TypeOK
  <2>8. store' \in Entries
    BY <2>1, DroppedEntry DEF Dropped
  <2>9. alone' \in [Reqs -> BOOLEAN]
    BY <2>1, Zenon DEF TypeOK
  <2>10. TypeOK'
    BY <2>1, <2>6, <2>7, <2>8, <2>9 DEF TypeOK, Entries, Session
  <2> QED
    BY <2>1, <2>10 DEF HistoryOK
<1>5. ASSUME NEW r \in Reqs, Finishing(r) PROVE TypeOK' /\ HistoryOK'
  <2>1. CASE Throw(r)
    <3>1. /\ Finish(r, before[r]) /\ UNCHANGED <<conf, store, clock, issued, guest, gone>>
      BY <2>1, Zenon DEF Throw, server
    <3>2. before[r] \in SUBSET Promised /\ \A p \in before[r] : p.cred \in issued'
      BY <3>1 DEF HistoryOK
    <3> QED
      BY <3>1, <3>2, FinishTypes DEF TypeOK, Session
  <2>2. CASE PersistDestroyed(r)
    <3>1. /\ phase[r] = "handler" /\ gone' = gone \cup Ended(r) /\ Finish(r, {})
          /\ store' = IF conf.strategy = "ServerStore" THEN Dropped(sess[r].id) ELSE store
          /\ UNCHANGED <<conf, clock, issued, guest>>
      BY <2>2, Zenon DEF PersistDestroyed
    <3>2. gone' \subseteq issued
      BY <3>1 DEF Ended, Identities, TypeOK
    <3>3. store' \in Entries
      BY <3>1, DroppedEntry DEF Dropped, TypeOK, Entries
    <3> QED
      BY <3>1, <3>2, <3>3, FinishTypes DEF TypeOK, Session, Entries
  <2>3. CASE Persist(r)
    <3>1. PICK s, c :
            /\ s \in ToPersist(r) /\ c = Sealed(s)
            /\ store' = IF conf.strategy = "ServerStore" THEN Saved(s.id, s.data) ELSE store
            /\ issued' = issued \cup {c}
            /\ guest' = guest \cup IF User \in s.data \/ c \in issued THEN {} ELSE {c}
            /\ Finish(r, {Promise(c, s.data)})
            /\ UNCHANGED <<conf, clock, gone>>
      BY <2>3, Zenon DEF Persist
    <3>2. s \in Session /\ s.data \in SUBSET Keys /\ s.id \in Ids \cup {NoId}
      BY <3>1, Ready DEF Session
    <3>3. c \in Credential
      BY <3>1, <3>2, SealedCredential
    <3>4. issued' \subseteq Credential /\ guest' \subseteq issued' /\ gone' \subseteq issued'
      BY <3>1, <3>3 DEF TypeOK
    <3>5. Promise(c, s.data) \in Promised /\ Promise(c, s.data).cred = c
      BY <1>a, <3>2, <3>3 DEF Promise, Promised
    <3>6. store' \in Entries
      <4>1. CASE Stored
        <5>1. s.id = sess[r].id /\ r \in Active
          BY <3>1, Ready DEF Became, Active
        <5>2. s.id \in Ids
          BY <3>2, <4>1, <5>1 DEF Identities
        <5> QED
          BY <3>1, <3>2, <4>1, <5>2, SavedEntry DEF Stored
      <4>2. CASE ~Stored
        BY <3>1, <4>2 DEF Stored, TypeOK, Entries
      <4> QED
        BY <4>1, <4>2
    <3> QED
      BY <3>1, <3>4, <3>5, <3>6, FinishTypes DEF TypeOK, Session, Entries
  <2>4. CASE PersistNothing(r)
    <3>1. PICK s \in ToPersist(r) :
            /\ ~ShouldPersist(s)
            /\ Finish(r, IF conf.rolling /\ ~s.isNew THEN {Promise(brought[r], s.data)}
                         ELSE {[p EXCEPT !.data = s.data] : p \in before[r]})
            /\ UNCHANGED <<conf, store, clock, issued, guest, gone>>
      BY <2>4, Zenon DEF PersistNothing, server
    <3>2. ~(conf.rolling /\ ~s.isNew)
      BY <3>1 DEF ShouldPersist
    <3>3. PICK promises : /\ promises = {[p EXCEPT !.data = s.data] : p \in before[r]}
                          /\ Finish(r, promises)
      BY <3>1, <3>2, Zenon
    <3>4. s \in Session /\ s.data \in SUBSET Keys
      BY Ready DEF Session
    <3>5. ASSUME NEW p \in before[r]
          PROVE  [p EXCEPT !.data = s.data] \in Promised /\ [p EXCEPT !.data = s.data].cred \in issued
      <4>1. p \in Promised /\ p.cred \in issued
        BY DEF HistoryOK
      <4> QED
        BY <3>4, <4>1 DEF Promised
    <3>6. promises \in SUBSET Promised /\ \A p \in promises : p.cred \in issued'
      BY <3>1, <3>3, <3>5
    <3> QED
      BY <3>1, <3>3, <3>6, FinishTypes DEF TypeOK, Session
  <2> QED
    BY <1>5, <2>1, <2>2, <2>3, <2>4 DEF Finishing
<1>6. CASE UNCHANGED vars
  BY <1>6 DEF vars, server, request, history, TypeOK, HistoryOK
<1> QED
  BY <1>1, <1>2, <1>3, <1>4, <1>5, <1>6 DEF Next, Finishing


LEMMA IdentitiesKept ==
  ASSUME TypeOK, HistoryOK, Identities, [Next]_vars
  PROVE  Identities'
<1>1. CASE Tick \/ UNCHANGED vars
  BY <1>1 DEF Tick, vars, server, request, history, Identities, Active, Stored
<1>2. CASE IssueFlat
  <2>1. conf.strategy = "JWT" /\ issued = {} /\ UNCHANGED <<conf, phase, sess, brought, alone, before>>
    BY <1>2, Zenon DEF IssueFlat, server, request
  <2> QED
    BY <2>1 DEF Identities, Active, Stored
<1>3. ASSUME NEW r \in Reqs, Load(r) PROVE Identities'
  <2>1. PICK c, s : Opening(r, c, s)
    BY <1>3, Loads DEF Identities
  <2>2. /\ c \in issued \cup {NoCred, BadCred} /\ s \in Session
        /\ ~s.dirty /\ ~s.regenerated /\ (s.isNew <=> ~Opens(c))
        /\ phase' = [phase EXCEPT ![r] = "handler"]
        /\ sess' = [sess EXCEPT ![r] = s] /\ brought' = [brought EXCEPT ![r] = c]
        /\ UNCHANGED <<conf, issued>> /\ phase[r] = "new"
    BY <2>1 DEF Opening
  <2>a. Active \subseteq Reqs
    BY DEF Active
  <2>3. /\ Active' = Active \cup {r} /\ r \notin Active /\ phase'[r] = "handler"
        /\ sess'[r] = s /\ brought'[r] = c
        /\ \A q \in Reqs \ {r} : phase'[q] = phase[q] /\ sess'[q] = sess[q] /\ brought'[q] = brought[q]
    BY <2>2 DEF Active, TypeOK
  <2>4. \A q \in Reqs : alone'[q] = IF q = r THEN {p \in Active : sess[p].id = s.id} = {}
                                    ELSE IF q \in {p \in Active : sess[p].id = s.id} THEN FALSE ELSE alone[q]
    BY <2>1, Zenon DEF Opening
  <2>5. /\ alone'[r] => \A q \in Active : sess[q].id # s.id
        /\ \A q \in Active : sess[q].id = s.id => ~alone'[q]
        /\ \A q \in Active : alone'[q] => alone[q]
    BY <2>3, <2>4 DEF Active
  <2>6. Stored => IF Opens(c) THEN c \in issued /\ s.id = c.id ELSE s.id \in Ids \ UsedIds
    BY <2>1 DEF Opening, Opens, Stored, Identities
  <2>7. Stored => s.id # NoId
    BY <2>6, SessionsAssumption DEF Identities, SessionsAssumption, NoId
  <2>8. Stored => \A q \in Active : sess[q].id = s.id => \E d \in issued : d.id = s.id
    BY <2>6 DEF UsedIds
  <2>9. ASSUME Stored, NEW p \in Active', NEW q \in Active', p # q, sess'[p].id = sess'[q].id
        PROVE  ~alone'[q] /\ \E d \in issued : d.id = sess'[q].id
    <3>1. CASE p = r
      <4>1. q \in Active /\ sess[q].id = s.id /\ sess'[q].id = s.id
        BY <2>a, <2>3, <2>9, <3>1
      <4> QED
        BY <2>5, <2>8, <2>9, <4>1, Zenon
    <3>2. CASE q = r
      <4>1. p \in Active /\ sess[p].id = s.id /\ sess'[q].id = s.id
        BY <2>a, <2>3, <2>9, <3>2
      <4> QED
        BY <2>5, <2>8, <2>9, <3>2, <4>1, Zenon
    <3>3. CASE p # r /\ q # r
      BY <2>3, <2>5, <2>9, <3>3 DEF Identities, Active
    <3> QED
      BY <3>1, <3>2, <3>3
  <2>b. /\ before'[r] # {} => Opens(c)
        /\ \A q \in Reqs \ {r} : before'[q] = before[q]
    BY <2>1 DEF Opening, HistoryOK
  <2>10. \A q \in Reqs : phase'[q] = "handler" =>
           /\ ~sess'[q].regenerated /\ ~sess'[q].dirty /\ (before'[q] # {} => ~sess'[q].isNew)
           /\ ~sess'[q].isNew => brought'[q] \in issued /\ (Stored => sess'[q].id = brought'[q].id)
    BY <2>2, <2>3, <2>6, <2>b DEF Identities, Opens
  <2>11. \A q \in Reqs : phase'[q] = "save" => Stored /\ sess'[q].regenerated
    BY <2>3 DEF Identities
  <2>12. Stored => \A q \in Active' : sess'[q].id # NoId
    BY <2>3, <2>7 DEF Identities, Active
  <2> QED
    BY <2>2, <2>9, <2>10, <2>11, <2>12 DEF Identities, Stored
<1>4. ASSUME NEW r \in Reqs, PersistRegenerated(r) PROVE Identities'
  <2>1. /\ phase[r] = "handler" /\ Ids \ UsedIds # {} /\ Stored
        /\ alone' = [alone EXCEPT ![r] = TRUE]
        /\ phase' = [phase EXCEPT ![r] = "save"]
        /\ UNCHANGED <<conf, brought, issued, before>>
    BY <1>4, Zenon DEF PersistRegenerated, Stored
  <2>2. PICK s \in Handled(r) : s.regenerated /\ sess' = [sess EXCEPT ![r] = [s EXCEPT !.id = NewId]]
    BY <1>4, Zenon DEF PersistRegenerated, FreshId
  <2>3. s \in Session /\ NewId \in Ids \ UsedIds
    BY <2>1, NewIdIsFresh, HandledBecame DEF TypeOK, Session
  <2>4. /\ Active' = Active /\ r \in Active /\ phase'[r] = "save"
        /\ sess'[r].id = NewId /\ sess'[r].regenerated
        /\ \A q \in Reqs \ {r} : phase'[q] = phase[q] /\ sess'[q] = sess[q] /\ alone'[q] = alone[q]
    BY <2>1, <2>2, <2>3 DEF Active, TypeOK, Session
  <2>5. NewId # NoId /\ \A q \in Active : sess[q].id # NewId
    BY <2>3, SessionsAssumption DEF UsedIds, SessionsAssumption, NoId
  <2> QED
    BY <2>1, <2>4, <2>5 DEF Identities, Active, Stored
<1>5. ASSUME NEW r \in Reqs, Finishing(r) PROVE Identities'
  <2>1. /\ phase[r] \in {"handler", "save"} /\ \E promises : Finish(r, promises)
        /\ UNCHANGED <<conf, clock>> /\ issued \subseteq issued'
        /\ Stored => \A c \in issued' \ issued : c.id # NoId /\ c.data = {} /\ c.exp = 0
    <3>1. CASE Throw(r)
      BY <3>1, Zenon DEF Throw, server
    <3>2. CASE PersistDestroyed(r)
      BY <3>2, Zenon DEF PersistDestroyed
    <3>3. CASE Persist(r)
      <4>1. PICK s \in ToPersist(r) : /\ issued' = issued \cup {Sealed(s)}
                                      /\ Finish(r, {Promise(Sealed(s), s.data)})
                                      /\ UNCHANGED <<conf, clock>>
        BY <3>3, Zenon DEF Persist
      <4>2. s \in Session /\ phase[r] \in {"handler", "save"} /\ s.id = sess[r].id
        BY Ready DEF Became
      <4>3. Stored => sess[r].id # NoId
        BY <4>2 DEF Identities, Active
      <4>4. Stored => Sealed(s) = [id |-> s.id, data |-> {}, exp |-> 0]
        BY <4>2, SealedCredential
      <4> QED
        BY <4>1, <4>2, <4>3, <4>4
    <3>4. CASE PersistNothing(r)
      <4>1. /\ \E promises : Finish(r, promises)
            /\ \E s : s \in ToPersist(r)
            /\ UNCHANGED <<conf, clock, issued>>
        BY <3>4, Zenon DEF PersistNothing, server
      <4> QED
        BY <4>1, Ready
    <3> QED
      BY <1>5, <3>1, <3>2, <3>3, <3>4 DEF Finishing
  <2>2. /\ Active' = Active \ {r} /\ phase'[r] = "done"
        /\ \A q \in Reqs \ {r} : /\ phase'[q] = phase[q] /\ sess'[q] = sess[q] /\ alone'[q] = alone[q]
                                 /\ brought'[q] = brought[q] /\ before'[q] = before[q]
    BY <2>1, Finishes DEF HistoryOK
  <2> QED
    BY <2>1, <2>2 DEF Identities, Active, Stored
<1> QED
  BY <1>1, <1>2, <1>3, <1>4, <1>5 DEF Next, Finishing


-----------------------------------------------------------------------------
(* Guests.                                                                 *)

Guests ==
  /\ Stored => \A c \in guest : /\ User \notin store[c.id].data
                                /\ \A r \in Active : User \in sess[r].data => sess[r].id # c.id
  /\ ~Stored => \A c \in guest : User \notin c.data

LEMMA GuestsKept ==
  ASSUME TypeOK, HistoryOK, Identities, Guests, [Next]_vars
  PROVE  Guests'
<1>a. guest \subseteq issued
  BY DEF TypeOK
<1>b. Stored => \A c \in issued : c \in Credential /\ c.id \in Ids /\ c = [id |-> c.id, data |-> {}, exp |-> 0]
  BY DEF TypeOK, Identities, Credential
<1>c. User \notin Absent.data
  BY DEF Absent
<1>d. store \in Entries /\ Active \subseteq Reqs
  BY DEF TypeOK, Entries, Active
<1>1. CASE Tick \/ UNCHANGED vars
  BY <1>1 DEF Tick, vars, server, request, history, Guests, Active, Stored
<1>2. CASE IssueFlat
  <2>1. PICK data \in SUBSET (Keys \ {User}) :
          LET c == [id |-> NoId, data |-> data, exp |-> clock + TTL] IN issued' = {c} /\ guest' = {c}
    BY <1>2, Zenon DEF IssueFlat
  <2>2. conf.strategy = "JWT" /\ conf' = conf
    BY <1>2, Zenon DEF IssueFlat, server
  <2> QED
    BY <2>1, <2>2 DEF Guests, Stored
<1>3. ASSUME NEW r \in Reqs, Load(r) PROVE Guests'
  <2>1. PICK c, s : Opening(r, c, s)
    BY <1>3, Loads DEF Identities
  <2>2. /\ sess' = [sess EXCEPT ![r] = s] /\ phase' = [phase EXCEPT ![r] = "handler"]
        /\ s.data = DataOf(c) /\ UNCHANGED <<conf, issued, guest>>
    BY <2>1 DEF Opening
  <2>3. Stored => IF Opens(c) THEN c \in issued /\ s.id = c.id ELSE s.id \in Ids \ UsedIds
    BY <2>1 DEF Opening, Opens, Stored, Identities
  <2>4. /\ Active' = Active \cup {r} /\ sess'[r] = s
        /\ \A q \in Reqs \ {r} : sess'[q] = sess[q]
    BY <2>2 DEF Active, TypeOK
  <2>5. \A d \in guest : Stored => User \notin store'[d.id].data
    <3> SUFFICES ASSUME NEW d \in guest, Stored PROVE User \notin store'[d.id].data
      OBVIOUS
    <3>1. store' = store \/ \E i \in Ids : store' = [store EXCEPT ![i] = Absent]
      BY <1>b, <2>1 DEF Opening
    <3>2. store'[d.id] = store[d.id] \/ store'[d.id] = Absent
      BY <1>a, <1>b, <1>d, <3>1 DEF Entries
    <3> QED
      BY <1>c, <3>2 DEF Guests
  <2>6. ASSUME NEW d \in guest, Stored, User \in s.data PROVE s.id # d.id
    <3>1. Opens(c) /\ s.data = store[c.id].data
      BY <2>2, <2>6 DEF DataOf, Stored
    <3> QED
      BY <2>3, <2>6, <3>1 DEF Guests
  <2> QED
    BY <1>d, <2>2, <2>4, <2>5, <2>6 DEF Guests, Stored
<1>4. ASSUME NEW r \in Reqs, PersistRegenerated(r) PROVE Guests'
  <2>1. /\ phase[r] = "handler" /\ Ids \ UsedIds # {} /\ Stored /\ store' = Dropped(sess[r].id)
        /\ phase' = [phase EXCEPT ![r] = "save"]
        /\ UNCHANGED <<conf, issued, guest>>
    BY <1>4, Zenon DEF PersistRegenerated, Stored
  <2>2. PICK s \in Handled(r) : sess' = [sess EXCEPT ![r] = [s EXCEPT !.id = NewId]]
    BY <1>4, Zenon DEF PersistRegenerated, FreshId
  <2>3. s \in Session /\ NewId \in Ids \ UsedIds
    BY <2>1, NewIdIsFresh, HandledBecame DEF TypeOK, Session
  <2>4. /\ Active' = Active /\ sess'[r].id = NewId
        /\ \A q \in Reqs \ {r} : sess'[q] = sess[q]
    BY <2>1, <2>2, <2>3 DEF Active, TypeOK, Session
  <2>5. \A d \in guest : d.id # NewId
    BY <1>a, <2>3 DEF UsedIds
  <2>6. \A d \in guest : User \notin store'[d.id].data
    <3> SUFFICES ASSUME NEW d \in guest PROVE User \notin store'[d.id].data
      OBVIOUS
    <3>1. store'[d.id] = store[d.id] \/ store'[d.id] = Absent
      BY <1>a, <1>b, <1>d, <2>1 DEF Entries, Dropped
    <3> QED
      BY <1>c, <2>1, <3>1 DEF Guests
  <2> QED
    BY <1>d, <2>1, <2>4, <2>5, <2>6 DEF Guests, Stored
<1>5. ASSUME NEW r \in Reqs, Finishing(r), ~Persist(r) PROVE Guests'
  <2>1. /\ phase[r] \in {"handler", "save"} /\ \E promises : Finish(r, promises)
        /\ UNCHANGED <<conf, issued, guest>>
        /\ store' = store \/ (Stored /\ store' = [store EXCEPT ![sess[r].id] = Absent])
    <3>1. CASE Throw(r)
      BY <3>1, Zenon DEF Throw, server
    <3>2. CASE PersistDestroyed(r)
      BY <3>2, Zenon DEF PersistDestroyed, Dropped, Stored
    <3>4. CASE PersistNothing(r)
      <4>1. /\ \E promises : Finish(r, promises)
            /\ \E s : s \in ToPersist(r)
            /\ UNCHANGED <<conf, store, issued, guest>>
        BY <3>4, Zenon DEF PersistNothing, server
      <4> QED
        BY <4>1, Ready
    <3> QED
      BY <1>5, <3>1, <3>2, <3>4 DEF Finishing
  <2>2. Active' = Active \ {r} /\ \A q \in Reqs \ {r} : sess'[q] = sess[q]
    BY <2>1, Finishes DEF HistoryOK
  <2>3. ASSUME Stored, NEW d \in guest PROVE User \notin store'[d.id].data
    <3>1. store'[d.id] = store[d.id] \/ store'[d.id] = Absent
      BY <1>a, <1>b, <1>d, <2>1, <2>3 DEF Entries
    <3> QED
      BY <1>c, <2>3, <3>1 DEF Guests
  <2> QED
    BY <1>d, <2>1, <2>2, <2>3 DEF Guests, Stored
<1>6. ASSUME NEW r \in Reqs, Persist(r) PROVE Guests'
  <2>1. PICK s, c :
          /\ s \in ToPersist(r) /\ c = Sealed(s)
          /\ store' = IF conf.strategy = "ServerStore" THEN Saved(s.id, s.data) ELSE store
          /\ issued' = issued \cup {c}
          /\ guest' = guest \cup IF User \in s.data \/ c \in issued THEN {} ELSE {c}
          /\ Finish(r, {Promise(c, s.data)})
          /\ UNCHANGED conf
    BY <1>6, Zenon DEF Persist
  <2>2. /\ s \in Session /\ phase[r] \in {"handler", "save"} /\ Became(sess[r], s)
        /\ phase[r] = "save" => s = sess[r]
        /\ phase[r] = "handler" => ~(s.regenerated /\ Stored)
    BY <2>1, Ready
  <2>3. s.id = sess[r].id /\ s.id \in Ids \cup {NoId} /\ s.data \in SUBSET Keys /\ r \in Active
    BY <2>2 DEF Became, Session, Active
  <2>4. Active' = Active \ {r} /\ \A q \in Reqs \ {r} : sess'[q] = sess[q]
    BY <2>1, <2>2, Finishes DEF HistoryOK
  <2>5. CASE ~Stored
    BY <2>1, <2>2, <2>5, SealedCredential DEF Guests, Stored
  <2>6. CASE Stored
    <3>1. User \in s.data => User \in sess[r].data
      BY <2>2, <2>6 DEF Became
    <3>2. s.id \in Ids /\ c = [id |-> s.id, data |-> {}, exp |-> 0] /\ store' = Saved(s.id, s.data)
      BY <2>1, <2>2, <2>3, <2>6, SealedCredential DEF Identities, Stored
    <3>3. ASSUME NEW d \in guest', User \in store'[d.id].data PROVE FALSE
      <4>1. d \in guest \/ d = c
        BY <2>1
      <4>2. d.id \in Ids
        BY <1>a, <1>b, <2>6, <3>2, <4>1
      <4>3. CASE d.id = s.id
        <5>1. User \in s.data
          <6>1. Saved(s.id, s.data)[s.id] = [data |-> s.data, expires |-> clock + TTL]
            BY <2>3, <3>2, SavedEntry
          <6> QED
            BY <3>2, <3>3, <4>3, <6>1
        <5>2. d \in guest
          BY <2>1, <3>3, <5>1
        <5> QED
          BY <2>3, <2>6, <3>1, <4>3, <5>1, <5>2 DEF Guests
      <4>4. CASE d.id # s.id
        <5>1. d \in guest
          BY <3>2, <4>1, <4>4
        <5>2. store'[d.id] = store[d.id] \/ store'[d.id] = Absent
          BY <2>3, <3>2, <4>2, <4>4, SavedEntry
        <5> QED
          BY <1>c, <2>6, <3>3, <5>1, <5>2 DEF Guests
      <4> QED
        BY <4>3, <4>4
    <3>4. ASSUME NEW d \in guest', NEW q \in Active', User \in sess'[q].data, sess'[q].id = d.id PROVE FALSE
      <4>1. q \in Active /\ q # r /\ User \in sess[q].data /\ sess[q].id = d.id
        BY <1>d, <2>4, <3>4
      <4>2. d \notin guest
        BY <2>6, <4>1 DEF Guests
      <4>3. d = c /\ c \notin issued
        BY <2>1, <3>4, <4>2
      <4>4. sess[q].id = sess[r].id
        BY <2>3, <3>2, <4>1, <4>3
      <4>5. PICK e \in issued : e.id = sess[q].id
        BY <2>3, <2>6, <4>1, <4>4 DEF Identities
      <4>6. e = c
        BY <1>b, <2>3, <2>6, <3>2, <4>4, <4>5
      <4> QED
        BY <4>3, <4>6
    <3> QED
      BY <2>1, <2>6, <3>3, <3>4, Zenon DEF Guests, Stored
  <2> QED
    BY <2>5, <2>6
<1> QED
  BY <1>1, <1>2, <1>3, <1>4, <1>5, <1>6 DEF Next, Finishing


-----------------------------------------------------------------------------
(* Promises.                                                               *)

(* What keeps promise p: its entry in the store, or its credential.        *)
Good(p) ==
  /\ Stored => p.until <= store[p.cred.id].expires /\ p.data = store[p.cred.id].data
  /\ ~Stored => p.data = p.cred.data
  /\ conf.strategy = "JWT" => p.until <= p.cred.exp

(* A promise that still stands is kept, and nobody has its session; the    *)
(* one a request found is kept by the session it has to itself.            *)
Promises ==
  /\ \A p \in kept : clock < p.until =>
       Good(p) /\ (Stored => \A r \in Active : sess[r].id # p.cred.id)
  /\ \A r \in Reqs : phase[r] = "handler" /\ Undisturbed(r) =>
       \A p \in before[r] : clock < p.until =>
         Good(p) /\ p.data = sess[r].data /\ (Stored => sess[r].id = p.cred.id)

LEMMA Numbers ==
  ASSUME TypeOK
  PROVE  /\ clock \in Nat /\ TTL \in Nat \ {0} /\ MaxClock \in Nat
         /\ \A i \in Ids : store[i].expires \in Nat
<1>1. TTL \in Nat \ {0} /\ MaxClock \in Nat
  BY SessionsAssumption DEF SessionsAssumption
<1> QED
  BY <1>1 DEF TypeOK

LEMMA GoodOpens ==
  ASSUME TypeOK, HistoryOK, Identities, NEW p \in Promised, p.cred \in issued, clock < p.until, Good(p)
  PROVE  Opens(p.cred) /\ DataOf(p.cred) = p.data
<1>1. p.cred \in Credential /\ p.cred \notin {NoCred, BadCred}
  BY CredentialAssumption DEF TypeOK
<1>2. clock \in Int /\ p.until \in Int /\ p.cred.exp \in Int
  BY <1>1, Numbers DEF Promised, Credential
<1>3. ASSUME Stored PROVE clock < store[p.cred.id].expires
  <2>1. p.cred.id \in Ids
    BY <1>1, <1>3 DEF Identities, Credential
  <2>2. store[p.cred.id].expires \in Int /\ p.until <= store[p.cred.id].expires
    BY <1>3, <2>1, Numbers DEF Good
  <2> QED
    BY <1>2, <2>2
<1>4. ASSUME conf.strategy = "JWT" PROVE clock < p.cred.exp
  BY <1>2, <1>4 DEF Good
<1>5. Opens(p.cred)
  BY <1>1, <1>3, <1>4, Zenon DEF Opens, Live, Stored
<1> QED
  BY <1>5, Zenon DEF DataOf, Good, Stored

(* A step that leaves the entry of a promise alone.                        *)
LEMMA GoodKept ==
  ASSUME NEW p, Good(p), conf' = conf, Stored => store'[p.cred.id] = store[p.cred.id]
  PROVE  Good(p)'
BY DEF Good, Stored

(* A request that has its session to itself shares its id with nobody.     *)
LEMMA AloneIsAlone ==
  ASSUME Identities, Stored, NEW r \in Active, Undisturbed(r), NEW q \in Active, q # r
  PROVE  sess[q].id # sess[r].id
BY DEF Identities, Undisturbed, Stored

LEMMA FinishKeepsPromises ==
  ASSUME TypeOK, HistoryOK, Identities, Promises, NEW r \in Reqs, phase[r] \in {"handler", "save"},
         NEW promises, Finish(r, promises), conf' = conf, clock' = clock,
         Stored => \A j \in Ids \ {sess[r].id} : store'[j] = store[j] \/ store[j].expires <= clock,
         Undisturbed(r) => \A p \in promises : clock < p.until =>
           Good(p)' /\ (Stored => p.cred.id = sess[r].id)
  PROVE  Promises'
<1>1. /\ Active' = Active \ {r} /\ r \in Active /\ phase'[r] = "done"
      /\ \A q \in Reqs \ {r} : /\ phase'[q] = phase[q] /\ sess'[q] = sess[q] /\ alone'[q] = alone[q]
                               /\ before'[q] = before[q]
  BY Finishes DEF HistoryOK
<1>a. Active \subseteq Reqs
  BY DEF Active
<1>2. ASSUME NEW p \in Promised, p.cred \in issued, clock < p.until, Good(p), Stored => p.cred.id # sess[r].id
      PROVE  Good(p)'
  <2>1. ASSUME Stored PROVE store'[p.cred.id] = store[p.cred.id]
    <3>1. p.cred.id \in Ids /\ p.cred.id # sess[r].id
      BY <1>2, <2>1 DEF Identities, TypeOK, Credential
    <3>2. store[p.cred.id].expires \in Int /\ clock \in Int /\ p.until \in Int
      BY <3>1, Numbers DEF Promised
    <3>3. ~(store[p.cred.id].expires <= clock)
      BY <1>2, <2>1, <3>2 DEF Good
    <3> QED
      BY <2>1, <3>1, <3>3
  <2> QED
    BY <1>2, <2>1, GoodKept
<1>3. ASSUME NEW p \in kept', clock < p.until
      PROVE  Good(p)' /\ (Stored => \A q \in Active' : sess'[q].id # p.cred.id)
  <2>1. p \in kept \/ (p \in promises /\ Undisturbed(r))
    BY <1>3 DEF Finish
  <2>2. CASE p \in kept
    <3>1. Good(p) /\ (Stored => \A q \in Active : sess[q].id # p.cred.id)
      BY <1>3, <2>2 DEF Promises
    <3>2. p \in Promised /\ p.cred \in issued
      BY <2>2 DEF HistoryOK
    <3>3. Good(p)'
      BY <1>1, <1>2, <1>3, <3>1, <3>2
    <3> QED
      BY <1>1, <1>a, <3>1, <3>3
  <2>3. CASE p \in promises /\ Undisturbed(r)
    <3>1. Good(p)' /\ (Stored => p.cred.id = sess[r].id)
      BY <1>3, <2>3
    <3>2. Stored => \A q \in Active \ {r} : sess[q].id # sess[r].id
      BY <1>1, <2>3, AloneIsAlone
    <3> QED
      BY <1>1, <1>a, <3>1, <3>2
  <2> QED
    BY <2>1, <2>2, <2>3
<1>4. ASSUME NEW q \in Reqs, phase'[q] = "handler", Undisturbed(q)', NEW p \in before'[q], clock < p.until
      PROVE  Good(p)' /\ p.data = sess'[q].data /\ (Stored => sess'[q].id = p.cred.id)
  <2>1. /\ q # r /\ phase[q] = "handler" /\ p \in before[q] /\ sess'[q] = sess[q] /\ Undisturbed(q)
        /\ q \in Active
    BY <1>1, <1>4 DEF Undisturbed, Active
  <2>2. Good(p) /\ p.data = sess[q].data /\ (Stored => sess[q].id = p.cred.id)
    BY <1>4, <2>1 DEF Promises
  <2>3. Stored => p.cred.id # sess[r].id
    BY <1>1, <2>1, <2>2, AloneIsAlone
  <2>4. p \in Promised /\ p.cred \in issued
    BY <2>1 DEF HistoryOK
  <2> QED
    BY <1>2, <1>4, <2>1, <2>2, <2>3, <2>4
<1> QED
  BY <1>3, <1>4 DEF Promises, Stored


LEMMA PromisesKept ==
  ASSUME TypeOK, HistoryOK, Identities, Promises, [Next]_vars
  PROVE  Promises'
<1>a. Active \subseteq Reqs
  BY DEF Active
<1>b. \A p \in kept : p \in Promised /\ p.cred \in issued
  BY DEF HistoryOK
<1>c. \A r \in Reqs : \A p \in before[r] : p \in Promised /\ p.cred \in issued /\ p.cred = brought[r]
  BY DEF HistoryOK
<1>1. CASE Tick
  <2>1. /\ clock' = clock + 1 /\ UNCHANGED <<conf, store, phase, sess, alone, before, kept>>
    BY <1>1, Zenon DEF Tick, server, request, history
  <2>2. \A p \in Promised : clock' < p.until => clock < p.until
    BY <2>1, Numbers DEF Promised
  <2>3. \A p : Good(p) => Good(p)'
    BY <2>1 DEF Good, Stored
  <2>4. Active' = Active /\ \A r \in Reqs : Undisturbed(r)' = Undisturbed(r)
    BY <2>1 DEF Active, Undisturbed
  <2>5. \A p \in kept' : clock' < p.until => Good(p)' /\ (Stored => \A r \in Active' : sess'[r].id # p.cred.id)
    BY <1>b, <2>1, <2>2, <2>3, <2>4 DEF Promises
  <2>6. ASSUME NEW r \in Reqs, phase'[r] = "handler", Undisturbed(r)', NEW p \in before'[r], clock' < p.until
        PROVE  Good(p)' /\ p.data = sess'[r].data /\ (Stored => sess'[r].id = p.cred.id)
    BY <1>c, <2>1, <2>2, <2>3, <2>4, <2>6 DEF Promises
  <2> QED
    BY <2>1, <2>5, <2>6 DEF Promises, Stored
<1>2. CASE IssueFlat \/ UNCHANGED vars
  <2>1. UNCHANGED <<conf, clock, store, phase, sess, alone, before, kept>>
    BY <1>2, Zenon DEF IssueFlat, vars, server, request, history
  <2> QED
    BY <2>1 DEF Promises, Good, Active, Undisturbed, Stored
<1>3. ASSUME NEW r \in Reqs, Load(r) PROVE Promises'
  <2>1. PICK c, s : Opening(r, c, s)
    BY <1>3, Loads DEF Identities
  <2>2. /\ sess' = [sess EXCEPT ![r] = s] /\ phase' = [phase EXCEPT ![r] = "handler"]
        /\ phase[r] = "new" /\ s.data = DataOf(c) /\ UNCHANGED <<conf, clock, issued>>
        /\ before' = [before EXCEPT ![r] = {p \in kept : p.cred = c /\ Opens(c)}]
        /\ kept' = {p \in kept : p.cred = c => ~Opens(c)}
    BY <2>1 DEF Opening
  <2>3. Stored => IF Opens(c) THEN c \in issued /\ s.id = c.id ELSE s.id \in Ids \ UsedIds
    BY <2>1 DEF Opening, Opens, Stored, Identities
  <2>4. /\ Active' = Active \cup {r} /\ r \notin Active /\ sess'[r] = s
        /\ \A q \in Reqs \ {r} : sess'[q] = sess[q] /\ phase'[q] = phase[q] /\ before'[q] = before[q]
        /\ before'[r] = {p \in kept : p.cred = c /\ Opens(c)}
    BY <2>2 DEF Active, TypeOK, HistoryOK
  <2>5. \A q \in Reqs \ {r} : alone'[q] => alone[q]
    BY <2>1, Zenon DEF Opening
  <2>6. ASSUME NEW p \in Promised, p.cred \in issued, clock < p.until, Good(p) PROVE Good(p)'
    <3>1. ASSUME Stored PROVE store'[p.cred.id] = store[p.cred.id]
      <4>1. Live(p.cred.id) /\ p.cred.id \in Ids
        BY <2>6, <3>1, GoodOpens DEF Opens, Stored, Identities, TypeOK, Credential
      <4>2. store' = store \/ (~Live(c.id) /\ store' = [store EXCEPT ![c.id] = Absent])
        BY <2>1, Zenon DEF Opening
      <4>3. store' = store \/ (c.id # p.cred.id /\ store' = [store EXCEPT ![c.id] = Absent])
        BY <4>1, <4>2, Zenon
      <4> QED
        BY <4>1, <4>3 DEF TypeOK
    <3> QED
      BY <2>2, <2>6, <3>1, GoodKept
  <2>7. ASSUME NEW p \in kept', clock < p.until
        PROVE  Good(p)' /\ (Stored => \A q \in Active' : sess'[q].id # p.cred.id)
    <3>1. /\ p \in kept /\ p \in Promised /\ p.cred \in issued /\ (p.cred = c => ~Opens(c))
          /\ Good(p) /\ (Stored => \A q \in Active : sess[q].id # p.cred.id)
      BY <1>b, <2>2, <2>7 DEF Promises
    <3>2. Opens(p.cred) /\ p.cred # c
      BY <2>7, <3>1, GoodOpens
    <3>3. Stored => s.id # p.cred.id
      <4>1. CASE Stored /\ Opens(c)
        <5>1. c \in issued /\ c \in Credential /\ p.cred \in Credential
          BY <2>3, <3>1, <4>1 DEF TypeOK
        <5>2. \A d \in {c, p.cred} : d = [id |-> d.id, data |-> {}, exp |-> 0]
          BY <3>1, <4>1, <5>1 DEF Identities, Credential
        <5>3. c.id # p.cred.id
          BY <3>2, <5>2
        <5> QED
          BY <2>3, <4>1, <5>3
      <4>2. CASE Stored /\ ~Opens(c)
        BY <2>3, <3>1, <4>2 DEF UsedIds
      <4> QED
        BY <4>1, <4>2
    <3>4. Good(p)'
      BY <2>6, <2>7, <3>1
    <3> QED
      BY <1>a, <2>4, <3>1, <3>3, <3>4
  <2>8. ASSUME NEW q \in Reqs, phase'[q] = "handler", Undisturbed(q)', NEW p \in before'[q], clock < p.until
        PROVE  Good(p)' /\ p.data = sess'[q].data /\ (Stored => sess'[q].id = p.cred.id)
    <3>1. CASE q = r
      <4>1. p \in kept /\ p \in Promised /\ p.cred \in issued /\ p.cred = c /\ Opens(c) /\ Good(p)
        BY <1>b, <2>4, <2>8, <3>1 DEF Promises
      <4>2. DataOf(c) = p.data
        BY <2>8, <4>1, GoodOpens
      <4>3. Good(p)'
        BY <2>6, <2>8, <4>1
      <4> QED
        BY <2>2, <2>3, <2>4, <3>1, <4>1, <4>2, <4>3
    <3>2. CASE q # r
      <4>1. phase[q] = "handler" /\ Undisturbed(q) /\ p \in before[q] /\ sess'[q] = sess[q]
        BY <2>2, <2>4, <2>5, <2>8, <3>2 DEF Undisturbed
      <4>2. Good(p) /\ p.data = sess[q].data /\ (Stored => sess[q].id = p.cred.id)
        BY <2>8, <4>1 DEF Promises
      <4>3. Good(p)'
        BY <1>c, <2>6, <2>8, <4>1, <4>2
      <4> QED
        BY <4>1, <4>2, <4>3
    <3> QED
      BY <3>1, <3>2
  <2> QED
    BY <2>2, <2>7, <2>8 DEF Promises, Stored
<1>4. ASSUME NEW r \in Reqs, PersistRegenerated(r) PROVE Promises'
  <2>1. /\ phase[r] = "handler" /\ Ids \ UsedIds # {} /\ Stored /\ store' = Dropped(sess[r].id)
        /\ phase' = [phase EXCEPT ![r] = "save"] /\ alone' = [alone EXCEPT ![r] = TRUE]
        /\ UNCHANGED <<conf, clock, issued, kept, before>>
    BY <1>4, Zenon DEF PersistRegenerated, Stored
  <2>2. PICK s \in Handled(r) : sess' = [sess EXCEPT ![r] = [s EXCEPT !.id = NewId]]
    BY <1>4, Zenon DEF PersistRegenerated, FreshId
  <2>3. s \in Session /\ NewId \in Ids \ UsedIds
    BY <2>1, NewIdIsFresh, HandledBecame DEF TypeOK, Session
  <2>4. /\ Active' = Active /\ r \in Active /\ sess'[r].id = NewId /\ phase'[r] = "save"
        /\ \A q \in Reqs \ {r} : sess'[q] = sess[q] /\ phase'[q] = phase[q] /\ alone'[q] = alone[q]
    BY <2>1, <2>2, <2>3 DEF Active, TypeOK, Session
  <2>5. ASSUME NEW p \in Promised, p.cred \in issued, Good(p), p.cred.id # sess[r].id PROVE Good(p)'
    <3>1. store'[p.cred.id] = store[p.cred.id]
      <4>1. p.cred.id \in Ids
        BY <2>1, <2>5 DEF Identities, TypeOK, Credential
      <4> QED
        BY <2>1, <2>5, <4>1 DEF Dropped, TypeOK
    <3> QED
      BY <2>1, <2>5, <3>1, GoodKept
  <2>6. ASSUME NEW p \in kept', clock < p.until
        PROVE  Good(p)' /\ \A q \in Active' : sess'[q].id # p.cred.id
    <3>1. p \in Promised /\ p.cred \in issued /\ Good(p) /\ \A q \in Active : sess[q].id # p.cred.id
      BY <1>b, <2>1, <2>6 DEF Promises
    <3>2. NewId # p.cred.id
      BY <2>3, <3>1 DEF UsedIds
    <3>3. Good(p)'
      BY <2>4, <2>5, <3>1
    <3> QED
      BY <1>a, <2>4, <3>1, <3>2, <3>3
  <2>7. ASSUME NEW q \in Reqs, phase'[q] = "handler", Undisturbed(q)', NEW p \in before'[q], clock < p.until
        PROVE  Good(p)' /\ p.data = sess'[q].data /\ sess'[q].id = p.cred.id
    <3>1. /\ q # r /\ phase[q] = "handler" /\ Undisturbed(q) /\ p \in before[q] /\ sess'[q] = sess[q]
          /\ q \in Active
      BY <2>1, <2>4, <2>7 DEF Undisturbed, Active
    <3>2. Good(p) /\ p.data = sess[q].data /\ sess[q].id = p.cred.id
      BY <2>1, <2>7, <3>1 DEF Promises
    <3>3. p.cred.id # sess[r].id
      BY <2>1, <2>4, <3>1, <3>2, AloneIsAlone
    <3>4. Good(p)'
      BY <1>c, <2>5, <3>1, <3>2, <3>3
    <3> QED
      BY <3>1, <3>2, <3>4
  <2> QED
    BY <2>1, <2>6, <2>7 DEF Promises, Stored
<1>5. ASSUME NEW r \in Reqs, Throw(r) PROVE Promises'
  <2>1. /\ phase[r] = "handler" /\ Finish(r, before[r]) /\ UNCHANGED <<conf, store, clock>>
    BY <1>5, Zenon DEF Throw, server
  <2>2. \A p \in before[r] : Undisturbed(r) /\ clock < p.until =>
          Good(p)' /\ (Stored => p.cred.id = sess[r].id)
    BY <2>1 DEF Promises, Good, Stored
  <2> QED
    BY <2>1, <2>2, FinishKeepsPromises
<1>6. ASSUME NEW r \in Reqs, PersistDestroyed(r) PROVE Promises'
  <2>1. /\ phase[r] = "handler" /\ Finish(r, {}) /\ UNCHANGED <<conf, clock>>
        /\ store' = IF conf.strategy = "ServerStore" THEN Dropped(sess[r].id) ELSE store
    BY <1>6, Zenon DEF PersistDestroyed
  <2>2. Stored => \A j \in Ids \ {sess[r].id} : store'[j] = store[j]
    BY <2>1 DEF Stored, Dropped, TypeOK
  <2> QED
    BY <2>1, <2>2, FinishKeepsPromises
<1>7. ASSUME NEW r \in Reqs, Persist(r) PROVE Promises'
  <2>1. PICK s, c :
          /\ s \in ToPersist(r) /\ c = Sealed(s)
          /\ store' = IF conf.strategy = "ServerStore" THEN Saved(s.id, s.data) ELSE store
          /\ Finish(r, {Promise(c, s.data)})
          /\ UNCHANGED <<conf, clock>>
    BY <1>7, Zenon DEF Persist
  <2>2. s \in Session /\ phase[r] \in {"handler", "save"} /\ s.id = sess[r].id
    BY <2>1, Ready DEF Became
  <2>3. s.id \in Ids \cup {NoId} /\ s.data \in SUBSET Keys /\ r \in Active
    BY <2>2 DEF Session, Active
  <2>4. /\ Stored => c = [id |-> s.id, data |-> {}, exp |-> 0] /\ s.id \in Ids
        /\ ~Stored => c.data = s.data
        /\ conf.strategy = "JWT" => c.exp = clock + TTL
    BY <2>1, <2>2, <2>3, SealedCredential DEF Identities
  <2>5. ASSUME Stored
        PROVE  /\ store'[s.id] = [data |-> s.data, expires |-> clock + TTL]
               /\ \A j \in Ids \ {s.id} : store'[j] = store[j] \/ store[j].expires <= clock
    <3>1. store' = Saved(s.id, s.data)
      BY <2>1, <2>5 DEF Stored
    <3>2. Saved(s.id, s.data)[s.id] = [data |-> s.data, expires |-> clock + TTL]
      BY <2>3, <2>4, <2>5, SavedEntry
    <3>3. \A j \in Ids \ {s.id} : \/ Saved(s.id, s.data)[j] = store[j]
                                  \/ store[j].expires <= clock
      BY <2>3, <2>4, <2>5, SavedEntry
    <3> QED
      BY <3>1, <3>2, <3>3
  <2>6. PICK p : p = Promise(c, s.data)
    OBVIOUS
  <2>7. p.cred = c /\ p.data = s.data /\ p.until = clock + TTL /\ clock + TTL \in Nat
    BY <2>6, Numbers DEF Promise
  <2>8. Good(p)' /\ (Stored => p.cred.id = sess[r].id)
    BY <2>1, <2>2, <2>4, <2>5, <2>7 DEF Good, Stored
  <2>9. Stored => \A j \in Ids \ {sess[r].id} : store'[j] = store[j] \/ store[j].expires <= clock
    BY <2>2, <2>5
  <2> QED
    BY <2>1, <2>2, <2>6, <2>8, <2>9, FinishKeepsPromises
<1>8. ASSUME NEW r \in Reqs, PersistNothing(r) PROVE Promises'
  <2>1. PICK s \in ToPersist(r) :
          /\ ~ShouldPersist(s)
          /\ Finish(r, IF conf.rolling /\ ~s.isNew THEN {Promise(brought[r], s.data)}
                       ELSE {[p EXCEPT !.data = s.data] : p \in before[r]})
          /\ UNCHANGED <<conf, store, clock>>
    BY <1>8, Zenon DEF PersistNothing, server
  <2>2. s \in Session /\ phase[r] \in {"handler", "save"} /\ Became(sess[r], s) /\ (phase[r] = "save" => s = sess[r])
    BY Ready
  <2>3. ~(conf.rolling /\ ~s.isNew) /\ ~s.regenerated /\ (s.isNew \/ ~s.dirty)
    BY <2>1, Zenon DEF ShouldPersist
  <2>4. phase[r] = "handler"
    BY <2>2, <2>3 DEF Identities
  <2>5. before[r] # {} => s.data = sess[r].data
    BY <2>2, <2>3, <2>4 DEF Became, Identities
  <2>6. PICK promises : promises = {[p EXCEPT !.data = s.data] : p \in before[r]} /\ Finish(r, promises)
    BY <2>1, <2>3, Zenon
  <2>7. ASSUME Undisturbed(r), NEW p \in promises, clock < p.until
        PROVE  Good(p)' /\ (Stored => p.cred.id = sess[r].id)
    <3>1. PICK o \in before[r] : p = [o EXCEPT !.data = s.data]
      BY <2>6, <2>7
    <3>2. o \in Promised
      BY <1>c
    <3>3. p.until = o.until /\ p.cred = o.cred /\ p.data = s.data
      BY <3>1, <3>2 DEF Promised
    <3>4. Good(o) /\ o.data = sess[r].data /\ (Stored => sess[r].id = o.cred.id)
      BY <2>4, <2>7, <3>3 DEF Promises
    <3>5. Good(p)
      BY <2>5, <3>3, <3>4 DEF Good
    <3> QED
      BY <2>1, <3>3, <3>4, <3>5, GoodKept
  <2> QED
    BY <2>1, <2>4, <2>6, <2>7, FinishKeepsPromises
<1> QED
  BY <1>1, <1>2, <1>3, <1>4, <1>5, <1>6, <1>7, <1>8 DEF Next


-----------------------------------------------------------------------------
(* Ends.                                                                   *)

Ends ==
  Stored => \A c \in gone : store[c.id].expires <= clock /\ \A r \in Active : sess[r].id # c.id

LEMMA EndsKept ==
  ASSUME TypeOK, HistoryOK, Identities, Ends, [Next]_vars
  PROVE  Ends'
<1>a. Active \subseteq Reqs /\ store \in Entries
  BY DEF Active, TypeOK, Entries
<1>b. gone \subseteq issued /\ (Stored => \A c \in issued : c.id \in Ids)
  BY DEF TypeOK, Identities, Credential
<1>c. Absent.expires = 0 /\ 0 <= clock
  BY Numbers DEF Absent
<1>1. CASE Tick
  <2>1. clock' = clock + 1 /\ UNCHANGED <<conf, store, phase, sess, gone>>
    BY <1>1, Zenon DEF Tick, server, request, history
  <2>2. \A i \in Ids : store[i].expires <= clock => store[i].expires <= clock'
    BY <2>1, Numbers
  <2> QED
    BY <1>b, <2>1, <2>2 DEF Ends, Active, Stored
<1>2. CASE IssueFlat \/ UNCHANGED vars
  <2>1. UNCHANGED <<conf, clock, store, phase, sess, gone>>
    BY <1>2, Zenon DEF IssueFlat, vars, server, request, history
  <2> QED
    BY <2>1 DEF Ends, Active, Stored
<1>3. ASSUME NEW r \in Reqs, Load(r) PROVE Ends'
  <2>1. PICK c, s : Opening(r, c, s)
    BY <1>3, Loads DEF Identities
  <2>2. /\ sess' = [sess EXCEPT ![r] = s] /\ phase' = [phase EXCEPT ![r] = "handler"]
        /\ UNCHANGED <<conf, clock, gone>>
        /\ store' = store \/ store' = [store EXCEPT ![c.id] = Absent]
    BY <2>1 DEF Opening
  <2>3. Active' = Active \cup {r} /\ sess'[r] = s /\ \A q \in Reqs \ {r} : sess'[q] = sess[q]
    BY <2>2 DEF Active, TypeOK
  <2>4. ASSUME Stored, NEW d \in gone PROVE s.id # d.id
    <3>1. d \in issued /\ ~Live(d.id)
      BY <1>b, <2>4, Numbers DEF Ends, Live
    <3>2. IF Opens(c) THEN s.id = c.id /\ Live(c.id) ELSE s.id \in Ids \ UsedIds
      BY <2>1, <2>4 DEF Opening, Opens, Stored, Identities
    <3> QED
      BY <3>1, <3>2 DEF UsedIds
  <2>5. ASSUME Stored, NEW d \in gone PROVE store'[d.id].expires <= clock
    <3>1. store'[d.id] = store[d.id] \/ store'[d.id] = Absent
      BY <1>a, <1>b, <2>2, <2>5 DEF Entries
    <3> QED
      BY <1>c, <2>5, <3>1 DEF Ends
  <2> QED
    BY <1>a, <2>2, <2>3, <2>4, <2>5 DEF Ends, Stored
<1>4. ASSUME NEW r \in Reqs, PersistRegenerated(r) PROVE Ends'
  <2>1. /\ phase[r] = "handler" /\ Ids \ UsedIds # {} /\ Stored /\ store' = [store EXCEPT ![sess[r].id] = Absent]
        /\ phase' = [phase EXCEPT ![r] = "save"] /\ gone' = gone \cup Ended(r)
        /\ UNCHANGED <<conf, clock, issued>>
    BY <1>4, Zenon DEF PersistRegenerated, Stored, Dropped
  <2>2. PICK s \in Handled(r) : sess' = [sess EXCEPT ![r] = [s EXCEPT !.id = NewId]]
    BY <1>4, Zenon DEF PersistRegenerated, FreshId
  <2>3. s \in Session /\ NewId \in Ids \ UsedIds
    BY <2>1, NewIdIsFresh, HandledBecame DEF TypeOK, Session
  <2>4. /\ Active' = Active /\ r \in Active /\ sess'[r].id = NewId
        /\ \A q \in Reqs \ {r} : sess'[q] = sess[q]
    BY <2>1, <2>2, <2>3 DEF Active, TypeOK, Session
  <2>5. ASSUME NEW d \in gone'
        PROVE  store'[d.id].expires <= clock /\ \A q \in Active' : sess'[q].id # d.id
    <3>1. CASE d \in gone
      <4>1. /\ d \in issued /\ store[d.id].expires <= clock
            /\ \A q \in Active : sess[q].id # d.id
        BY <1>b, <2>1, <3>1 DEF Ends
      <4>2. store'[d.id] = store[d.id]
        BY <1>a, <1>b, <2>1, <2>4, <4>1 DEF Entries
      <4>3. NewId # d.id
        BY <2>3, <4>1 DEF UsedIds
      <4> QED
        BY <1>a, <2>4, <4>1, <4>2, <4>3
    <3>2. CASE d \in Ended(r)
      <4>1. Undisturbed(r) /\ d = brought[r] /\ ~sess[r].isNew
        BY <3>2 DEF Ended
      <4>2. d \in issued /\ d.id = sess[r].id
        BY <2>1, <4>1 DEF Identities
      <4>3. store'[d.id] = Absent
        BY <1>a, <1>b, <2>1, <4>2 DEF Entries
      <4>4. NewId # d.id
        BY <2>3, <4>2 DEF UsedIds
      <4>5. \A q \in Active \ {r} : sess[q].id # d.id
        BY <2>1, <2>4, <4>1, <4>2, AloneIsAlone
      <4> QED
        BY <1>a, <1>c, <2>4, <4>3, <4>4, <4>5
    <3> QED
      BY <2>1, <2>5, <3>1, <3>2
  <2> QED
    BY <2>1, <2>5 DEF Ends, Stored
<1>5. ASSUME NEW r \in Reqs, Finishing(r) PROVE Ends'
  <2>1. /\ phase[r] \in {"handler", "save"} /\ \E promises : Finish(r, promises)
        /\ UNCHANGED <<conf, clock>>
        /\ gone' = gone \/ (PersistDestroyed(r) /\ gone' = gone \cup Ended(r))
        /\ Stored => \A j \in Ids \ {sess[r].id} : \/ store'[j] = store[j]
                                                   \/ store'[j] = Absent
    <3>1. CASE Throw(r)
      BY <3>1, Zenon DEF Throw, server
    <3>2. CASE PersistDestroyed(r)
      <4>1. /\ phase[r] = "handler" /\ Finish(r, {}) /\ UNCHANGED <<conf, clock>>
            /\ gone' = gone \cup Ended(r)
            /\ store' = IF conf.strategy = "ServerStore" THEN Dropped(sess[r].id) ELSE store
        BY <3>2, Zenon DEF PersistDestroyed
      <4>2. Stored => \A j \in Ids \ {sess[r].id} : store'[j] = store[j]
        BY <1>a, <4>1 DEF Dropped, Stored, Entries
      <4> QED
        BY <3>2, <4>1, <4>2
    <3>3. CASE Persist(r)
      <4>1. PICK s \in ToPersist(r) :
              /\ store' = IF conf.strategy = "ServerStore" THEN Saved(s.id, s.data) ELSE store
              /\ \E promises : Finish(r, promises)
              /\ UNCHANGED <<conf, clock, gone>>
        BY <3>3, Zenon DEF Persist
      <4>2. s \in Session /\ phase[r] \in {"handler", "save"} /\ s.id = sess[r].id
        BY Ready DEF Became
      <4>3. s.id \in Ids \cup {NoId} /\ s.data \in SUBSET Keys /\ r \in Active
        BY <4>2 DEF Session, Active
      <4>4. ASSUME Stored PROVE \A j \in Ids \ {s.id} : store'[j] = store[j] \/ store'[j] = Absent
        <5>1. s.id \in Ids /\ store' = Saved(s.id, s.data)
          BY <4>1, <4>2, <4>3, <4>4 DEF Identities, Stored
        <5>2. \A j \in Ids \ {s.id} : \/ Saved(s.id, s.data)[j] = store[j]
                                      \/ Saved(s.id, s.data)[j] = Absent
          BY <4>3, <5>1, SavedEntry
        <5> QED
          BY <5>1, <5>2
      <4> QED
        BY <4>1, <4>2, <4>4
    <3>4. CASE PersistNothing(r)
      <4>1. /\ \E promises : Finish(r, promises)
            /\ \E s : s \in ToPersist(r)
            /\ UNCHANGED <<conf, clock, store, gone>>
        BY <3>4, Zenon DEF PersistNothing, server
      <4> QED
        BY <4>1, Ready
    <3> QED
      BY <1>5, <3>1, <3>2, <3>3, <3>4 DEF Finishing
  <2>2. Active' = Active \ {r} /\ r \in Active /\ \A q \in Reqs \ {r} : sess'[q] = sess[q]
    BY <2>1, Finishes DEF HistoryOK
  <2>3. ASSUME Stored, NEW d \in gone
        PROVE  store'[d.id].expires <= clock /\ \A q \in Active' : sess'[q].id # d.id
    <3>1. d.id \in Ids /\ store[d.id].expires <= clock /\ \A q \in Active : sess[q].id # d.id
      BY <1>b, <2>3 DEF Ends
    <3>2. store'[d.id] = store[d.id] \/ store'[d.id] = Absent
      BY <2>1, <2>2, <2>3, <3>1
    <3> QED
      BY <1>a, <1>c, <2>2, <3>1, <3>2
  <2>4. ASSUME Stored, PersistDestroyed(r), NEW d \in Ended(r)
        PROVE  store'[d.id].expires <= clock /\ \A q \in Active' : sess'[q].id # d.id
    <3>1. Undisturbed(r) /\ d = brought[r] /\ ~sess[r].isNew
      BY <2>4 DEF Ended
    <3>2. phase[r] = "handler" /\ store' = [store EXCEPT ![sess[r].id] = Absent]
      BY <2>4, Zenon DEF PersistDestroyed, Dropped, Stored
    <3>3. d \in issued /\ d.id = sess[r].id
      BY <2>4, <3>1, <3>2 DEF Identities
    <3>4. store'[d.id] = Absent
      BY <1>a, <1>b, <2>4, <3>2, <3>3 DEF Entries
    <3>5. \A q \in Active \ {r} : sess[q].id # d.id
      BY <2>2, <2>4, <3>1, <3>3, AloneIsAlone
    <3> QED
      BY <1>a, <1>c, <2>2, <3>4, <3>5
  <2> QED
    BY <2>1, <2>3, <2>4 DEF Ends, Stored
<1> QED
  BY <1>1, <1>2, <1>3, <1>4, <1>5 DEF Next, Finishing


-----------------------------------------------------------------------------
(* Uses.                                                                   *)

Uses ==
  /\ Stored => \A i \in Ids : store[i].expires <= used[i] + TTL
  /\ conf.strategy = "JWT" => \A c \in issued : c.exp <= used[c.id] + TTL

(* A session that is used now is good for its ttl from now.                *)
LEMMA UseNow ==
  ASSUME TypeOK, HistoryOK, Uses, NEW i \in Ids \cup {NoId}, used' = [used EXCEPT ![i] = clock], conf' = conf,
         Stored => \A j \in Ids : \/ store'[j] = store[j] \/ store'[j] = Absent
                                  \/ j = i /\ store'[j].expires = clock + TTL,
         conf.strategy = "JWT" => \A c \in issued' : \/ c \in issued
                                                     \/ c.id = i /\ c.exp = clock + TTL
  PROVE  Uses'
<1>1. clock \in Nat /\ TTL \in Nat
  BY Numbers
<1>2. used'[i] = clock /\ \A j \in Ids \cup {NoId} :
        used[j] \in Nat /\ used'[j] \in Nat /\ used[j] <= used'[j]
  BY <1>1, SessionsAssumption DEF HistoryOK, SessionsAssumption
<1>3. ASSUME Stored, NEW j \in Ids PROVE store'[j].expires <= used'[j] + TTL
  <2>1. store[j].expires \in Nat /\ store[j].expires <= used[j] + TTL
    BY <1>3, Numbers DEF Uses
  <2>2. CASE store'[j] = store[j]
    BY <1>1, <1>2, <2>1, <2>2
  <2>3. CASE store'[j] = Absent
    BY <1>1, <1>2, <2>3 DEF Absent
  <2>4. CASE j = i /\ store'[j].expires = clock + TTL
    BY <1>1, <1>2, <2>4
  <2> QED
    BY <1>3, <2>2, <2>3, <2>4
<1>4. ASSUME conf.strategy = "JWT", NEW c \in issued' PROVE c.exp <= used'[c.id] + TTL
  <2>1. CASE c \in issued
    <3>1. c.id \in Ids \cup {NoId} /\ c.exp \in Int /\ c.exp <= used[c.id] + TTL
      BY <1>4, <2>1, Numbers DEF Uses, TypeOK, Credential
    <3>2. used[c.id] \in Nat /\ used'[c.id] \in Nat /\ used[c.id] <= used'[c.id]
      BY <1>2, <3>1
    <3> QED
      BY <1>1, <3>1, <3>2
  <2>2. CASE c.id = i /\ c.exp = clock + TTL
    BY <1>1, <1>2, <2>2
  <2> QED
    BY <1>4, <2>1, <2>2
<1> QED
  BY <1>3, <1>4 DEF Uses, Stored

LEMMA UsesKept ==
  ASSUME TypeOK, HistoryOK, Identities, Uses, [Next]_vars
  PROVE  Uses'
<1>a. store \in Entries
  BY DEF TypeOK, Entries
<1>b. \A r \in Reqs : sess[r].id \in Ids \cup {NoId}
  BY DEF TypeOK
<1>1. CASE Tick \/ UNCHANGED vars
  <2>1. UNCHANGED <<conf, store, issued, used>>
    BY <1>1, Zenon DEF Tick, vars, server, request, history
  <2> QED
    BY <2>1 DEF Uses, Stored
<1>2. CASE IssueFlat
  <2>1. PICK data \in SUBSET (Keys \ {User}) :
          LET c == [id |-> NoId, data |-> data, exp |-> clock + TTL] IN issued' = {c} /\ guest' = {c}
    BY <1>2, Zenon DEF IssueFlat
  <2>2. /\ conf.strategy = "JWT" /\ used' = [used EXCEPT ![NoId] = clock]
        /\ UNCHANGED <<conf, store>>
    BY <1>2, Zenon DEF IssueFlat, server
  <2>3. \A c \in issued' : c.id = NoId /\ c.exp = clock + TTL
    BY <2>1
  <2> QED
    BY <2>2, <2>3, UseNow
<1>3. ASSUME NEW r \in Reqs, Load(r) PROVE Uses'
  <2>1. PICK c, s : Opening(r, c, s)
    BY <1>3, Loads DEF Identities
  <2>2. /\ s \in Session /\ used' = [used EXCEPT ![s.id] = clock]
        /\ UNCHANGED <<conf, issued>>
        /\ store' = store \/ store' = [store EXCEPT ![c.id] = Absent]
    BY <2>1 DEF Opening
  <2>3. \A j \in Ids : store'[j] = store[j] \/ store'[j] = Absent
    BY <1>a, <2>2 DEF Entries
  <2>4. s.id \in Ids \cup {NoId}
    BY <2>2 DEF Session
  <2> QED
    BY <2>2, <2>3, <2>4, UseNow
<1>4. ASSUME NEW r \in Reqs, PersistRegenerated(r) PROVE Uses'
  <2>1. store' = [store EXCEPT ![sess[r].id] = Absent] /\ UNCHANGED <<conf, issued, used>>
    BY <1>4, Zenon DEF PersistRegenerated, Dropped
  <2>2. \A j \in Ids : store'[j] = store[j] \/ store'[j] = Absent
    BY <1>a, <2>1 DEF Entries
  <2>3. TTL \in Nat /\ \A j \in Ids : used[j] \in Nat
    BY Numbers DEF HistoryOK
  <2>4. \A j \in Ids : Absent.expires <= used[j] + TTL
    BY <2>3 DEF Absent
  <2> QED
    BY <2>1, <2>2, <2>4 DEF Uses, Stored
<1>5. ASSUME NEW r \in Reqs, Finishing(r), ~Persist(r) PROVE Uses'
  <2>1. /\ \E promises : Finish(r, promises)
        /\ UNCHANGED <<conf, issued>>
        /\ store' = store \/ store' = [store EXCEPT ![sess[r].id] = Absent]
    BY <1>5, Zenon DEF Finishing, Throw, PersistDestroyed, PersistNothing, server, Dropped
  <2>2. used' = [used EXCEPT ![sess[r].id] = clock]
    BY <2>1, Zenon DEF Finish
  <2>3. \A j \in Ids : store'[j] = store[j] \/ store'[j] = Absent
    BY <1>a, <2>1 DEF Entries
  <2> QED
    BY <1>b, <2>1, <2>2, <2>3, UseNow
<1>6. ASSUME NEW r \in Reqs, Persist(r) PROVE Uses'
  <2>1. PICK s, c :
          /\ s \in ToPersist(r) /\ c = Sealed(s)
          /\ store' = IF conf.strategy = "ServerStore" THEN Saved(s.id, s.data) ELSE store
          /\ issued' = issued \cup {c}
          /\ Finish(r, {Promise(c, s.data)})
          /\ UNCHANGED conf
    BY <1>6, Zenon DEF Persist
  <2>2. s \in Session /\ phase[r] \in {"handler", "save"} /\ s.id = sess[r].id
    BY <2>1, Ready DEF Became
  <2>3. s.id \in Ids \cup {NoId} /\ s.data \in SUBSET Keys /\ r \in Active
    BY <2>2 DEF Session, Active
  <2>4. used' = [used EXCEPT ![s.id] = clock]
    BY <2>1, <2>2 DEF Finish
  <2>5. conf.strategy = "JWT" => c.id = s.id /\ c.exp = clock + TTL
    BY <2>1, <2>2, SealedCredential
  <2>6. ASSUME Stored
        PROVE  \A j \in Ids : \/ store'[j] = store[j] \/ store'[j] = Absent
                              \/ j = s.id /\ store'[j].expires = clock + TTL
    <3>1. store' = Saved(s.id, s.data) /\ s.id \in Ids
      BY <2>1, <2>2, <2>3, <2>6 DEF Identities, Stored
    <3>2. Saved(s.id, s.data)[s.id] = [data |-> s.data, expires |-> clock + TTL]
      BY <2>3, <3>1, SavedEntry
    <3>3. \A j \in Ids \ {s.id} : \/ Saved(s.id, s.data)[j] = store[j]
                                  \/ Saved(s.id, s.data)[j] = Absent
      BY <2>3, <3>1, SavedEntry
    <3> QED
      BY <3>1, <3>2, <3>3
  <2> QED
    BY <2>1, <2>3, <2>4, <2>5, <2>6, UseNow
<1> QED
  BY <1>1, <1>2, <1>3, <1>4, <1>5, <1>6 DEF Next, Finishing

-----------------------------------------------------------------------------
(* What follows.                                                           *)

Inv == TypeOK /\ HistoryOK /\ Identities /\ Guests /\ Promises /\ Ends /\ Uses

LEMMA Initially == Init => Inv
<1> SUFFICES ASSUME Init PROVE Inv
  OBVIOUS
<1>1. TTL \in Nat \ {0} /\ MaxClock \in Nat
  BY SessionsAssumption DEF SessionsAssumption
<1>2. /\ NoSession \in Session /\ Absent \in [data : SUBSET Keys, expires : 0 .. MaxClock + TTL]
      /\ Absent.data = {} /\ Absent.expires = 0
  BY <1>1 DEF NoSession, Session, Absent
<1>3. Active = {}
  BY DEF Init, Active
<1>4. TypeOK
  BY <1>1, <1>2 DEF Init, TypeOK, Session
<1>5. HistoryOK
  BY <1>1 DEF Init, HistoryOK
<1>6. Identities
  BY <1>3 DEF Init, Identities
<1>7. Guests /\ Ends /\ Promises
  BY <1>3 DEF Init, Guests, Ends, Promises
<1>8. Uses
  BY <1>1, <1>2 DEF Init, Uses
<1> QED
  BY <1>4, <1>5, <1>6, <1>7, <1>8 DEF Inv

LEMMA Invariant == Spec => []Inv
<1>1. Inv /\ [Next]_vars => Inv'
  BY TypesKept, IdentitiesKept, GuestsKept, PromisesKept, EndsKept, UsesKept DEF Inv
<1> QED
  BY Initially, <1>1, PTL DEF Spec

(* Every variable keeps its type, whatever credentials requests bring and  *)
(* however their handlers overlap: sessions stay sessions through every    *)
(* call, and nothing is destroyed that was never given out.                *)
THEOREM TypeCorrect == Spec => []TypeOK
<1>1. Inv => TypeOK
  BY DEF Inv
<1> QED
  BY <1>1, Invariant, PTL

(* regenerate() prevents session fixation, with any strategy of the        *)
(* middleware and however requests overlap: a credential given out to a    *)
(* guest never opens a session that somebody has logged in to.             *)
THEOREM NobodyIsFixated == Spec => []NoFixation
<1>1. Inv => NoFixation
  BY DEF Inv, Guests, NoFixation, DataOf, Stored
<1> QED
  BY <1>1, Invariant, PTL

(* What middleware and store leave of a session is what the next request   *)
(* finds of it until its ttl is over, unless requests overlapped on it; a  *)
(* session of the store that was destroyed or replaced never comes back,   *)
(* while one in a JWT or a SignedCookie stays open to copies of these; and *)
(* no credential of the store or a JWT is good for longer than a ttl after *)
(* its last use.                                                           *)
THEOREM PromisesAreKept == Spec => []KeptPromises
<1>1. Inv => KeptPromises
  <2> SUFFICES ASSUME Inv PROVE KeptPromises
    OBVIOUS
  <2>a. TypeOK /\ HistoryOK /\ Identities
    BY DEF Inv
  <2>1. \A p \in kept : clock < p.until => Opens(p.cred) /\ DataOf(p.cred) = p.data
    BY GoodOpens DEF Inv, HistoryOK, Promises
  <2>2. ASSUME Stored, NEW c \in gone PROVE ~Opens(c)
    <3>1. c.id \in Ids /\ store[c.id].expires <= clock
      BY <2>2 DEF Inv, Ends, TypeOK, Identities, Credential
    <3>2. ~Live(c.id)
      BY <2>a, <3>1, Numbers DEF Live
    <3> QED
      BY <2>2, <3>2 DEF Opens, Stored
  <2>4. conf.strategy \in Strategies
    BY <2>a, SessionsAssumption DEF TypeOK, SessionsAssumption, Options
  <2>5. ASSUME NEW c \in gone PROVE Opens(c) <=> OutlivesItsEnd(c)
    <3>1. c \in Credential
      BY <2>a DEF TypeOK
    <3>2. c \notin {NoCred, BadCred}
      BY <3>1, CredentialAssumption
    <3>3. CASE Stored
      BY <2>2, <3>3 DEF OutlivesItsEnd, Stored
    <3>4. CASE conf.strategy = "SignedCookie"
      BY <3>2, <3>4 DEF OutlivesItsEnd, Opens
    <3>5. CASE conf.strategy = "JWT"
      BY <3>2, <3>5 DEF OutlivesItsEnd, Opens
    <3> QED
      BY <2>4, <3>3, <3>4, <3>5 DEF Strategies, Stored
  <2>3. ASSUME conf.strategy # "SignedCookie", NEW c \in issued, Opens(c) PROVE clock < used[c.id] + TTL
    <3>1. c \in Credential /\ used[c.id] \in Nat /\ TTL \in Nat /\ clock \in Nat
      BY <2>a, Numbers DEF TypeOK, HistoryOK, Credential
    <3>2. CASE Stored
      <4>1. c.id \in Ids /\ clock < store[c.id].expires
        BY <2>a, <2>3, <3>1, <3>2 DEF Identities, Opens, Live, Stored, Credential
      <4>2. store[c.id].expires \in Nat /\ store[c.id].expires <= used[c.id] + TTL
        BY <2>a, <3>2, <4>1, Numbers DEF Inv, Uses
      <4> QED
        BY <3>1, <4>1, <4>2
    <3>3. CASE conf.strategy = "JWT"
      <4>1. c.exp \in Nat /\ clock < c.exp /\ c.exp <= used[c.id] + TTL
        BY <2>a, <2>3, <3>1, <3>3, Numbers DEF Inv, Uses, Opens, Credential
      <4> QED
        BY <3>1, <4>1
    <3> QED
      BY <2>3, <2>4, <3>2, <3>3 DEF Strategies, Stored
  <2> QED
    BY <2>1, <2>3, <2>5 DEF KeptPromises
<1> QED
  BY <1>1, Invariant, PTL

=============================================================================
