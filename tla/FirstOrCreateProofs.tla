-------------------------- MODULE FirstOrCreateProofs --------------------------
(***************************************************************************)
(* Proof that first_or_create inserts no row beside one that was there     *)
(* when it was called, for any threads, pools, keys and calls, and any     *)
(* number of failures.                                                     *)
(***************************************************************************)
EXTENDS DatabaseProofs

-----------------------------------------------------------------------------
(* first_or_create: what it knows of the rows that were there.             *)

Waiting(s) == s.pc \in {"acquire", "asleep", "stmt"}

(* The thread has a number for a row, and may insert it.                   *)
MayInsert(s) == Heads(s, {"orCreate", "orUpdate"}) \/ (Waiting(s) /\ s.want.op = "insert")

Creating(s) == s.prog.call = "firstOrCreate"

(* It has looked for a row, and found none.                                *)
Missed(s) ==
  /\ Creating(s)
  /\ \/ s.pc \in {"app", "release"} /\ ~s.err /\ s.res = {} /\ Heads(s, {"orCreate"})
     \/ Waiting(s) /\ s.want.op = "insert"

CreatesRight(s) ==
  /\ Creating(s) =>
       /\ s.prog.body \in {<<>>, <<<<"orCreate">>>>, <<<<"again">>>>} /\ s.prog.own = FALSE
       /\ s.want.op \in {"select", "insert"}
       /\ s.want.id = 0 /\ s.want.given = None /\ s.want.db \in Dbs
       /\ s.pc \in {"app", "acquire", "asleep", "stmt", "release"}
       /\ Heads(s, {"orCreate"}) => s.want.op = "select"
  /\ Waiting(s) /\ s.want.op = "insert" => ~Heads(s, {"orCreate", "orUpdate"})
  /\ s.pc = "stmt" /\ s.tls = None => DbOf[s.eng] = s.want.db

CallsRight == \A t \in Threads : CreatesRight(th[t])

(* What is committed in a database, and what is written in it and not yet. *)
Copies(d) == {store[d]} \cup {conn[e].wrote : e \in {f \in Engines : DbOf[f] = d /\ conn[f].wrote # None}}

IdsOf(w) == {r.id : r \in w.rows}

RowIds(d) == UNION {IdsOf(w) : w \in Copies(d)}

(* The numbers of rows are drawn once, and each is for one database.       *)
RowsNumbered ==
  /\ \A d \in Dbs : RowIds(d) \subseteq 0 .. calls
  /\ \A c, d \in Dbs : RowIds(c) \cap RowIds(d) # {} => c = d
  /\ \A t \in Threads : th[t].known \subseteq 0 .. calls
  /\ \A t \in Threads : MayInsert(th[t]) =>
       /\ th[t].want.n \in 0 .. calls
       /\ \A d \in Dbs : th[t].want.n \notin RowIds(d)
       /\ \A u \in Threads : th[t].want.n \notin th[u].known
  /\ \A t, u \in Threads :
       MayInsert(th[t]) /\ MayInsert(th[u]) /\ th[t].want.n = th[u].want.n => t = u

(* The database that a thread's statements go to, and what they see there. *)
Goal(s) == IF s.tls = None THEN s.want.db ELSE DbOf[s.tls]
View(s) == IF s.tls = None THEN store[s.want.db] ELSE Sees(s.tls)

(* The rows of w that a call knew, and that have the key it asks for.      *)
Known(s, w) == {r.id : r \in {r \in w.rows : r.id \in s.known /\ (s.want.key = None \/ r.key = s.want.key)}}

(* A row that it knew and that it does not see, is gone for good.          *)
GoneStays ==
  \A t \in Threads : Creating(th[t]) =>
    \A w \in Copies(Goal(th[t])) : Known(th[t], w) \subseteq Known(th[t], View(th[t]))

NoneMissed == \A t \in Threads : Missed(th[t]) => Known(th[t], View(th[t])) = {}

(* What a step leaves of the thread that takes it: it goes on with its     *)
(* call, or begins one that draws a number.                                *)
GoesOn(s, r) ==
  /\ CreatesRight(r) /\ r.known \subseteq s.known
  /\ MayInsert(r) => MayInsert(s) /\ r.want.n = s.want.n
  /\ Creating(r) => /\ Creating(s) /\ r.known = s.known /\ r.tls = s.tls
                    /\ r.want.key = s.want.key /\ r.want.db = s.want.db
  /\ Missed(r) => Missed(s) \/ Known(s, View(s)) = {}

Draws(t, r) ==
  /\ CreatesRight(r) /\ r.want.n = calls + 1 /\ ~Missed(r) /\ r.tls = th[t].tls /\ r.want.db \in Dbs
  /\ ~Creating(r) => r.known \subseteq th[t].known
  /\ Creating(r) => r.known = {x.id : x \in {x \in Sight(t, r.want.db).rows : x.key = r.want.key}}

LEMMA NoneCalls ==
  None # "firstOrCreate"
BY DatabaseAssumption DEF DatabaseAssumption, AllOps

(* A thread that is not in first_or_create, and has no number for a row.   *)
Plainly(s) == ~Creating(s) /\ ~MayInsert(s)

LEMMA PlainGoesOn ==
  ASSUME NEW s, NEW r, Plainly(r), r.known \subseteq s.known, r.pc = "stmt" => r.tls # None
  PROVE  GoesOn(s, r)
<1>1. ~Missed(r)
  BY DEF Missed, Plainly
<1>2. CreatesRight(r)
  BY DEF CreatesRight, Plainly, MayInsert
<1> QED
  BY <1>1, <1>2 DEF GoesOn, Plainly

(* A statement that is no insert, of another call. *)
LEMMA IssueGoesOn ==
  ASSUME NEW p, NEW t, NEW s \in Thread, NEW q \in Stmts, NEW r, r = Issue(t, q, s), q.op # "insert",
         ~Heads(s, {"orCreate", "orUpdate"}), ~Creating(s), s.known \subseteq p.known
  PROVE  GoesOn(p, r)
<1>1. Issued(s, q, r)
  BY IssueFields
<1>2. r.want = q /\ r.prog = s.prog /\ r.known = s.known /\ r.tls = s.tls
      /\ (s.tls = None => r.pc = "acquire")
  BY <1>1 DEF Issued
<1>3. ~Heads(r, {"orCreate", "orUpdate"})
  BY <1>2 DEF Heads
<1>4. Plainly(r)
  BY <1>2, <1>3 DEF Plainly, Creating, MayInsert
<1> QED
  BY <1>2, <1>4, PlainGoesOn

LEMMA BeginGoesOn ==
  ASSUME NEW p, NEW s \in Thread, NEW q \in Stmts, NEW r, r = Begin(q, s),
         ~Heads(s, {"orCreate", "orUpdate"}), ~Creating(s), s.known \subseteq p.known
  PROVE  GoesOn(p, r)
<1>1. Begun(s, q, r)
  BY BeginFields
<1>2. r.want.op = "begin" /\ r.prog = s.prog /\ r.known = s.known /\ r.pc = "acquire"
  BY <1>1 DEF Begun
<1>3. ~Heads(r, {"orCreate", "orUpdate"})
  BY <1>2 DEF Heads
<1>4. Plainly(r)
  BY <1>2, <1>3 DEF Plainly, Creating, MayInsert
<1> QED
  BY <1>2, <1>4, PlainGoesOn

(* What ends a call, and what does not.                                    *)
LEMMA SettleGoesOn ==
  ASSUME NEW p, NEW s \in Thread, NEW r, r = Settle(s) \/ r = s, s.pc = "app",
         ~Heads(s, {"orCreate", "orUpdate"}), s.known \subseteq p.known,
         ~Creating(s) \/ (r = Settle(s) /\ s.prog.body = <<>> /\ s.prog.own = FALSE)
  PROVE  GoesOn(p, r)
<1>1. Settled(s, Settle(s))
  BY SettleFields
<1>2. CASE r = s
  <2>1. CASE ~Creating(s)
    <3>1. Plainly(r)
      BY <1>2, <2>1 DEF Plainly, MayInsert, Waiting
    <3> QED
      BY <1>2, <3>1, PlainGoesOn
  <2>2. CASE Creating(s)
    <3>1. Settles(s)
      BY <2>2 DEF Settles
    <3>2. r.prog = NoProg
      BY <1>1, <2>2, <3>1 DEF Settled
    <3> QED
      BY <1>2, <2>2, <3>2, NoProgIs, NoneCalls DEF Creating
  <2> QED
    BY <2>1, <2>2
<1>3. CASE r = Settle(s)
  <2>1. CASE Settles(s)
    <3>1. r.prog = NoProg /\ r.known = {} /\ r.pc = "app"
      BY <1>1, <1>3, <2>1 DEF Settled
    <3>2. Plainly(r)
      BY <3>1, NoProgIs, NoneCalls DEF Plainly, Creating, MayInsert, Waiting, Heads
    <3> QED
      BY <3>1, <3>2, PlainGoesOn
  <2>2. CASE ~Settles(s)
    <3>1. r = s /\ ~Creating(s)
      BY <1>1, <1>3, <2>2 DEF Settled, Settles
    <3> QED
      BY <1>2, <3>1
  <2> QED
    BY <2>1, <2>2
<1> QED
  BY <1>2, <1>3

-----------------------------------------------------------------------------
(* The moves of the application, again one by one.                         *)

LEMMA AtWord ==
  ASSUME Types, NEW t \in Threads, NEW w, At(t, w)
  PROVE  /\ th[t] \in Thread /\ th[t].pc = "app" /\ ~th[t].err /\ th[t].prog.body # <<>>
         /\ th[t].prog.body \in Seq(Items) /\ th[t].prog.body[1][1] = w
         /\ \A W : Heads(th[t], W) <=> w \in W
<1>1. th[t] \in Thread /\ th[t].prog.body \in Seq(Items)
  BY DEF Types, Thread, Progs
<1>2. th[t].pc = "app" /\ ~th[t].err /\ th[t].prog.body # <<>> /\ th[t].prog.body[1][1] = w
  BY <1>1 DEF At
<1> QED
  BY <1>1, <1>2 DEF Heads

LEMMA NotCreating ==
  ASSUME Types, CallsRight, NEW t \in Threads, NEW w, At(t, w), w \notin {"orCreate", "again"}
  PROVE  ~Creating(th[t])
<1>1. th[t].prog.body # <<>> /\ th[t].prog.body[1][1] = w
  BY AtWord
<1>2. CreatesRight(th[t])
  BY DEF CallsRight
<1>3. Creating(th[t]) => th[t].prog.body \in {<<<<"orCreate">>>>, <<<<"again">>>>}
  BY <1>1, <1>2 DEF CreatesRight
<1> QED
  BY <1>1, <1>3

LEMMA CalledIs ==
  ASSUME Types, NEW t \in Threads, NEW x, Call(t, x)
  PROVE  /\ th[t] \in Thread /\ th[t].prog = NoProg /\ th[t].pc = "app"
         /\ ~Creating(th[t]) /\ (\A W : ~Heads(th[t], W)) /\ calls' = calls + 1 /\ calls + 1 \in Nat
<1>1. th[t].prog = NoProg /\ th[t].pc = "app" /\ calls' = calls + 1
  BY DEF Call
<1>2. th[t] \in Thread /\ calls \in Nat
  BY Constants DEF Types
<1> QED
  BY <1>1, <1>2, NoProgIs, NoneCalls DEF Creating, Heads

(* A call that starts with a statement that is no insert, and is no        *)
(* first_or_create or update_or_create.                                    *)
LEMMA StartGoesOn ==
  ASSUME NEW t, NEW s \in Thread, NEW x \in AllOps \ {"firstOrCreate"}, NEW p,
         NEW body \in Seq(Items), body # <<>>, body[1][1] \notin {"orCreate", "orUpdate"},
         p = Start(s, x, body)
  PROVE  /\ p \in Thread /\ ~Heads(p, {"orCreate", "orUpdate"}) /\ ~Creating(p) /\ p.known = s.known
         /\ p.rec = s.rec
<1>1. Started(s, x, body, p)
  BY StartFields
<1>2. p \in Thread /\ p.prog.body = body /\ p.prog.call = x /\ p.known = s.known /\ p.rec = s.rec
  BY <1>1 DEF Started
<1> QED
  BY <1>2 DEF Heads, Creating

LEMMA ExecGoesOn ==
  ASSUME Types, NEW t \in Threads, Exec(t)
  PROVE  GoesOn(th[t], th'[t])
<1>1. PICK d \in Dbs :
        th' = [th EXCEPT ![t] = Issue(t, [NoStmt EXCEPT !.op = "log", !.db = d, !.n = calls + 1], th[t])]
  BY Zenon DEF Exec
<1>2. PICK q : q = [NoStmt EXCEPT !.op = "log", !.db = d, !.n = calls + 1]
  OBVIOUS
<1>3. Call(t, "exec")
  BY DEF Exec
<1>4. q \in Stmts /\ q.op = "log"
  BY <1>2, <1>3, CalledIs, Asks DEF Stmts, StmtOps
<1>5. th'[t] = Issue(t, q, th[t])
  BY <1>1, <1>2 DEF Types
<1> QED
  BY <1>3, <1>4, <1>5, CalledIs, IssueGoesOn

(* A call that is over at once. *)
LEMMA AtHomeGoesOn ==
  ASSUME NEW s, NEW r, r.prog = NoProg, r.pc = "app", r.known = s.known
  PROVE  GoesOn(s, r)
<1>1. Plainly(r)
  BY NoProgIs, NoneCalls DEF Plainly, Creating, MayInsert, Waiting, Heads
<1> QED
  BY <1>1, PlainGoesOn

LEMMA DestroyGoesOn ==
  ASSUME Types, ThreadsRight, NEW t \in Threads, Destroy(t)
  PROVE  GoesOn(th[t], th'[t])
<1>1. Call(t, "destroy") /\ th[t].rec \in Recs
  BY DEF Destroy, Types, Thread
<1>2. CASE th[t].rec.text
  <2>1. th' = th
    BY <1>2, Zenon DEF Destroy
  <2> QED
    BY <1>1, <2>1, CalledIs, AtHomeGoesOn
<1>3. CASE ~th[t].rec.text
  <2>1. PICK q : /\ q = [NoStmt EXCEPT !.op = "delete", !.db = th[t].rec.db, !.id = th[t].rec.id]
                 /\ th' = [th EXCEPT ![t] = Issue(t, q, th[t])]
    BY <1>3, Zenon DEF Destroy
  <2>2. q \in Stmts /\ q.op = "delete"
    BY <1>1, <2>1, Asks DEF Stmts, StmtOps, Recs
  <2>3. th'[t] = Issue(t, q, th[t])
    BY <2>1 DEF Types
  <2> QED
    BY <1>1, <2>2, <2>3, CalledIs, IssueGoesOn
<1> QED
  BY <1>2, <1>3

LEMMA TransactionGoesOn ==
  ASSUME Types, NEW t \in Threads, Transaction(t)
  PROVE  GoesOn(th[t], th'[t])
<1>1. PICK d \in Dbs : th' = [th EXCEPT ![t] = Begin([NoStmt EXCEPT !.db = d], th[t])]
  BY Zenon DEF Transaction
<1>2. PICK q : q = [NoStmt EXCEPT !.db = d]
  OBVIOUS
<1>3. Call(t, "transaction")
  BY DEF Transaction
<1>4. q \in Stmts
  BY <1>2, Asks DEF Stmts
<1>5. th'[t] = Begin(q, th[t])
  BY <1>1, <1>2 DEF Types
<1> QED
  BY <1>3, <1>4, <1>5, CalledIs, BeginGoesOn

LEMMA MigrateGoesOn ==
  ASSUME Types, NEW t \in Threads, Migrate(t)
  PROVE  GoesOn(th[t], th'[t])
<1> DEFINE body == <<<<"applied">>, <<"missing">>>>
<1>1. PICK d \in Migrated :
        th' = [th EXCEPT ![t] = Issue(t, [NoStmt EXCEPT !.op = "table", !.db = d], Start(th[t], "migrate", body))]
  BY Zenon DEF Migrate
<1>2. PICK q, p : q = [NoStmt EXCEPT !.op = "table", !.db = d] /\ p = Start(th[t], "migrate", body)
  OBVIOUS
<1>3. Call(t, "migrate") /\ d \in Dbs /\ "migrate" \in AllOps \ {"firstOrCreate"}
  BY Constants DEF Migrate, AllOps
<1>4. q \in Stmts /\ q.op = "table"
  BY <1>2, <1>3, Asks DEF Stmts, StmtOps
<1>5. body \in Seq(Items) /\ body # <<>> /\ body[1][1] \notin {"orCreate", "orUpdate"}
  BY MigrateChain
<1>6. th'[t] = Issue(t, q, p)
  BY <1>1, <1>2 DEF Types
<1> HIDE DEF body
<1>7. p \in Thread /\ ~Heads(p, {"orCreate", "orUpdate"}) /\ ~Creating(p) /\ p.known = th[t].known
  BY <1>2, <1>3, <1>5, CalledIs, StartGoesOn
<1> QED
  BY <1>4, <1>6, <1>7, IssueGoesOn

LEMMA RollbackLastGoesOn ==
  ASSUME Types, NEW t \in Threads, RollbackLast(t)
  PROVE  GoesOn(th[t], th'[t])
<1> DEFINE body == <<<<"undo">>>>
<1>1. PICK d \in Migrated :
        th' = [th EXCEPT ![t] = Issue(t, [NoStmt EXCEPT !.op = "last", !.db = d], Start(th[t], "rollbackLast", body))]
  BY Zenon DEF RollbackLast
<1>2. PICK q, p : q = [NoStmt EXCEPT !.op = "last", !.db = d] /\ p = Start(th[t], "rollbackLast", body)
  OBVIOUS
<1>3. Call(t, "rollbackLast") /\ d \in Dbs /\ "rollbackLast" \in AllOps \ {"firstOrCreate"}
  BY Constants DEF RollbackLast, AllOps
<1>4. q \in Stmts /\ q.op = "last"
  BY <1>2, <1>3, Asks DEF Stmts, StmtOps
<1>5. body \in Seq(Items) /\ body # <<>> /\ body[1][1] \notin {"orCreate", "orUpdate"}
  BY SingleChain DEF Words
<1>6. th'[t] = Issue(t, q, p)
  BY <1>1, <1>2 DEF Types
<1> HIDE DEF body
<1>7. p \in Thread /\ ~Heads(p, {"orCreate", "orUpdate"}) /\ ~Creating(p) /\ p.known = th[t].known
  BY <1>2, <1>3, <1>5, CalledIs, StartGoesOn
<1> QED
  BY <1>4, <1>6, <1>7, IssueGoesOn

LEMMA LoadGoesOn ==
  ASSUME Types, NEW t \in Threads, Load(t)
  PROVE  GoesOn(th[t], th'[t])
<1> DEFINE body == <<<<"loaded">>>>
<1>1. PICK d \in Migrated, k \in Keys :
        th' = [th EXCEPT ![t] = Issue(t, Select(d, k), Start(th[t], "load", body))]
  BY Zenon DEF Load
<1>2. PICK q, p : q = Select(d, k) /\ p = Start(th[t], "load", body)
  OBVIOUS
<1>3. Call(t, "load") /\ d \in Dbs /\ "load" \in AllOps \ {"firstOrCreate"}
  BY Constants DEF Load, AllOps
<1>4. q \in Stmts /\ q.op = "select"
  BY <1>2, <1>3, CalledIs, SelectAsks
<1>5. body \in Seq(Items) /\ body # <<>> /\ body[1][1] \notin {"orCreate", "orUpdate"}
  BY SingleChain DEF Words
<1>6. th'[t] = Issue(t, q, p)
  BY <1>1, <1>2 DEF Types
<1> HIDE DEF body
<1>7. p \in Thread /\ ~Heads(p, {"orCreate", "orUpdate"}) /\ ~Creating(p) /\ p.known = th[t].known
  BY <1>2, <1>3, <1>5, CalledIs, StartGoesOn
<1> QED
  BY <1>4, <1>6, <1>7, IssueGoesOn

LEMMA SaveGoesOn ==
  ASSUME Types, ThreadsRight, NEW t \in Threads, Save(t)
  PROVE  GoesOn(th[t], th'[t])
<1> DEFINE body == <<<<"saved">>>>
<1>1. PICK cols \in SUBSET Columns :
        th' = [th EXCEPT ![t] =
             IF Changed(th[t].rec, cols, calls + 1).text THEN [th[t] EXCEPT !.rec = Changed(th[t].rec, cols, calls + 1)]
             ELSE Issue(t, Update(Changed(th[t].rec, cols, calls + 1)),
                        [Start(th[t], "save", body) EXCEPT !.rec = Changed(th[t].rec, cols, calls + 1)])]
  BY Zenon DEF Save
<1>2. PICK c : c = Changed(th[t].rec, cols, calls + 1)
  OBVIOUS
<1>3. th' = [th EXCEPT ![t] =
             IF c.text THEN [th[t] EXCEPT !.rec = c]
             ELSE Issue(t, Update(c), [Start(th[t], "save", body) EXCEPT !.rec = c])]
  BY <1>1, <1>2, Zenon
<1>4. Call(t, "save") /\ th[t].rec.id # 0
  BY DEF Save
<1>5. /\ th[t] \in Thread /\ th[t].rec \in Recs /\ RecRight(th[t].rec) /\ calls + 1 \in Nat
      /\ th[t].prog = NoProg /\ th[t].pc = "app"
  BY <1>4, CalledIs DEF Thread, ThreadsRight, ThreadRight, PlanRight
<1>6. c \in Recs /\ RecRight(c) /\ c.id # 0
  BY <1>2, <1>4, <1>5, ChangedRight
<1>7. CASE c.text
  <2>1. PICK r : r = [th[t] EXCEPT !.rec = c] /\ th' = [th EXCEPT ![t] = r]
    BY <1>3, <1>7, Zenon
  <2>2. r.prog = NoProg /\ r.pc = "app" /\ r.known = th[t].known
    BY <1>5, <2>1 DEF Thread
  <2>3. th'[t] = r
    BY <2>1 DEF Types
  <2> QED
    BY <2>2, <2>3, AtHomeGoesOn
<1>8. CASE ~c.text
  <2>1. PICK q, p, s : q = Update(c) /\ p = Start(th[t], "save", body) /\ s = [p EXCEPT !.rec = c]
    OBVIOUS
  <2>2. q \in Stmts /\ q.op = "update"
    BY <1>6, <2>1, UpdateRight
  <2>3. body \in Seq(Items) /\ body # <<>> /\ body[1][1] \notin {"orCreate", "orUpdate"}
    BY SingleChain DEF Words
  <2>4. th' = [th EXCEPT ![t] = Issue(t, q, s)]
    BY <1>3, <1>8, <2>1, Zenon
  <2>5. th'[t] = Issue(t, q, s)
    BY <2>4 DEF Types
  <2> HIDE DEF body
  <2>6. "save" \in AllOps \ {"firstOrCreate"}
    BY DEF AllOps
  <2>7. p \in Thread /\ ~Heads(p, {"orCreate", "orUpdate"}) /\ ~Creating(p) /\ p.known = th[t].known
    BY <1>5, <2>1, <2>3, <2>6, StartGoesOn
  <2>8. s \in Thread /\ s.prog = p.prog /\ s.known = p.known
    BY <1>6, <2>1, <2>7 DEF Thread
  <2>9. ~Heads(s, {"orCreate", "orUpdate"}) /\ ~Creating(s)
    BY <2>7, <2>8 DEF Heads, Creating
  <2> QED
    BY <2>2, <2>5, <2>7, <2>8, <2>9, IssueGoesOn
<1> QED
  BY <1>7, <1>8

(* A call that draws a number for a row. *)
LEMMA DrawnSelect ==
  ASSUME Types, NEW d \in Dbs, NEW k \in Keys, calls + 1 \in Nat
  PROVE  /\ Select(d, k) \in Stmts /\ Select(d, k).op = "select"
         /\ Select(d, k).db = d /\ Select(d, k).key = k /\ Select(d, k).n = calls + 1
         /\ Select(d, k).id = 0 /\ Select(d, k).given = None
<1>1. PICK q : q = Select(d, k)
  OBVIOUS
<1>2. q \in Stmts /\ q.op = "select" /\ q.db = d
  BY <1>1, SelectAsks
<1>3. q = [NoStmt EXCEPT !.op = "select", !.db = d, !.key = k, !.n = calls + 1]
  BY <1>1 DEF Select
<1>4. q.key = k /\ q.n = calls + 1 /\ q.id = 0 /\ q.given = None
  BY <1>3 DEF NoStmt
<1> QED
  BY <1>1, <1>2, <1>4

LEMMA FirstOrCreateDraws ==
  ASSUME Types, NEW t \in Threads, FirstOrCreate(t)
  PROVE  Draws(t, th'[t])
<1> DEFINE body == <<<<"orCreate">>>>
           Ids(d, k) == {r.id : r \in {r \in Sight(t, d).rows : r.key = k}}
<1>1. PICK d \in Migrated, k \in Keys :
        th' = [th EXCEPT ![t] = Issue(t, Select(d, k),
                 [Start(th[t], "firstOrCreate", body) EXCEPT !.known = Ids(d, k)])]
  BY Zenon DEF FirstOrCreate
<1>2. Call(t, "firstOrCreate") /\ d \in Dbs /\ "firstOrCreate" \in AllOps
  BY Constants DEF FirstOrCreate, AllOps
<1>3. PICK ids \in SUBSET Nat : ids = Ids(d, k)
  <2>1. Ids(d, k) \subseteq Nat
    BY <1>2, SightRows
  <2> QED
    BY <2>1
<1>4. ids = {r.id : r \in {r \in Sight(t, d).rows : r.key = k}}
  BY <1>3
<1> HIDE DEF Ids
<1>5. PICK q, p, s, r : /\ q = Select(d, k) /\ p = Start(th[t], "firstOrCreate", body)
                        /\ s = [p EXCEPT !.known = ids] /\ r = Issue(t, q, s)
  OBVIOUS
<1>6. th'[t] = r
  BY <1>1, <1>3, <1>5 DEF Types
<1>7. /\ q \in Stmts /\ q.op = "select" /\ q.db = d /\ q.key = k /\ q.n = calls + 1
      /\ q.id = 0 /\ q.given = None
  BY <1>2, <1>5, CalledIs, DrawnSelect
<1>8. body \in Seq(Items)
  BY SingleChain DEF Words
<1>9. Started(th[t], "firstOrCreate", body, p)
  BY <1>2, <1>5, <1>8, CalledIs, StartFields
<1>10. /\ p \in Thread /\ p.prog.call = "firstOrCreate" /\ p.prog.body = body /\ p.prog.own = FALSE
       /\ p.tls = th[t].tls
  BY <1>9 DEF Started
<1>11. /\ s \in Thread /\ s.prog = p.prog /\ s.tls = th[t].tls /\ s.known = ids
  BY <1>5, <1>10 DEF Thread
<1>12. Issued(s, q, r)
  BY <1>5, <1>7, <1>11, IssueFields
<1>13. /\ r.want = q /\ r.prog = p.prog /\ r.tls = th[t].tls /\ r.known = ids
       /\ r.pc \in {"stmt", "acquire"} /\ (r.pc = "stmt" => r.tls # None)
  BY <1>11, <1>12 DEF Issued
<1>14. Creating(r) /\ ~Missed(r)
  BY <1>7, <1>10, <1>13 DEF Creating, Missed
<1>15. CreatesRight(r)
  BY <1>2, <1>7, <1>10, <1>13 DEF CreatesRight
<1>16. r.known = {x.id : x \in {x \in Sight(t, r.want.db).rows : x.key = r.want.key}}
  BY <1>4, <1>7, <1>13
<1> QED
  BY <1>2, <1>6, <1>7, <1>13, <1>14, <1>15, <1>16 DEF Draws

LEMMA UpdateOrCreateDraws ==
  ASSUME Types, NEW t \in Threads, UpdateOrCreate(t)
  PROVE  Draws(t, th'[t])
<1> DEFINE body == <<<<"orUpdate">>>>
<1>1. PICK d \in Migrated, k \in Keys :
        th' = [th EXCEPT ![t] = Issue(t, Select(d, k), Start(th[t], "updateOrCreate", body))]
  BY Zenon DEF UpdateOrCreate
<1>2. Call(t, "updateOrCreate") /\ d \in Dbs /\ "updateOrCreate" \in AllOps
  BY Constants DEF UpdateOrCreate, AllOps
<1>3. PICK q, p, r : q = Select(d, k) /\ p = Start(th[t], "updateOrCreate", body) /\ r = Issue(t, q, p)
  OBVIOUS
<1>4. th'[t] = r
  BY <1>1, <1>3 DEF Types
<1>5. q \in Stmts /\ q.op = "select" /\ q.db = d /\ q.n = calls + 1
  BY <1>2, <1>3, CalledIs, DrawnSelect
<1>6. body \in Seq(Items)
  BY SingleChain DEF Words
<1>7. Started(th[t], "updateOrCreate", body, p)
  BY <1>2, <1>3, <1>6, CalledIs, StartFields
<1>8. /\ p \in Thread /\ p.prog.call = "updateOrCreate" /\ p.tls = th[t].tls /\ p.known = th[t].known
  BY <1>7 DEF Started
<1>9. Issued(p, q, r)
  BY <1>3, <1>5, <1>8, IssueFields
<1>10. /\ r.want = q /\ r.prog = p.prog /\ r.tls = th[t].tls /\ r.known = th[t].known
       /\ r.pc \in {"stmt", "acquire"} /\ (r.pc = "stmt" => r.tls # None)
  BY <1>8, <1>9 DEF Issued
<1>11. ~Creating(r) /\ ~Missed(r)
  BY <1>8, <1>10 DEF Creating, Missed
<1>12. CreatesRight(r)
  BY <1>5, <1>10, <1>11 DEF CreatesRight
<1> QED
  BY <1>2, <1>4, <1>5, <1>10, <1>11, <1>12 DEF Draws

LEMMA CreateDraws ==
  ASSUME Types, NEW t \in Threads, Create(t)
  PROVE  Draws(t, th'[t])
<1> DEFINE body == <<<<"created">>>>
<1>1. PICK d \in Migrated, k \in Keys :
        th' = [th EXCEPT ![t] = Issue(t, [Select(d, k) EXCEPT !.op = "insert", !.val = Value(calls + 1)],
                                        Start(th[t], "create", body))]
  BY Zenon DEF Create
<1>2. Call(t, "create") /\ d \in Dbs /\ "create" \in AllOps
  BY Constants DEF Create, AllOps
<1>3. PICK q, p, r : /\ q = [Select(d, k) EXCEPT !.op = "insert", !.val = Value(calls + 1)]
                     /\ p = Start(th[t], "create", body) /\ r = Issue(t, q, p)
  OBVIOUS
<1>4. th'[t] = r
  BY <1>1, <1>3 DEF Types
<1>5. q \in Stmts /\ q.op = "insert" /\ q.db = d /\ q.n = calls + 1
  <2>1. PICK s \in Stmts : s = Select(d, k) /\ s.db = d /\ s.n = calls + 1
    BY <1>2, CalledIs, DrawnSelect
  <2>2. PICK v \in [Columns -> Nat] : v = Value(calls + 1)
    BY <1>2, CalledIs, SomeValues
  <2>3. q = [s EXCEPT !.op = "insert", !.val = v]
    BY <1>3, <2>1, <2>2
  <2> QED
    BY <2>1, <2>3 DEF Stmts, StmtOps
<1>6. body \in Seq(Items) /\ body[1][1] = "created"
  BY SingleChain DEF Words
<1>7. Started(th[t], "create", body, p)
  BY <1>2, <1>3, <1>6, CalledIs, StartFields
<1> HIDE DEF body
<1>8. /\ p \in Thread /\ p.prog.call = "create" /\ p.prog.body = body
      /\ p.tls = th[t].tls /\ p.known = th[t].known
  BY <1>7 DEF Started
<1>9. Issued(p, q, r)
  BY <1>3, <1>5, <1>8, IssueFields
<1>10. /\ r.want = q /\ r.prog = p.prog /\ r.tls = th[t].tls /\ r.known = th[t].known
       /\ r.pc \in {"stmt", "acquire"} /\ (r.pc = "stmt" => r.tls # None)
  BY <1>8, <1>9 DEF Issued
<1>11. ~Creating(r) /\ ~Missed(r)
  BY <1>8, <1>10 DEF Creating, Missed
<1>12. ~Heads(r, {"orCreate", "orUpdate"})
  BY <1>6, <1>8, <1>10 DEF Heads
<1>13. CreatesRight(r)
  BY <1>10, <1>11, <1>12 DEF CreatesRight
<1> QED
  BY <1>2, <1>4, <1>5, <1>10, <1>11, <1>13 DEF Draws

(* Words that another call has for its next step. *)
LEMMA SettledGoesOn ==
  ASSUME Types, ThreadsRight, CallsRight, NEW t \in Threads,
         NEW w \in Words \ {"begin", "applied", "commit", "orCreate", "again"}, At(t, w),
         NEW s, s \in Thread, s.pc = "app", s.prog.body = <<>> \/ s.prog.body[1] = <<"begin">>,
         s.prog.call = th[t].prog.call, s.known = th[t].known,
         th' = [th EXCEPT ![t] = Settle(s)] \/ th' = [th EXCEPT ![t] = s]
  PROVE  GoesOn(th[t], th'[t])
<1>1. ~Creating(th[t])
  BY NotCreating
<1>2. ~Creating(s)
  BY <1>1 DEF Creating
<1>3. ~Heads(s, {"orCreate", "orUpdate"})
  BY DEF Heads
<1>4. th'[t] = Settle(s) \/ th'[t] = s
  BY DEF Types
<1> QED
  BY <1>2, <1>3, <1>4, SettleGoesOn

LEMMA RestIs ==
  ASSUME Types, ThreadsRight, NEW t \in Threads, NEW w \in Words \ {"commit"}, At(t, w), NEW s, s = Rest(th[t])
  PROVE  /\ s \in Thread /\ s.pc = "app" /\ s.prog.body = Tail(th[t].prog.body) /\ s.prog.call = th[t].prog.call
         /\ s.prog.own = FALSE /\ s.known = th[t].known /\ s.want = th[t].want /\ s.tls = th[t].tls
         /\ s.rec = th[t].rec
<1>1. Arrived(t, w)
  BY Arrives
<1>2. Bodied(th[t], Tail(th[t].prog.body), s) /\ AtHome(t)
  BY <1>1 DEF Arrived
<1> QED
  BY <1>2 DEF Bodied, AtHome

(* A word that nothing follows. *)
LEMMA LastRest ==
  ASSUME Types, ThreadsRight, NEW t \in Threads, NEW w \in Words \ {"begin", "applied", "commit"}, At(t, w)
  PROVE  Tail(th[t].prog.body) = <<>>
<1>1. w \in Words \ {"commit"} /\ w \in Words \ {"begin", "applied"}
  OBVIOUS
<1>2. Arrived(t, w)
  BY <1>1, Arrives
<1> QED
  BY <1>1, <1>2 DEF Arrived

BlockOn(t, b, s) ==
  /\ s \in Thread /\ s.pc = th[t].pc /\ s.prog.body = b /\ s.prog.call = th[t].prog.call
  /\ s.known = th[t].known /\ (b = <<>> \/ b[1] = <<"begin">>)

LEMMA BlockIs ==
  ASSUME Types, NEW t \in Threads, NEW b \in Blocks, NEW s, s = [th[t] EXCEPT !.res = {}, !.prog.body = b]
  PROVE  BlockOn(t, b, s)
<1>1. th[t] \in Thread /\ b \in Seq(Items) /\ (b = <<>> \/ b[1] = <<"begin">>) /\ {} \in Results
  BY DEF Types, Blocks, Results
<1>2. PICK p : p = [th[t] EXCEPT !.prog.body = b]
  OBVIOUS
<1>3. Bodied(th[t], b, p)
  BY <1>1, <1>2, BodyFields
<1>4. s = [p EXCEPT !.res = {}]
  BY <1>1, <1>2 DEF Thread, Progs
<1> QED
  BY <1>1, <1>3, <1>4 DEF Bodied, Thread, BlockOn

LEMMA MissingGoesOn ==
  ASSUME Types, ThreadsRight, CallsRight, NEW t \in Threads, Missing(t)
  PROVE  GoesOn(th[t], th'[t])
<1>1. At(t, "missing")
  BY DEF Missing
<1>2. PICK b \in Blocks :
        b = FlattenSeq([i \in DOMAIN Versions |-> IF i \in th[t].res THEN <<>> ELSE TxBody("up", "record", i)])
  BY MissingBlocks
<1>3. PICK s : s = [th[t] EXCEPT !.res = {}, !.prog.body = b] /\ th' = [th EXCEPT ![t] = Settle(s)]
  BY <1>2, Zenon DEF Missing
<1>4. BlockOn(t, b, s)
  BY <1>3, BlockIs
<1>5. th[t].pc = "app"
  BY <1>1, AtWord
<1>6. "missing" \in Words \ {"begin", "applied", "commit", "orCreate", "again"}
  BY DEF Words
<1>7. /\ s \in Thread /\ s.pc = "app" /\ (s.prog.body = <<>> \/ s.prog.body[1] = <<"begin">>)
      /\ s.prog.call = th[t].prog.call /\ s.known = th[t].known
  BY <1>4, <1>5 DEF BlockOn
<1> QED
  BY <1>1, <1>3, <1>6, <1>7, SettledGoesOn

LEMMA UndoGoesOn ==
  ASSUME Types, ThreadsRight, CallsRight, NEW t \in Threads, Undo(t)
  PROVE  GoesOn(th[t], th'[t])
<1>1. At(t, "undo") /\ "undo" \in Words \ {"begin", "applied", "commit", "orCreate", "again"}
  BY DEF Undo, Words
<1>2. th[t].pc = "app"
  BY <1>1, AtWord
<1>3. CASE th' = [th EXCEPT ![t] = Settle(Rest(th[t]))]
  <2>1. PICK s : s = Rest(th[t])
    OBVIOUS
  <2>2. /\ s \in Thread /\ s.pc = "app" /\ s.prog.body = <<>>
        /\ s.prog.call = th[t].prog.call /\ s.known = th[t].known
    <3>1. "undo" \in Words \ {"commit"} /\ "undo" \in Words \ {"begin", "applied", "commit"}
      BY DEF Words
    <3>2. Tail(th[t].prog.body) = <<>>
      BY <1>1, <3>1, LastRest
    <3> QED
      BY <1>1, <2>1, <3>1, <3>2, RestIs
  <2> QED
    BY <1>1, <1>3, <2>1, <2>2, SettledGoesOn
<1>4. CASE \E i \in th[t].res :
             th' = [th EXCEPT ![t] = [th[t] EXCEPT !.res = {}, !.prog.body =
                      IF i \in NoDown THEN OnlyUnrecord(i) ELSE TxBody("down", "unrecord", i)]]
  <2>1. PICK i \in th[t].res :
             th' = [th EXCEPT ![t] = [th[t] EXCEPT !.res = {}, !.prog.body =
                      IF i \in NoDown THEN OnlyUnrecord(i) ELSE TxBody("down", "unrecord", i)]]
    BY <1>4
  <2>2. Heads(th[t], {"missing", "undo"}) /\ ~th[t].err
    BY <1>1, AtWord
  <2>3. ResultRight(th[t])
    BY DEF ThreadsRight, ThreadRight
  <2>4. i \in DOMAIN Versions
    BY <1>2, <2>2, <2>3 DEF ResultRight
  <2>5. PICK b \in Blocks : b = IF i \in NoDown THEN OnlyUnrecord(i) ELSE TxBody("down", "unrecord", i)
    BY <2>4, BlockOf, OnlyBlock
  <2>6. PICK s : s = [th[t] EXCEPT !.res = {}, !.prog.body = b] /\ th' = [th EXCEPT ![t] = s]
    BY <2>1, <2>5
  <2>7. BlockOn(t, b, s)
    BY <2>6, BlockIs
  <2>8. /\ s \in Thread /\ s.pc = "app" /\ (s.prog.body = <<>> \/ s.prog.body[1] = <<"begin">>)
        /\ s.prog.call = th[t].prog.call /\ s.known = th[t].known
    BY <1>2, <2>7 DEF BlockOn
  <2> QED
    BY <1>1, <2>6, <2>8, SettledGoesOn
<1> QED
  BY <1>3, <1>4, Zenon DEF Undo

LEMMA SavedGoesOn ==
  ASSUME Types, ThreadsRight, CallsRight, NEW t \in Threads, Saved(t)
  PROVE  GoesOn(th[t], th'[t])
<1>1. At(t, "saved") /\ "saved" \in Words \ {"begin", "applied", "commit", "orCreate", "again"}
  BY DEF Saved, Words
<1>2. PICK p : p = Rest(th[t])
  OBVIOUS
<1>3. /\ p \in Thread /\ p.pc = "app" /\ p.prog.body = <<>>
      /\ p.prog.call = th[t].prog.call /\ p.known = th[t].known
  <2>1. "saved" \in Words \ {"commit"} /\ "saved" \in Words \ {"begin", "applied", "commit"}
    BY DEF Words
  <2>2. Tail(th[t].prog.body) = <<>>
    BY <1>1, <2>1, LastRest
  <2> QED
    BY <1>1, <1>2, <2>1, <2>2, RestIs
<1>4. PICK c, s : c = [p.rec EXCEPT !.dirty = {}, !.made = {}] /\ s = [p EXCEPT !.rec = c]
  OBVIOUS
<1>7. th' = [th EXCEPT ![t] = Settle([p EXCEPT !.rec = [p.rec EXCEPT !.dirty = {}, !.made = {}]])]
  BY <1>2 DEF Saved
<1>8. th' = [th EXCEPT ![t] = Settle(s)]
  BY <1>4, <1>7
<1>5. c \in Recs /\ s = [p EXCEPT !.rec = c]
  BY <1>3, <1>4 DEF Thread, Recs
<1>6. /\ s \in Thread /\ s.pc = "app" /\ s.prog.body = <<>>
      /\ s.prog.call = th[t].prog.call /\ s.known = th[t].known
  BY <1>3, <1>5 DEF Thread
<1> QED
  BY <1>1, <1>6, <1>8, SettledGoesOn

LEMMA CreatedGoesOn ==
  ASSUME Types, ThreadsRight, CallsRight, NEW t \in Threads, Created(t)
  PROVE  GoesOn(th[t], th'[t])
<1>1. At(t, "created") /\ "created" \in Words \ {"begin", "applied", "commit", "orCreate", "again"}
  BY DEF Created, Words
<1>2. PICK p, c, s :
        /\ p = Rest(th[t])
        /\ c = [NoRec EXCEPT !.id = th[t].want.n, !.db = th[t].want.db,
                             !.val = Value(th[t].want.n), !.dirty = CreateSets, !.made = CreateSets]
        /\ s = [p EXCEPT !.rec = c] /\ th' = [th EXCEPT ![t] = Settle(s)]
  BY Zenon DEF Created
<1>3. /\ p \in Thread /\ p.pc = "app" /\ p.prog.body = <<>>
      /\ p.prog.call = th[t].prog.call /\ p.known = th[t].known
  <2>1. "created" \in Words \ {"commit"} /\ "created" \in Words \ {"begin", "applied", "commit"}
    BY DEF Words
  <2>2. Tail(th[t].prog.body) = <<>>
    BY <1>1, <2>1, LastRest
  <2> QED
    BY <1>1, <1>2, <2>1, <2>2, RestIs
<1>4. th[t].want \in Stmts
  BY DEF Types, Thread
<1>7. PICK n \in Nat, v \in [Columns -> Nat], d \in Dbs \cup {None} :
        n = th[t].want.n /\ v = Value(n) /\ d = th[t].want.db
  BY <1>4, SomeValues DEF Stmts
<1>8. c = [NoRec EXCEPT !.id = n, !.db = d, !.val = v, !.dirty = CreateSets, !.made = CreateSets]
  BY <1>2, <1>7
<1>5. c \in Recs
  BY <1>8, RecordTypes, Constants DEF Recs
<1>6. /\ s \in Thread /\ s.pc = "app" /\ s.prog.body = <<>>
      /\ s.prog.call = th[t].prog.call /\ s.known = th[t].known
  BY <1>2, <1>3, <1>5 DEF Thread
<1> QED
  BY <1>1, <1>2, <1>6, SettledGoesOn

LEMMA LoadedGoesOn ==
  ASSUME Types, ThreadsRight, CallsRight, NEW t \in Threads, Loaded(t)
  PROVE  GoesOn(th[t], th'[t])
<1>1. At(t, "loaded") /\ "loaded" \in Words \ {"begin", "applied", "commit", "orCreate", "again"}
  BY DEF Loaded, Words
<1>2. PICK p : p = Rest(th[t])
  OBVIOUS
<1>3. /\ p \in Thread /\ p.pc = "app" /\ p.prog.body = <<>>
      /\ p.prog.call = th[t].prog.call /\ p.known = th[t].known
  <2>1. "loaded" \in Words \ {"commit"} /\ "loaded" \in Words \ {"begin", "applied", "commit"}
    BY DEF Words
  <2>2. Tail(th[t].prog.body) = <<>>
    BY <1>1, <2>1, LastRest
  <2> QED
    BY <1>1, <1>2, <2>1, <2>2, RestIs
<1>4. CASE th' = [th EXCEPT ![t] = Settle(p)]
  BY <1>1, <1>3, <1>4, SettledGoesOn
<1>5. CASE \E r \in th[t].res :
        th' = [th EXCEPT ![t] = Settle([p EXCEPT !.rec =
                 [NoRec EXCEPT !.id = r.id, !.text = (dialect # "Sqlite"), !.db = th[t].want.db, !.val = r.val]])]
  <2>0. PICK r \in th[t].res :
          th' = [th EXCEPT ![t] = Settle([p EXCEPT !.rec =
                   [NoRec EXCEPT !.id = r.id, !.text = (dialect # "Sqlite"), !.db = th[t].want.db, !.val = r.val]])]
    BY <1>5
  <2>1. PICK c, s :
          /\ c = [NoRec EXCEPT !.id = r.id, !.text = (dialect # "Sqlite"), !.db = th[t].want.db, !.val = r.val]
          /\ s = [p EXCEPT !.rec = c] /\ th' = [th EXCEPT ![t] = Settle(s)]
    BY <2>0
  <2>2. Heads(th[t], Seen) /\ th[t].pc = "app" /\ ~th[t].err /\ th[t].want \in Stmts
    BY <1>1, AtWord DEF Seen, Types, Thread
  <2>3. ResultRight(th[t])
    BY DEF ThreadsRight, ThreadRight
  <2>4. r \in Rows
    BY <2>2, <2>3 DEF ResultRight
  <2>7. PICK b \in BOOLEAN : b = (dialect # "Sqlite")
    OBVIOUS
  <2>8. c = [NoRec EXCEPT !.id = r.id, !.text = b, !.db = th[t].want.db, !.val = r.val]
    BY <2>1, <2>7
  <2>5. c \in Recs
    BY <2>2, <2>4, <2>8, RecordTypes DEF Recs, Rows, Stmts
  <2>6. /\ s \in Thread /\ s.pc = "app" /\ s.prog.body = <<>>
        /\ s.prog.call = th[t].prog.call /\ s.known = th[t].known
    BY <1>3, <2>1, <2>5 DEF Thread
  <2> QED
    BY <1>1, <2>1, <2>6, SettledGoesOn
<1> QED
  BY <1>2, <1>4, <1>5, Zenon DEF Loaded

LEMMA AppliedGoesOn ==
  ASSUME Types, ThreadsRight, CallsRight, NEW t \in Threads, Applied(t)
  PROVE  GoesOn(th[t], th'[t])
<1>1. At(t, "applied") /\ "applied" \in Words \ {"commit"}
  BY DEF Applied, Words
<1>2. PICK q, s : /\ q = [th[t].want EXCEPT !.op = "applied"] /\ s = Rest(th[t])
                  /\ th' = [th EXCEPT ![t] = Issue(t, q, s)]
  BY Zenon DEF Applied
<1>3. s \in Thread /\ s.prog.body = Tail(th[t].prog.body) /\ s.prog.call = th[t].prog.call
      /\ s.known = th[t].known
  BY <1>1, <1>2, RestIs
<1>4. Arrived(t, "applied")
  BY <1>1, Arrives
<1>5. s.prog.body = <<>> \/ s.prog.body[1] = <<"missing">>
  BY <1>3, <1>4 DEF Arrived
<1>6. ~Heads(s, {"orCreate", "orUpdate"})
  BY <1>5 DEF Heads
<1>7. ~Creating(s)
  BY <1>1, <1>3, NotCreating DEF Creating
<1>8. q \in Stmts /\ q.op = "applied"
  <2>1. th[t].want \in Stmts
    BY DEF Types, Thread
  <2> QED
    BY <1>2, <2>1 DEF Stmts, StmtOps
<1>9. th'[t] = Issue(t, q, s)
  BY <1>2 DEF Types
<1> QED
  BY <1>3, <1>6, <1>7, <1>8, <1>9, IssueGoesOn

LEMMA ProgBeginGoesOn ==
  ASSUME Types, ThreadsRight, CallsRight, NEW t \in Threads, ProgBegin(t)
  PROVE  GoesOn(th[t], th'[t])
<1>1. At(t, "begin") /\ "begin" \in Words \ {"commit"}
  BY DEF ProgBegin, Words
<1>2. PICK q, s : /\ q = [NoStmt EXCEPT !.db = th[t].want.db] /\ s = Rest(th[t])
                  /\ th' = [th EXCEPT ![t] = Begin(q, s)]
  BY Zenon DEF ProgBegin
<1>3. s \in Thread /\ s.prog.body = Tail(th[t].prog.body) /\ s.prog.call = th[t].prog.call
      /\ s.known = th[t].known
  BY <1>1, <1>2, RestIs
<1>4. Arrived(t, "begin")
  BY <1>1, Arrives
<1>5. s.prog.body # <<>> /\ s.prog.body[1][1] \in {"up", "down", "unrecord"}
  BY <1>3, <1>4, OpenerKinds DEF Arrived
<1>6. ~Heads(s, {"orCreate", "orUpdate"})
  BY <1>5 DEF Heads
<1>7. ~Creating(s)
  BY <1>1, <1>3, NotCreating DEF Creating
<1>8. q \in Stmts
  <2>1. th[t].want.db \in Dbs \cup {None}
    BY DEF Types, Thread, Stmts
  <2> QED
    BY <1>2, <2>1, Asks DEF Stmts
<1>9. th'[t] = Begin(q, s)
  BY <1>2 DEF Types
<1> QED
  BY <1>3, <1>6, <1>7, <1>8, <1>9, BeginGoesOn

(* What follows a word of a migration's transaction is none of a row.      *)
LEMMA InsideRest ==
  ASSUME Types, ThreadsRight, CallsRight, NEW t \in Threads, NEW w \in TxWords, At(t, w),
         NEW s, s = Rest(th[t])
  PROVE  /\ s \in Thread /\ s.prog.call = th[t].prog.call /\ s.known = th[t].known
         /\ ~Creating(s) /\ ~Heads(s, {"orCreate", "orUpdate"})
<1>1. PICK b : b = Tail(th[t].prog.body)
  OBVIOUS
<1>2. Inside(t, w)
  BY Insides
<1>3. /\ Bodied(th[t], b, s) /\ th[t].prog.body[1][1] = w
      /\ b # <<>> => Follow(th[t].prog.body[1], b[1])
  BY <1>1, <1>2 DEF Inside
<1>4. s \in Thread /\ s.prog.call = th[t].prog.call /\ s.known = th[t].known /\ s.prog.body = b
  BY <1>3 DEF Bodied
<1>5. w \notin {"orCreate", "again"}
  BY DEF TxWords, VersionOps
<1>6. ~Creating(s)
  BY <1>4, <1>5, NotCreating DEF Creating
<1>7. b # <<>> => b[1][1] \in {"record", "unrecord", "commit", "begin"}
  BY <1>3 DEF Follow, TxWords, VersionOps
<1> QED
  BY <1>4, <1>6, <1>7 DEF Heads

LEMMA ProgVersionGoesOn ==
  ASSUME Types, ThreadsRight, CallsRight, NEW t \in Threads, ProgVersion(t)
  PROVE  GoesOn(th[t], th'[t])
<1>1. PICK w \in VersionOps :
        /\ At(t, w)
        /\ th' = [th EXCEPT ![t] = Issue(t, [NoStmt EXCEPT !.op = w, !.db = th[t].want.db,
                                             !.n = Head(th[t].prog.body)[2]], Rest(th[t]))]
  BY Zenon DEF ProgVersion, VersionOps
<1>2. PICK q, s : /\ q = [NoStmt EXCEPT !.op = w, !.db = th[t].want.db, !.n = Head(th[t].prog.body)[2]]
                  /\ s = Rest(th[t])
  OBVIOUS
<1>3. w \in TxWords
  BY DEF TxWords
<1>4. s \in Thread /\ s.known = th[t].known /\ ~Creating(s) /\ ~Heads(s, {"orCreate", "orUpdate"})
  BY <1>1, <1>2, <1>3, InsideRest
<1>5. Head(th[t].prog.body)[2] \in Nat /\ th[t].want.db \in Dbs \cup {None}
  <2>1. Inside(t, w)
    BY <1>1, <1>3, Insides
  <2>2. PICK b \in Seq(Items), x \in Items : b = th[t].prog.body /\ x = b[1] /\ b # <<>> /\ x[1] = w
    BY <2>1 DEF Inside, Thread, Progs
  <2>3. Head(b) = x /\ x[2] \in DOMAIN Versions
    BY <2>2, ItemKinds
  <2>4. th[t].want.db \in Dbs
    BY <2>1 DEF Inside
  <2> QED
    BY <2>2, <2>3, <2>4, Constants
<1>6. q \in Stmts /\ q.op = w /\ w # "insert"
  BY <1>2, <1>5, Asks DEF Stmts, StmtOps, VersionOps
<1>7. th'[t] = Issue(t, q, s)
  BY <1>1, <1>2 DEF Types
<1> QED
  BY <1>4, <1>6, <1>7, IssueGoesOn

LEMMA ProgCommitGoesOn ==
  ASSUME Types, ThreadsRight, CallsRight, NEW t \in Threads, ProgCommit(t)
  PROVE  GoesOn(th[t], th'[t])
<1>1. At(t, "commit") /\ "commit" \in TxWords
  BY DEF ProgCommit, TxWords
<1>2. PICK s, r : s = Rest(th[t]) /\ r = [s EXCEPT !.pc = "commit"] /\ th' = [th EXCEPT ![t] = r]
  BY Zenon DEF ProgCommit
<1>3. s \in Thread /\ s.known = th[t].known /\ ~Creating(s) /\ ~Heads(s, {"orCreate", "orUpdate"})
  BY <1>1, <1>2, InsideRest
<1>4. r.pc = "commit" /\ r.prog = s.prog /\ r.known = s.known
  BY <1>2, <1>3 DEF Thread
<1>5. Plainly(r)
  BY <1>3, <1>4 DEF Plainly, Creating, MayInsert, Waiting, Heads
<1>6. th'[t] = r
  BY <1>2 DEF Types
<1> QED
  BY <1>3, <1>4, <1>5, <1>6, PlainGoesOn

LEMMA FnReturnsGoesOn ==
  ASSUME Types, NEW t \in Threads, FnReturns(t)
  PROVE  GoesOn(th[t], th'[t])
<1>1. PICK r : r = [th[t] EXCEPT !.pc = "commit"] /\ th' = [th EXCEPT ![t] = r]
  BY Zenon DEF FnReturns
<1>2. th[t] \in Thread /\ th[t].prog = NoProg
  BY DEF FnReturns, Types
<1>3. r.pc = "commit" /\ r.prog = NoProg /\ r.known = th[t].known
  BY <1>1, <1>2 DEF Thread
<1>4. Plainly(r)
  BY <1>3, NoProgIs, NoneCalls DEF Plainly, Creating, MayInsert, Waiting, Heads
<1>5. th'[t] = r
  BY <1>1 DEF Types
<1> QED
  BY <1>3, <1>4, <1>5, PlainGoesOn

(* At a word that is all that is left of a call, and in the place of which *)
(* the call has another.                                                   *)
Replaced(t, v, s) ==
  /\ s \in Thread /\ s.pc = "app" /\ s.prog.body = <<<<v>>>> /\ s.prog.call = th[t].prog.call
  /\ s.prog.own = FALSE /\ s.known = th[t].known /\ s.tls = th[t].tls
  /\ th[t].want \in Stmts /\ th[t].want.db \in Dbs /\ Value(th[t].want.n) \in [Columns -> Nat]

LEMMA SwapIs ==
  ASSUME Types, ThreadsRight, NEW t \in Threads, NEW w \in Words \ {"begin", "commit", "applied"}, At(t, w),
         NEW v \in Words \ {"begin", "commit"}, NEW s, s = [th[t] EXCEPT !.prog.body = <<<<v>>>>]
  PROVE  Replaced(t, v, s)
<1>1. w \in Words \ {"commit"}
  OBVIOUS
<1>2. Arrived(t, w)
  BY <1>1, Arrives
<1>3. AtHome(t) /\ th[t].want \in Stmts /\ th[t].want.db \in Dbs
  BY <1>2 DEF Arrived, AtHome, Thread
<1>4. PICK b \in Seq(Items) : b = <<<<v>>>>
  BY SingleChain
<1>5. Bodied(th[t], b, s)
  BY <1>3, <1>4, BodyFields DEF AtHome
<1>6. th[t].want.n \in Nat
  BY <1>3 DEF Stmts
<1>7. Value(th[t].want.n) \in [Columns -> Nat]
  BY <1>6, SomeValues
<1> QED
  BY <1>3, <1>4, <1>5, <1>7 DEF AtHome, Bodied, Replaced

LEMMA OrCreateGoesOn ==
  ASSUME Types, ThreadsRight, CallsRight, NEW t \in Threads, OrCreate(t)
  PROVE  GoesOn(th[t], th'[t])
<1>1. At(t, "orCreate") /\ "orCreate" \in Words \ {"commit"}
      /\ "orCreate" \in Words \ {"begin", "applied", "commit"}
      /\ "orCreate" \in Words \ {"begin", "commit", "applied"} /\ "again" \in Words \ {"begin", "commit"}
  BY DEF OrCreate, Words
<1>2. /\ th[t] \in Thread /\ th[t].pc = "app" /\ ~th[t].err
      /\ Heads(th[t], {"orCreate", "orUpdate"}) /\ Heads(th[t], {"orCreate"})
  BY <1>1, AtWord
<1>3. CreatesRight(th[t])
  BY DEF CallsRight
<1>4. CASE th[t].res # {}
  <2>1. PICK s : s = Rest(th[t]) /\ th' = [th EXCEPT ![t] = Settle(s)]
    BY <1>4, Zenon DEF OrCreate
  <2>2. Tail(th[t].prog.body) = <<>>
    BY <1>1, LastRest
  <2>3. /\ s \in Thread /\ s.pc = "app" /\ s.prog.body = <<>> /\ s.prog.own = FALSE /\ s.known = th[t].known
    BY <1>1, <2>1, <2>2, RestIs
  <2>4. ~Heads(s, {"orCreate", "orUpdate"})
    BY <2>3 DEF Heads
  <2>5. th'[t] = Settle(s)
    BY <2>1 DEF Types
  <2> QED
    BY <2>3, <2>4, <2>5, SettleGoesOn
<1>5. CASE th[t].res = {}
  <2>1. PICK q, s, r : /\ q = [th[t].want EXCEPT !.op = "insert", !.val = Value(th[t].want.n)]
                       /\ s = [th[t] EXCEPT !.prog.body = <<<<"again">>>>]
                       /\ r = Issue(t, q, s) /\ th' = [th EXCEPT ![t] = r]
    BY <1>5, Zenon DEF OrCreate
  <2>0. /\ s = [th[t] EXCEPT !.prog.body = <<<<"again">>>>] /\ At(t, "orCreate")
        /\ "orCreate" \in Words \ {"begin", "commit", "applied"} /\ "again" \in Words \ {"begin", "commit"}
    BY <1>1, <2>1
  <2>2. /\ s \in Thread /\ s.prog.body = <<<<"again">>>> /\ s.prog.call = th[t].prog.call
        /\ s.prog.own = FALSE /\ s.known = th[t].known /\ s.tls = th[t].tls
        /\ th[t].want \in Stmts /\ th[t].want.db \in Dbs /\ Value(th[t].want.n) \in [Columns -> Nat]
    <3>1. Replaced(t, "again", s)
      BY <2>0, SwapIs
    <3> QED
      BY <3>1 DEF Replaced
  <2>3. /\ q \in Stmts /\ q.op = "insert" /\ q.db = th[t].want.db /\ q.n = th[t].want.n
        /\ q.key = th[t].want.key /\ q.id = th[t].want.id /\ q.given = th[t].want.given
    BY <2>1, <2>2 DEF Stmts, StmtOps
  <2>4. Issued(s, q, r)
    BY <2>1, <2>2, <2>3, IssueFields
  <2>5. /\ r.want = q /\ r.prog = s.prog /\ r.known = th[t].known /\ r.tls = th[t].tls
        /\ r.pc \in {"stmt", "acquire"} /\ (r.pc = "stmt" => r.tls # None)
    BY <2>2, <2>4 DEF Issued
  <2>6. ~Heads(r, {"orCreate", "orUpdate"}) /\ ~Heads(r, {"orCreate"})
    BY <2>2, <2>5 DEF Heads
  <2>7. Creating(r) <=> Creating(th[t])
    BY <2>2, <2>5 DEF Creating
  <2>8. CreatesRight(r)
    BY <1>3, <2>2, <2>3, <2>5, <2>6, <2>7 DEF CreatesRight
  <2>9. MayInsert(th[t])
    BY <1>2 DEF MayInsert
  <2>10. Missed(r) => Missed(th[t])
    BY <1>2, <1>5, <2>7 DEF Missed
  <2>11. th'[t] = r
    BY <2>1 DEF Types
  <2> QED
    BY <2>3, <2>5, <2>7, <2>8, <2>9, <2>10, <2>11 DEF GoesOn
<1> QED
  BY <1>4, <1>5

LEMMA OrUpdateGoesOn ==
  ASSUME Types, ThreadsRight, CallsRight, NEW t \in Threads, OrUpdate(t)
  PROVE  GoesOn(th[t], th'[t])
<1>1. At(t, "orUpdate") /\ "orUpdate" \in Words \ {"begin", "commit", "applied"}
      /\ "again" \in Words \ {"begin", "commit"} /\ "orCreate" \in Words \ {"begin", "commit"}
  BY DEF OrUpdate, Words
<1>2. /\ th[t] \in Thread /\ th[t].pc = "app" /\ ~th[t].err
      /\ Heads(th[t], {"orCreate", "orUpdate"}) /\ Heads(th[t], Seen)
  <2>1. /\ th[t] \in Thread /\ th[t].pc = "app" /\ ~th[t].err
        /\ \A W : Heads(th[t], W) <=> "orUpdate" \in W
    BY <1>1, AtWord
  <2>2. "orUpdate" \in {"orCreate", "orUpdate"} /\ "orUpdate" \in Seen
    BY DEF Seen
  <2> QED
    BY <2>1, <2>2
<1>3. ~Creating(th[t])
  BY <1>1, NotCreating
<1>4. CASE th[t].res # {}
  <2>1. PICK q, s : /\ q = [th[t].want EXCEPT !.op = "update", !.cols = Columns, !.meant = Columns,
                                              !.val = Value(th[t].want.n)]
                    /\ s = [th[t] EXCEPT !.prog.body = <<<<"again">>>>]
                    /\ th' = [th EXCEPT ![t] = Issue(t, q, s)]
    BY <1>4, Zenon DEF OrUpdate
  <2>2. /\ s \in Thread /\ s.prog.body = <<<<"again">>>> /\ s.prog.call = th[t].prog.call
        /\ s.known = th[t].known /\ th[t].want \in Stmts /\ Value(th[t].want.n) \in [Columns -> Nat]
    <3>1. Replaced(t, "again", s)
      BY <1>1, <2>1, SwapIs
    <3> QED
      BY <3>1 DEF Replaced
  <2>3. q \in Stmts /\ q.op = "update"
    <3>1. PICK x \in SUBSET Columns : x = Columns
      OBVIOUS
    <3>2. q = [th[t].want EXCEPT !.op = "update", !.cols = x, !.meant = x, !.val = Value(th[t].want.n)]
      BY <2>1, <3>1
    <3> QED
      BY <2>2, <3>2 DEF Stmts, StmtOps
  <2>4. ~Heads(s, {"orCreate", "orUpdate"}) /\ ~Creating(s)
    BY <1>3, <2>2 DEF Heads, Creating
  <2>5. th'[t] = Issue(t, q, s)
    BY <2>1 DEF Types
  <2> QED
    BY <2>2, <2>3, <2>4, <2>5, IssueGoesOn
<1>5. CASE th[t].res = {}
  <2>1. PICK q, s, r : /\ q = [th[t].want EXCEPT !.given = th[t].want.n]
                       /\ s = [th[t] EXCEPT !.prog.body = <<<<"orCreate">>>>]
                       /\ r = Issue(t, q, s) /\ th' = [th EXCEPT ![t] = r]
    BY <1>5, Zenon DEF OrUpdate
  <2>0. /\ s = [th[t] EXCEPT !.prog.body = <<<<"orCreate">>>>] /\ At(t, "orUpdate")
        /\ "orUpdate" \in Words \ {"begin", "commit", "applied"} /\ "orCreate" \in Words \ {"begin", "commit"}
    BY <1>1, <2>1
  <2>2. /\ s \in Thread /\ s.prog.body = <<<<"orCreate">>>> /\ s.prog.call = th[t].prog.call
        /\ s.known = th[t].known /\ s.tls = th[t].tls /\ th[t].want \in Stmts
    <3>1. Replaced(t, "orCreate", s)
      BY <2>0, SwapIs
    <3> QED
      BY <3>1 DEF Replaced
  <2>3. ResultRight(th[t])
    BY DEF ThreadsRight, ThreadRight
  <2>4. q \in Stmts /\ q.op = "select" /\ q.n = th[t].want.n
    <3>1. th[t].want.op = "select"
      BY <1>2, <2>3 DEF ResultRight
    <3> QED
      BY <2>1, <2>2, <3>1 DEF Stmts
  <2>5. Issued(s, q, r)
    BY <2>1, <2>2, <2>4, IssueFields
  <2>6. /\ r.want = q /\ r.prog = s.prog /\ r.known = th[t].known /\ r.tls = th[t].tls
        /\ r.pc \in {"stmt", "acquire"} /\ (r.pc = "stmt" => r.tls # None)
    BY <2>2, <2>5 DEF Issued
  <2>7. ~Creating(r) /\ ~Missed(r)
    BY <1>3, <2>2, <2>6 DEF Creating, Missed
  <2>8. CreatesRight(r)
    BY <2>4, <2>6, <2>7 DEF CreatesRight
  <2>9. MayInsert(th[t])
    BY <1>2 DEF MayInsert
  <2>10. th'[t] = r
    BY <2>1 DEF Types
  <2> QED
    BY <2>4, <2>6, <2>7, <2>8, <2>9, <2>10 DEF GoesOn
<1> QED
  BY <1>4, <1>5

LEMMA AgainGoesOn ==
  ASSUME Types, ThreadsRight, CallsRight, NEW t \in Threads, Again(t)
  PROVE  GoesOn(th[t], th'[t])
<1>1. At(t, "again") /\ "again" \in Words \ {"commit"} /\ "again" \in Words \ {"begin", "applied", "commit"}
  BY DEF Again, Words
<1>2. PICK q, s, r : /\ q = [th[t].want EXCEPT !.op = "select"] /\ s = Rest(th[t])
                     /\ r = Issue(t, q, s) /\ th' = [th EXCEPT ![t] = r]
  BY Zenon DEF Again
<1>3. CreatesRight(th[t])
  BY DEF CallsRight
<1>4. Tail(th[t].prog.body) = <<>>
  BY <1>1, LastRest
<1>5. /\ s \in Thread /\ s.prog.body = <<>> /\ s.prog.call = th[t].prog.call /\ s.prog.own = FALSE
      /\ s.known = th[t].known /\ s.tls = th[t].tls
  BY <1>1, <1>2, <1>4, RestIs
<1>6. /\ q \in Stmts /\ q.op = "select" /\ q.db = th[t].want.db
      /\ q.key = th[t].want.key /\ q.id = th[t].want.id /\ q.given = th[t].want.given
  <2>1. th[t].want \in Stmts
    BY DEF Types, Thread
  <2> QED
    BY <1>2, <2>1 DEF Stmts, StmtOps
<1>7. Issued(s, q, r)
  BY <1>2, <1>5, <1>6, IssueFields
<1>8. /\ r.want = q /\ r.prog = s.prog /\ r.known = th[t].known /\ r.tls = th[t].tls
      /\ r.pc \in {"stmt", "acquire"} /\ (r.pc = "stmt" => r.tls # None)
  BY <1>5, <1>7 DEF Issued
<1>9. \A W : ~Heads(r, W)
  BY <1>5, <1>8 DEF Heads
<1>10. Creating(r) <=> Creating(th[t])
  BY <1>5, <1>8 DEF Creating
<1>11. CreatesRight(r)
  BY <1>3, <1>5, <1>6, <1>8, <1>9, <1>10 DEF CreatesRight
<1>12. ~MayInsert(r) /\ ~Missed(r)
  BY <1>6, <1>8, <1>9 DEF MayInsert, Missed
<1>13. th'[t] = r
  BY <1>2 DEF Types
<1> QED
  BY <1>6, <1>8, <1>10, <1>11, <1>12, <1>13 DEF GoesOn

(* A scope ends, with the call that it is in. *)
LEMMA ScopeGoesOn ==
  ASSUME NEW t, NEW p, NEW s \in Thread, s.pc \in {"release", "rollback"}, ~Creating(p),
         s.prog = p.prog, s.want = p.want, s.known = p.known, NEW r, r = EndScope(t, s)
  PROVE  GoesOn(p, r)
<1>1. s.prog \in Progs
  BY DEF Thread
<1>2. PICK g : g = [s.prog EXCEPT !.own = FALSE]
  OBVIOUS
<1>3. g.body = s.prog.body /\ g.call = s.prog.call
  BY <1>1, <1>2 DEF Progs
<1>4. r = [s EXCEPT !.tls = Top(t).prev, !.eng = Top(t).eng, !.frames = Front(s.frames), !.prog = g]
  BY <1>1, <1>2 DEF EndScope, Thread, Progs
<1>5. r.pc = s.pc /\ r.prog = g /\ r.want = p.want /\ r.known = p.known
  BY <1>4 DEF Thread
<1>6. ~Creating(r) /\ ~Missed(r)
  BY <1>3, <1>5 DEF Creating, Missed
<1>7. ~Waiting(r)
  BY <1>5 DEF Waiting
<1>8. CreatesRight(r)
  BY <1>5, <1>6, <1>7 DEF CreatesRight
<1>9. MayInsert(r) => MayInsert(p)
  BY <1>3, <1>5, <1>7 DEF MayInsert, Heads
<1> QED
  BY <1>5, <1>6, <1>8, <1>9 DEF GoesOn

LEMMA ThrowGoesOn ==
  ASSUME Types, ThreadsRight, CallsRight, NEW t \in Threads, FnThrows(t) \/ ProgThrows(t)
  PROVE  GoesOn(th[t], th'[t])
<1>1. PICK s, r : s = [th[t] EXCEPT !.pc = "rollback"] /\ r = EndScope(t, s) /\ th' = [th EXCEPT ![t] = r]
  BY Zenon DEF FnThrows, ProgThrows, Throw
<1>2. th[t].prog = NoProg \/ th[t].prog.own
  BY DEF FnThrows, ProgThrows
<1>3. CreatesRight(th[t])
  BY DEF CallsRight
<1>4. ~Creating(th[t])
  BY <1>2, <1>3, NoProgIs, NoneCalls DEF Creating, CreatesRight
<1>5. s \in Thread /\ s.pc = "rollback" /\ s.prog = th[t].prog /\ s.want = th[t].want /\ s.known = th[t].known
  <2>1. th[t] \in Thread
    BY DEF Types
  <2> QED
    BY <1>1, <2>1 DEF Thread, Places
<1>6. th'[t] = r
  BY <1>1 DEF Types
<1> QED
  BY <1>1, <1>4, <1>5, <1>6, ScopeGoesOn

(* What a step leaves of its thread. *)
Advances(t) ==
  GoesOn(th[t], th'[t]) \/ (Draws(t, th'[t]) /\ calls' = calls + 1 /\ UNCHANGED <<store, conn>>)

LEMMA ApplicationAdvances ==
  ASSUME Types, ThreadsRight, CallsRight, NEW t \in Threads, ApplicationStep(t)
  PROVE  Advances(t)
<1>1. CASE FirstOrCreate(t) \/ UpdateOrCreate(t) \/ Create(t)
  <2>1. calls' = calls + 1 /\ UNCHANGED <<store, conn>>
    BY <1>1 DEF FirstOrCreate, UpdateOrCreate, Create, Call, others
  <2>2. Draws(t, th'[t])
    BY <1>1, FirstOrCreateDraws, UpdateOrCreateDraws, CreateDraws
  <2> QED
    BY <2>1, <2>2 DEF Advances
<1>2. CASE Exec(t) \/ Destroy(t) \/ Transaction(t) \/ Migrate(t) \/ RollbackLast(t) \/ Load(t) \/ Save(t)
           \/ FnReturns(t) \/ FnThrows(t) \/ ProgThrows(t)
  BY <1>2, ExecGoesOn, DestroyGoesOn, TransactionGoesOn, MigrateGoesOn, RollbackLastGoesOn, LoadGoesOn, SaveGoesOn,
     FnReturnsGoesOn, ThrowGoesOn, Zenon DEF Advances
<1>3. CASE Applied(t) \/ Missing(t) \/ Undo(t) \/ ProgBegin(t) \/ ProgVersion(t) \/ ProgCommit(t)
           \/ OrCreate(t) \/ OrUpdate(t) \/ Again(t) \/ Created(t) \/ Loaded(t) \/ Saved(t)
  BY <1>3, AppliedGoesOn, MissingGoesOn, UndoGoesOn, ProgBeginGoesOn, ProgVersionGoesOn, ProgCommitGoesOn,
     OrCreateGoesOn, OrUpdateGoesOn, AgainGoesOn, CreatedGoesOn, LoadedGoesOn, SavedGoesOn, Zenon DEF Advances
<1> QED
  BY <1>1, <1>2, <1>3, Zenon DEF ApplicationStep

-----------------------------------------------------------------------------
(* The steps of the pool and of statements, in the same way.               *)

(* What a thread sees at its statement is what its connection sees.        *)
LEMMA StmtView ==
  ASSUME Types, ThreadsRight, Clean, CallsRight, NEW t \in Threads, th[t].pc = "stmt"
  PROVE  AtStmt(t) /\ View(th[t]) = Sees(th[t].eng)
<1>1. AtStmt(t) /\ CreatesRight(th[t])
  BY AtStatement DEF CallsRight
<1>2. th[t] \in Thread /\ FramesRight(th[t])
  BY DEF Types, ThreadsRight, ThreadRight
<1>3. th[t].frames = <<>> <=> th[t].tls = None
  BY <1>2, NoFrames
<1>4. CASE th[t].tls = None
  <2>1. conn[th[t].eng].wrote = None
    BY <1>1, <1>3, <1>4, StmtAlone DEF CleanConn, Fresh, Dead
  <2>2. DbOf[th[t].eng] = th[t].want.db
    BY <1>1, <1>4 DEF CreatesRight
  <2> QED
    BY <1>1, <1>4, <2>1, <2>2 DEF View, Sees
<1>5. CASE th[t].tls # None
  <2>1. th[t].eng = th[t].tls
    BY <1>1, <1>3, <1>5 DEF AtStmt
  <2> QED
    BY <1>1, <1>5, <2>1 DEF View
<1> QED
  BY <1>4, <1>5

(* A statement that finds nothing has nothing known before it. *)
LEMMA NothingKnown ==
  ASSUME NEW s, NEW e, View(s) = Sees(e), s.want.id = 0, s.want.given = None, Found(e, s.want) = {}
  PROVE  Known(s, View(s)) = {}
<1>1. \A r \in Sees(e).rows : ~(s.want.key = None \/ r.key = s.want.key)
  BY DEF Found, Matches
<1> QED
  BY <1>1 DEF Known

(* A call may settle after it has gone on. *)
LEMMA SettlesOn ==
  ASSUME NEW p, NEW s \in Thread, GoesOn(p, s), s.pc = "app" \/ ~Settles(s), NEW r, r = Settle(s)
  PROVE  GoesOn(p, r)
<1>1. Settled(s, r)
  BY SettleFields
<1>2. CASE Settles(s)
  <2>1. r.prog = NoProg /\ r.known = {} /\ r.pc = "app"
    BY <1>1, <1>2 DEF Settled
  <2>2. Plainly(r)
    BY <2>1, NoProgIs, NoneCalls DEF Plainly, Creating, MayInsert, Waiting, Heads
  <2> QED
    BY <2>1, <2>2, PlainGoesOn
<1>3. CASE ~Settles(s)
  BY <1>1, <1>3 DEF Settled
<1> QED
  BY <1>2, <1>3

(* The thread goes on as it is, but for where it stands. *)
LEMMA StandsOn ==
  ASSUME NEW s, CreatesRight(s), NEW r, r.prog = s.prog, r.want = s.want, r.known = s.known, r.tls = s.tls,
         Waiting(s), Waiting(r), r.pc = "stmt" /\ r.tls = None => DbOf[r.eng] = r.want.db
  PROVE  GoesOn(s, r)
<1>1. \A W : Heads(r, W) <=> Heads(s, W)
  BY DEF Heads
<1>2. (Creating(r) <=> Creating(s)) /\ (MayInsert(r) <=> MayInsert(s))
  BY <1>1 DEF Creating, MayInsert
<1>3. r.pc \in {"acquire", "asleep", "stmt"}
  BY DEF Waiting
<1>4. CreatesRight(r)
  BY <1>1, <1>2, <1>3 DEF CreatesRight
<1>5. Missed(r) => Missed(s)
  BY <1>2, <1>3 DEF Missed
<1> QED
  BY <1>2, <1>4, <1>5 DEF GoesOn

LEMMA BeginsPlainly ==
  ASSUME NEW s, CreatesRight(s), TxRight(s), s.pc = "acquire", s.want.op = "begin",
         NEW r, r.prog = s.prog, r.want = s.want, r.known = s.known, r.pc = "begin"
  PROVE  GoesOn(s, r)
<1>1. s.prog = NoProg \/ Heads(s, {"up", "down", "unrecord"})
  BY OpenerKinds DEF TxRight, Heads
<1>2. ~Heads(r, {"orCreate", "orUpdate"})
  BY <1>1, NoProgIs DEF Heads
<1>3. ~Creating(r)
  <2>1. Creating(s) => s.prog.body \in {<<>>, <<<<"orCreate">>>>, <<<<"again">>>>}
    BY DEF CreatesRight
  <2>2. Heads(s, {"up", "down", "unrecord"}) =>
          s.prog.body # <<>> /\ s.prog.body[1][1] \in {"up", "down", "unrecord"}
    BY DEF Heads
  <2>3. ~Creating(s)
    BY <1>1, <2>1, <2>2, NoProgIs, NoneCalls DEF Creating
  <2> QED
    BY <2>3 DEF Creating
<1>4. Plainly(r)
  BY <1>2, <1>3 DEF Plainly, MayInsert, Waiting
<1> QED
  BY <1>4, PlainGoesOn

LEMMA AcquireGoesOn ==
  ASSUME Types, ThreadsRight, Owned, CallsRight, NEW t \in Threads, Acquire(t)
  PROVE  GoesOn(th[t], th'[t])
<1>1. th[t].pc = "acquire" /\ CreatesRight(th[t]) /\ TxRight(th[t]) /\ PlanRight(th[t]) /\ th[t] \in Thread
  BY DEF Acquire, CallsRight, ThreadsRight, ThreadRight, Types
<1>2. CASE free[th[t].want.db] = {}
  <2>1. th' = [th EXCEPT ![t].pc = "asleep"]
    BY <1>2, Zenon DEF Acquire
  <2>2. PICK r : r = [th[t] EXCEPT !.pc = "asleep"]
    OBVIOUS
  <2>3. th'[t] = r
    BY <2>1, <2>2 DEF Types
  <2>4. r.prog = th[t].prog /\ r.want = th[t].want /\ r.known = th[t].known /\ r.tls = th[t].tls /\ r.pc = "asleep"
    BY <1>1, <2>2 DEF Thread
  <2> QED
    BY <1>1, <2>3, <2>4, StandsOn DEF Waiting
<1>3. CASE free[th[t].want.db] # {}
  <2>1. PICK e \in free[th[t].want.db] :
          th' = [th EXCEPT ![t].eng = e,
                           ![t].pc = IF th[t].want.op = "begin" THEN "begin" ELSE "stmt"]
    BY <1>3, Zenon DEF Acquire
  <2>2. PICK r : r = [th[t] EXCEPT !.eng = e, !.pc = IF th[t].want.op = "begin" THEN "begin" ELSE "stmt"]
    OBVIOUS
  <2>3. th'[t] = r
    BY <2>1, <2>2 DEF Types
  <2>4. /\ r.prog = th[t].prog /\ r.want = th[t].want /\ r.known = th[t].known /\ r.tls = th[t].tls /\ r.eng = e
        /\ r.pc = IF th[t].want.op = "begin" THEN "begin" ELSE "stmt"
    BY <1>1, <2>2 DEF Thread
  <2>5. DbOf[e] = th[t].want.db
    <3>1. th[t].want.db \in Dbs
      BY <1>1 DEF PlanRight
    <3> QED
      BY <2>1, <3>1 DEF Owned
  <2>6. CASE th[t].want.op = "begin"
    BY <1>1, <2>3, <2>4, <2>6, BeginsPlainly
  <2>7. CASE th[t].want.op # "begin"
    BY <1>1, <2>3, <2>4, <2>5, <2>7, StandsOn DEF Waiting
  <2> QED
    BY <2>6, <2>7
<1> QED
  BY <1>2, <1>3

(* It gives its connection back. *)
LEMMA BackGoesOn ==
  ASSUME Types, CallsRight, NEW t \in Threads, th[t].pc = "release",
         NEW r, r = Settle([th[t] EXCEPT !.pc = "app", !.eng = None])
  PROVE  GoesOn(th[t], r)
<1>1. PICK s : s = [th[t] EXCEPT !.pc = "app", !.eng = None]
  OBVIOUS
<1>2. /\ s \in Thread /\ s.pc = "app" /\ s.prog = th[t].prog /\ s.want = th[t].want /\ s.known = th[t].known
      /\ s.tls = th[t].tls /\ s.err = th[t].err /\ s.res = th[t].res
  <2>1. th[t] \in Thread
    BY DEF Types
  <2> QED
    BY <1>1, <2>1 DEF Thread, Places
<1>3. CreatesRight(th[t])
  BY DEF CallsRight
<1>4. (Creating(s) <=> Creating(th[t])) /\ \A W : Heads(s, W) <=> Heads(th[t], W)
  BY <1>2 DEF Creating, Heads
<1>5. ~Waiting(s) /\ ~Waiting(th[t])
  BY <1>2 DEF Waiting
<1>6. CreatesRight(s)
  BY <1>2, <1>3, <1>4, <1>5 DEF CreatesRight
<1>7. MayInsert(s) <=> MayInsert(th[t])
  BY <1>4, <1>5 DEF MayInsert
<1>8. Missed(s) => Missed(th[t])
  BY <1>2, <1>4, <1>5 DEF Missed
<1>9. GoesOn(th[t], s)
  BY <1>2, <1>4, <1>6, <1>7, <1>8 DEF GoesOn
<1> QED
  BY <1>1, <1>2, <1>9, SettlesOn

(* A statement has ended. *)
LEMMA EndsGoesOn ==
  ASSUME Types, ThreadsRight, Clean, CallsRight, NEW t \in Threads, th[t].pc = "stmt", NEW ok \in BOOLEAN,
         NEW res \in Results, ok /\ th[t].want.op = "select" => res = Found(th[t].eng, th[t].want),
         NEW r, r = Ended(t, ok, res)
  PROVE  GoesOn(th[t], r) /\ (th[t].want.op = "insert" => ~MayInsert(r))
<1>1. PICK s : s = [th[t] EXCEPT !.pc = IF InTx(t) THEN "app" ELSE "release",
                                 !.eng = IF InTx(t) THEN None ELSE th[t].eng,
                                 !.err = ~ok, !.res = res]
  OBVIOUS
<1>2. r = Settle(s)
  BY <1>1, Zenon DEF Ended
<1>3. AtStmt(t) /\ View(th[t]) = Sees(th[t].eng) /\ CreatesRight(th[t])
  BY StmtView DEF CallsRight
<1>4. /\ s \in Thread /\ s.pc \in {"app", "release"} /\ s.prog = th[t].prog /\ s.want = th[t].want
      /\ s.known = th[t].known /\ s.tls = th[t].tls /\ s.err = (~ok) /\ s.res = res
  BY <1>1, <1>3 DEF AtStmt, Thread, Places
<1>5. (Creating(s) <=> Creating(th[t])) /\ \A W : Heads(s, W) <=> Heads(th[t], W)
  BY <1>4 DEF Creating, Heads
<1>6. ~Waiting(s) /\ Waiting(th[t])
  BY <1>4 DEF Waiting
<1>7. CreatesRight(s)
  BY <1>3, <1>4, <1>5, <1>6 DEF CreatesRight
<1>8. MayInsert(s) => MayInsert(th[t])
  BY <1>5, <1>6 DEF MayInsert
<1>9. Missed(s) => Known(th[t], View(th[t])) = {}
  <2> SUFFICES ASSUME Missed(s) PROVE Known(th[t], View(th[t])) = {}
    OBVIOUS
  <2>1. Creating(th[t]) /\ ok /\ res = {} /\ Heads(th[t], {"orCreate"})
    BY <1>4, <1>5, <1>6 DEF Missed
  <2>2. th[t].want.op = "select" /\ th[t].want.id = 0 /\ th[t].want.given = None
    BY <1>3, <2>1 DEF CreatesRight
  <2>3. Found(th[t].eng, th[t].want) = {}
    BY <2>1, <2>2
  <2> QED
    BY <1>3, <2>2, <2>3, NothingKnown
<1>10. GoesOn(th[t], s)
  BY <1>4, <1>5, <1>7, <1>8, <1>9 DEF GoesOn
<1>11. th[t].want.op = "insert" => ~MayInsert(s)
  BY <1>3, <1>5, <1>6 DEF CreatesRight, MayInsert
<1>12. GoesOn(th[t], r)
  BY <1>2, <1>4, <1>10, SettlesOn DEF Settles
<1>13. MayInsert(r) => MayInsert(s)
  <2>1. Settled(s, r)
    BY <1>2, <1>4, SettleFields
  <2>2. CASE Settles(s)
    <3>1. r.prog = NoProg /\ r.pc = "app"
      BY <2>1, <2>2 DEF Settled, Settles
    <3> QED
      BY <3>1, NoProgIs DEF MayInsert, Waiting, Heads
  <2>3. CASE ~Settles(s)
    BY <2>1, <2>3 DEF Settled
  <2> QED
    BY <2>2, <2>3
<1> QED
  BY <1>11, <1>12, <1>13

(* What a thread that has inserted may not do again. *)
Spent(t) == th[t].pc = "stmt" /\ th[t].want.op = "insert" => ~MayInsert(th'[t])

LEMMA ReadGoesOn ==
  ASSUME Types, ThreadsRight, Clean, CallsRight, NEW t \in Threads, Read(t)
  PROVE  GoesOn(th[t], th'[t]) /\ Spent(t)
<1>1. th[t].pc = "stmt" /\ th[t].want.op \in Reads
  BY DEF Read
<1>2. AtStmt(t) /\ Sees(th[t].eng) \in States
  BY <1>1, AtStatement DEF AtStmt
<1>3. PICK res :
        /\ th[t].want.op = "select" => res = Found(th[t].eng, th[t].want)
        /\ th[t].want.op \in {"applied", "last"} => res \subseteq Sees(th[t].eng).recorded
        /\ th' = [th EXCEPT ![t] = Ended(t, TRUE, res)]
  <2> DEFINE R == CASE th[t].want.op = "select"  -> {Found(th[t].eng, th[t].want)}
                    [] th[t].want.op = "applied" -> {Sees(th[t].eng).recorded}
                    [] th[t].want.op = "last"    -> IF Sees(th[t].eng).recorded = {} THEN {{}}
                                                    ELSE {{i} : i \in Sees(th[t].eng).recorded}
  <2>1. PICK res \in R : th' = [th EXCEPT ![t] = Ended(t, TRUE, res)]
    BY Zenon DEF Read
  <2>2. /\ th[t].want.op = "select" => R = {Found(th[t].eng, th[t].want)}
        /\ th[t].want.op = "applied" => R = {Sees(th[t].eng).recorded}
        /\ th[t].want.op = "last" => R = IF Sees(th[t].eng).recorded = {} THEN {{}}
                                          ELSE {{i} : i \in Sees(th[t].eng).recorded}
    OBVIOUS
  <2> HIDE DEF R
  <2>3. th[t].want.op \in {"applied", "last"} => res \subseteq Sees(th[t].eng).recorded
    BY <2>1, <2>2
  <2> QED
    BY <2>1, <2>2, <2>3
<1>4. res \in Results
  <2>1. Sees(th[t].eng).recorded \subseteq DOMAIN Versions /\ Sees(th[t].eng).rows \subseteq Rows
    BY <1>2 DEF States
  <2>2. res \subseteq Rows \/ res \subseteq DOMAIN Versions
    BY <1>1, <1>3, <2>1 DEF Found, Reads
  <2> QED
    BY <2>2 DEF Results
<1>5. th'[t] = Ended(t, TRUE, res)
  BY <1>3 DEF Types
<1> QED
  BY <1>1, <1>3, <1>4, <1>5, EndsGoesOn DEF Spent

LEMMA WriteGoesOn ==
  ASSUME Types, ThreadsRight, Clean, CallsRight, NEW t \in Threads, Write(t) \/ Fails(t)
  PROVE  GoesOn(th[t], th'[t]) /\ Spent(t)
<1>1. PICK ok \in BOOLEAN : /\ th[t].pc = "stmt" /\ (ok => th[t].want.op \notin Reads)
                            /\ th' = [th EXCEPT ![t] = Ended(t, ok, {})]
  <2>1. Write(t) => /\ th[t].pc = "stmt" /\ th[t].want.op \notin Reads
                    /\ th' = [th EXCEPT ![t] = Ended(t, TRUE, {})]
    BY Zenon DEF Write
  <2>2. Fails(t) => th[t].pc = "stmt" /\ th' = [th EXCEPT ![t] = Ended(t, FALSE, {})]
    BY Zenon DEF Fails
  <2>3. CASE Write(t)
    <3>1. TRUE \in BOOLEAN
      OBVIOUS
    <3> QED
      BY <2>1, <2>3, <3>1, Zenon
  <2>4. CASE Fails(t)
    <3>1. FALSE \in BOOLEAN /\ ~FALSE
      OBVIOUS
    <3> QED
      BY <2>2, <2>4, <3>1, Zenon
  <2> QED
    BY <2>3, <2>4
<1>2. {} \in Results /\ (ok => th[t].want.op # "select")
  BY <1>1 DEF Results, Reads
<1>3. th'[t] = Ended(t, ok, {})
  BY <1>1 DEF Types
<1> QED
  BY <1>1, <1>2, <1>3, EndsGoesOn DEF Spent

(* The transactions. *)
LEMMA NotCreatingAt ==
  ASSUME CallsRight, NEW t \in Threads, th[t].pc \in {"begin", "commit", "rollback"}
  PROVE  ~Creating(th[t])
<1>1. CreatesRight(th[t])
  BY DEF CallsRight
<1> QED
  BY <1>1 DEF CreatesRight

LEMMA LeaveGoesOn ==
  ASSUME Types, CallsRight, NEW t \in Threads, BeginFails(t) \/ Rollback(t)
  PROVE  GoesOn(th[t], th'[t])
<1>1. th[t].pc \in {"begin", "rollback"} /\ th' = [th EXCEPT ![t].pc = "release", ![t].err = TRUE]
  BY DEF BeginFails, Rollback
<1>2. PICK r : r = [th[t] EXCEPT !.pc = "release", !.err = TRUE]
  OBVIOUS
<1>3. th'[t] = r
  BY <1>1, <1>2 DEF Types
<1>4. /\ r.pc = "release" /\ r.prog = th[t].prog /\ r.want = th[t].want /\ r.known = th[t].known
      /\ r.tls = th[t].tls
  BY <1>2 DEF Types, Thread
<1>5. ~Creating(r)
  BY <1>1, <1>4, NotCreatingAt DEF Creating
<1>6. ~Waiting(r) /\ ~Missed(r)
  BY <1>4, <1>5 DEF Waiting, Missed
<1>7. CreatesRight(r)
  BY <1>4, <1>5, <1>6 DEF CreatesRight
<1>8. MayInsert(r) => MayInsert(th[t])
  BY <1>4, <1>6 DEF MayInsert, Heads
<1> QED
  BY <1>3, <1>4, <1>5, <1>6, <1>7, <1>8 DEF GoesOn

LEMMA BeginTxGoesOn ==
  ASSUME Types, ThreadsRight, CallsRight, NEW t \in Threads, BeginTx(t)
  PROVE  GoesOn(th[t], th'[t])
<1>1. th[t].pc = "begin" /\ th[t] \in Thread /\ EngineRight(th[t])
  BY DEF BeginTx, Types, ThreadsRight, ThreadRight
<1>2. PICK f, own : /\ f = Append(th[t].frames, [eng |-> th[t].eng, prev |-> th[t].tls, x |-> Len(tx) + 1])
                    /\ own = (th[t].prog # NoProg)
  OBVIOUS
<1>3. PICK s : s = [th[t] EXCEPT !.pc = "app", !.tls = th[t].eng, !.eng = None, !.prog.own = own, !.frames = f]
  OBVIOUS
<1>4. th' = [th EXCEPT ![t] = Settle(s)]
  BY <1>2, <1>3, Zenon DEF BeginTx
<1>5. th[t].eng \in Engines
  BY <1>1 DEF EngineRight
<1>6. f \in Seq(Frames) /\ own \in BOOLEAN
  <2>1. Len(tx) + 1 \in Nat /\ th[t].tls \in Engines \cup {None} /\ th[t].frames \in Seq(Frames)
    BY <1>1 DEF Types, Thread
  <2>2. PICK g \in Frames : g = [eng |-> th[t].eng, prev |-> th[t].tls, x |-> Len(tx) + 1]
    BY <1>5, <2>1 DEF Frames
  <2> QED
    BY <1>2, <2>1, <2>2
<1>7. PICK p : p = [th[t].prog EXCEPT !.own = own]
  OBVIOUS
<1>8. p \in Progs /\ p.body = th[t].prog.body /\ p.call = th[t].prog.call
  BY <1>1, <1>6, <1>7 DEF Thread, Progs
<1>9. s = [th[t] EXCEPT !.pc = "app", !.tls = th[t].eng, !.eng = None, !.prog = p, !.frames = f]
  BY <1>1, <1>3, <1>7 DEF Thread
<1>10. s \in Thread /\ s.pc = "app" /\ s.prog = p /\ s.want = th[t].want /\ s.known = th[t].known
  BY <1>1, <1>5, <1>6, <1>8, <1>9 DEF Thread, Places
<1>11. ~Creating(s) /\ ~Waiting(s) /\ ~Missed(s)
  BY <1>1, <1>8, <1>10, NotCreatingAt DEF Creating, Waiting, Missed
<1>12. CreatesRight(s)
  BY <1>10, <1>11 DEF CreatesRight
<1>13. MayInsert(s) => MayInsert(th[t])
  BY <1>8, <1>10, <1>11 DEF MayInsert, Heads
<1>14. GoesOn(th[t], s)
  BY <1>10, <1>11, <1>12, <1>13 DEF GoesOn
<1>15. th'[t] = Settle(s)
  BY <1>4 DEF Types
<1> QED
  BY <1>10, <1>14, <1>15, SettlesOn

LEMMA CommitGoesOn ==
  ASSUME Types, CallsRight, NEW t \in Threads, Commit(t) \/ CommitFails(t)
  PROVE  GoesOn(th[t], th'[t])
<1>1. PICK s : /\ s = [th[t] EXCEPT !.pc = "release", !.err = FALSE] \/ s = [th[t] EXCEPT !.pc = "rollback"]
               /\ th' = [th EXCEPT ![t] = EndScope(t, s)]
  BY Zenon DEF Commit, CommitFails
<1>2. th[t].pc = "commit" /\ th[t] \in Thread
  BY DEF Commit, CommitFails, Types
<1>3. /\ s \in Thread /\ s.pc \in {"release", "rollback"} /\ s.prog = th[t].prog /\ s.want = th[t].want
      /\ s.known = th[t].known
  BY <1>1, <1>2 DEF Thread, Places
<1>4. ~Creating(th[t])
  BY <1>2, NotCreatingAt
<1>5. th'[t] = EndScope(t, s)
  BY <1>1 DEF Types
<1> QED
  BY <1>3, <1>4, <1>5, ScopeGoesOn

LEMMA SelfGoesOn ==
  ASSUME CallsRight, NEW u \in Threads
  PROVE  GoesOn(th[u], th[u])
BY DEF GoesOn, CallsRight

(* A release, which may wake a thread. *)
LEMMA ReleaseGoesOn ==
  ASSUME Types, CallsRight, NEW t \in Threads, Release(t)
  PROVE  \A u \in Threads : GoesOn(th[u], th'[u])
<1>1. PICK r : r = Settle([th[t] EXCEPT !.pc = "app", !.eng = None])
  OBVIOUS
<1>2. th[t].pc = "release"
  BY DEF Release
<1>3. GoesOn(th[t], r)
  BY <1>1, <1>2, BackGoesOn
<1>4. CASE th' = [th EXCEPT ![t] = r]
  <2>1. th'[t] = r /\ \A u \in Threads \ {t} : th'[u] = th[u]
    BY <1>4 DEF Types
  <2> QED
    BY <1>3, <2>1, SelfGoesOn
<1>5. CASE \E u \in Asleep(DbOf[th[t].eng]) : th' = [[th EXCEPT ![t] = r] EXCEPT ![u].pc = "acquire"]
  <2>1. PICK u \in Asleep(DbOf[th[t].eng]) : th' = [[th EXCEPT ![t] = r] EXCEPT ![u].pc = "acquire"]
    BY <1>5
  <2>2. u \in Threads /\ u # t /\ th[u].pc = "asleep" /\ th[u] \in Thread /\ CreatesRight(th[u])
    BY <1>2 DEF Asleep, Types, CallsRight
  <2>3. PICK v : v = [th[u] EXCEPT !.pc = "acquire"]
    OBVIOUS
  <2>4. th'[t] = r /\ th'[u] = v /\ \A w \in Threads \ {t, u} : th'[w] = th[w]
    BY <2>1, <2>2, <2>3 DEF Types
  <2>5. v.prog = th[u].prog /\ v.want = th[u].want /\ v.known = th[u].known /\ v.tls = th[u].tls /\ v.pc = "acquire"
    BY <2>2, <2>3 DEF Thread
  <2>6. GoesOn(th[u], v)
    BY <2>2, <2>5, StandsOn DEF Waiting
  <2> QED
    BY <1>3, <2>4, <2>6, SelfGoesOn
<1> QED
  BY <1>1, <1>4, <1>5, Zenon DEF Release

LEMMA StepsAlone ==
  ASSUME Types, ThreadsRight, Owned, NEW t \in Threads, StatementStep(t) \/ ApplicationStep(t), ~Release(t)
  PROVE  \E r : Steps(t, r)
<1>1. ASSUME NEW r, AppMove(t, r) \/ Sleeps(t, r) \/ Reads1(t, r) \/ Begins(t, r) \/ NotBegun(t, r)
                    \/ Commits(t, r) \/ Throws(t, r) \/ Loses(t, r)
      PROVE  Steps(t, r)
  BY <1>1 DEF AppMove, Sleeps, Reads1, Begins, NotBegun, Commits, Throws, Loses, Ends, Steps
<1>2. ASSUME NEW s, NEW r, GetsOne(t, s, r) \/ WritesOne(t, s, r) \/ FailsOne(t, s, r) \/ RollsBack(t, s, r)
      PROVE  Steps(t, r)
  BY <1>2 DEF GetsOne, WritesOne, FailsOne, RollsBack
<1>3. CASE ApplicationStep(t)
  BY <1>1, <1>3, Moves, ThrowDoes, Zenon
<1>4. CASE StatementStep(t)
  BY <1>1, <1>2, <1>4, AcquireDoes, ReadDoes, WriteDoes, FailsDoes, BeginDoes, BeginFailsDoes, CommitDoes,
     CommitFailsDoes, RollbackDoes, Zenon DEF StatementStep
<1> QED
  BY <1>3, <1>4

(* What a step leaves of every thread. *)
Advanced(t) == Advances(t) /\ Spent(t) /\ \A u \in Threads \ {t} : GoesOn(th[u], th'[u])

LEMMA StepAdvances ==
  ASSUME Types, ThreadsRight, Owned, Clean, CallsRight, NEW t \in Threads, StatementStep(t) \/ ApplicationStep(t)
  PROVE  Advanced(t)
<1>1. CASE Release(t)
  <2>1. \A u \in Threads : GoesOn(th[u], th'[u])
    BY <1>1, ReleaseGoesOn
  <2>2. th[t].pc = "release"
    BY <1>1 DEF Release
  <2> QED
    BY <2>1, <2>2 DEF Advanced, Advances, Spent
<1>2. CASE ~Release(t)
  <2>1. PICK r : Steps(t, r)
    BY <1>2, StepsAlone
  <2>2. \A u \in Threads \ {t} : th'[u] = th[u]
    BY <2>1, OneThread DEF After
  <2>3. \A u \in Threads \ {t} : GoesOn(th[u], th'[u])
    BY <2>2, SelfGoesOn
  <2>4. CASE Read(t) \/ Write(t) \/ Fails(t)
    BY <2>3, <2>4, ReadGoesOn, WriteGoesOn DEF Advanced, Advances
  <2>5. CASE Acquire(t) \/ BeginTx(t) \/ BeginFails(t) \/ Commit(t) \/ CommitFails(t) \/ Rollback(t)
    <3>1. th[t].pc # "stmt"
      BY <2>5 DEF Acquire, BeginTx, BeginFails, Commit, CommitFails, Rollback
    <3>2. GoesOn(th[t], th'[t])
      BY <2>5, AcquireGoesOn, BeginTxGoesOn, LeaveGoesOn, CommitGoesOn
    <3> QED
      BY <2>3, <3>1, <3>2 DEF Advanced, Advances, Spent
  <2>6. CASE ApplicationStep(t)
    <3>1. Advances(t)
      BY <2>6, ApplicationAdvances
    <3>2. th[t].pc = "app"
      <4>1. \A w : At(t, w) => th[t].pc = "app"
        BY DEF At
      <4>2. \A x : Call(t, x) => th[t].pc = "app"
        BY DEF Call
      <4>3. Throw(t) => th[t].pc = "app"
        BY DEF Throw
      <4> QED
        BY <2>6, <4>1, <4>2, <4>3, Zenon
           DEF ApplicationStep, Exec, Transaction, FnReturns, FnThrows, Migrate, Applied, RollbackLast, Missing, Undo,
               ProgThrows, ProgBegin, ProgVersion, ProgCommit, FirstOrCreate, UpdateOrCreate, OrCreate, OrUpdate,
               Again, Create, Created, Load, Loaded, Save, Saved, Destroy
    <3> QED
      BY <2>3, <3>1, <3>2 DEF Advanced, Spent
  <2> QED
    BY <1>2, <2>4, <2>5, <2>6 DEF StatementStep
<1> QED
  BY <1>1, <1>2

(* The step of a thread, in both of its descriptions. *)
LEMMA StepOf ==
  ASSUME Types, ThreadsRight, Owned, Clean, CallsRight, Next
  PROVE  \E t \in Threads : Does(t) /\ Advanced(t)
<1>1. PICK t \in Threads : StatementStep(t) \/ ApplicationStep(t)
  BY DEF Next
<1>2. Does(t)
  <2>1. CASE ApplicationStep(t)
    BY <2>1, Moves, ThrowDoes, Zenon DEF Does
  <2>2. CASE StatementStep(t)
    BY <2>2, AcquireDoes, ReleaseDoes, ReadDoes, WriteDoes, FailsDoes, BeginDoes, BeginFailsDoes, CommitDoes,
       CommitFailsDoes, RollbackDoes, Zenon DEF Does, StatementStep
  <2> QED
    BY <1>1, <2>1, <2>2
<1> QED
  BY <1>1, <1>2, StepAdvances

-----------------------------------------------------------------------------
(* What a step does to the rows.                                           *)

CopiesNext(d) ==
  {store'[d]} \cup {conn'[e].wrote : e \in {f \in Engines : DbOf[f] = d /\ conn'[f].wrote # None}}

ViewNext(s) ==
  IF s.tls = None THEN store'[s.want.db]
  ELSE IF conn'[s.tls].wrote = None THEN store'[DbOf[s.tls]] ELSE conn'[s.tls].wrote

LEMMA SeesCopy ==
  ASSUME Types, NEW e \in Engines
  PROVE  Sees(e) \in Copies(DbOf[e]) /\ DbOf[e] \in Dbs
BY Constants DEF Sees, Copies

(* A statement of the thread writes w in the database d.                   *)
Adds(t, d, w) ==
  /\ AtStmt(t) /\ th[t].want.op \in StmtOps \ Reads /\ DbOf[th[t].eng] = d
  /\ w = Written(th[t].want, Sees(th[t].eng)) /\ w \in States

Stays(d) == store'[d] = store[d] /\ \A e \in Engines : DbOf[e] = d => conn'[e].wrote = conn[e].wrote

Single(t, d) ==
  /\ \A e \in Engines : DbOf[e] = d => conn'[e].wrote = None
  /\ store'[d] \in Copies(d) \/ Adds(t, d, store'[d])

Grows(t, d) ==
  /\ store'[d] = store[d] /\ Adds(t, d, conn'[th[t].eng].wrote)
  /\ \A e \in Engines \ {th[t].eng} : DbOf[e] = d => conn[e].wrote = None /\ conn'[e].wrote = None

Moved(t, d) == Stays(d) \/ Single(t, d) \/ Grows(t, d)

LEMMA StaysWhen ==
  ASSUME UNCHANGED <<store, conn>>, NEW d
  PROVE  Stays(d)
BY DEF Stays

(* A connection writes no more, or has written. *)
LEMMA DropMoves ==
  ASSUME Types, OneWriter, NEW t \in Threads, NEW e, NEW c, Touches(t, e, c), c.wrote \in {None, conn[e].wrote},
         UNCHANGED store, NEW d \in Dbs
  PROVE  Moved(t, d)
<1>1. e \in Engines /\ conn'[e] = c /\ \A f \in Engines \ {e} : conn'[f] = conn[f]
  BY DEF Touches, Types
<1>2. CASE c.wrote = conn[e].wrote \/ DbOf[e] # d
  BY <1>1, <1>2 DEF Moved, Stays
<1>3. CASE c.wrote # conn[e].wrote /\ DbOf[e] = d
  <2>1. c.wrote = None /\ conn[e].wrote # None
    BY <1>3
  <2>2. \A f \in Engines \ {e} : DbOf[f] = d => conn[f].wrote = None
    BY <1>1, <1>3, <2>1 DEF OneWriter
  <2>3. \A f \in Engines : DbOf[f] = d => conn'[f].wrote = None
    BY <1>1, <2>1, <2>2
  <2> QED
    BY <2>3 DEF Moved, Single, Copies
<1> QED
  BY <1>2, <1>3

LEMMA CommitMoves ==
  ASSUME Types, OneWriter, NEW t \in Threads, NEW e, NEW c, Touches(t, e, c), c.wrote = None, conn[e].wrote # None,
         store' = [store EXCEPT ![DbOf[e]] = conn[e].wrote], NEW d \in Dbs
  PROVE  Moved(t, d)
<1>1. e \in Engines /\ conn'[e] = c /\ \A f \in Engines \ {e} : conn'[f] = conn[f]
  BY DEF Touches, Types
<1>2. CASE DbOf[e] # d
  BY <1>1, <1>2 DEF Moved, Stays, Types
<1>3. CASE DbOf[e] = d
  <2>1. store'[d] = conn[e].wrote
    BY <1>3 DEF Types
  <2>2. \A f \in Engines \ {e} : DbOf[f] = d => conn[f].wrote = None
    BY <1>1, <1>3 DEF OneWriter
  <2>3. \A f \in Engines : DbOf[f] = d => conn'[f].wrote = None
    BY <1>1, <2>2
  <2>4. store'[d] \in Copies(d)
    BY <1>1, <1>3, <2>1 DEF Copies
  <2> QED
    BY <2>3, <2>4 DEF Moved, Single
<1> QED
  BY <1>2, <1>3

LEMMA WriteMoved ==
  ASSUME Types, ThreadsRight, NEW t \in Threads, NEW s, NEW r, WritesOne(t, s, r), NEW d \in Dbs
  PROVE  Moved(t, d)
<1>1. /\ AtStmt(t) /\ th[t].want.op \in StmtOps \ Reads /\ s = Written(th[t].want, Sees(th[t].eng)) /\ s \in States
      /\ ~Blocked(th[t].eng) /\ th[t].eng \in Engines /\ conn[th[t].eng] \in Conns
      /\ AtOnce(t) => store' = [store EXCEPT ![DbOf[th[t].eng]] = s]
      /\ ~AtOnce(t) => UNCHANGED store
  BY DEF WritesOne, AtStmt
<1>2. PICK c : /\ Touches(t, th[t].eng, c)
               /\ AtOnce(t) => c = Fresh
               /\ ~AtOnce(t) => c = [conn[th[t].eng] EXCEPT !.wrote = s]
  BY WriteTouches
<1>3. conn'[th[t].eng] = c /\ \A f \in Engines \ {th[t].eng} : conn'[f] = conn[f]
  BY <1>2 DEF Touches, Types
<1>4. CASE DbOf[th[t].eng] # d
  <2>1. store'[d] = store[d]
    BY <1>1, <1>4 DEF Types
  <2> QED
    BY <1>3, <1>4, <2>1 DEF Moved, Stays
<1>5. CASE DbOf[th[t].eng] = d
  <2>1. \A f \in Engines \ {th[t].eng} : DbOf[f] = d => conn[f].wrote = None /\ conn'[f].wrote = None
    BY <1>1, <1>3, <1>5 DEF Blocked
  <2>2. Adds(t, d, s)
    BY <1>1, <1>5 DEF Adds
  <2>3. CASE AtOnce(t)
    <3>1. store'[d] = s
      BY <1>1, <1>5, <2>3 DEF Types
    <3>2. conn'[th[t].eng].wrote = None
      BY <1>2, <1>3, <2>3 DEF Fresh
    <3> QED
      BY <2>1, <2>2, <3>1, <3>2 DEF Moved, Single
  <2>4. CASE ~AtOnce(t)
    <3>1. store'[d] = store[d]
      BY <1>1, <2>4
    <3>2. conn'[th[t].eng].wrote = s
      BY <1>1, <1>2, <1>3, <2>4 DEF Conns
    <3> QED
      BY <2>1, <2>2, <3>1, <3>2 DEF Moved, Grows
  <2> QED
    BY <2>3, <2>4
<1> QED
  BY <1>4, <1>5

LEMMA StepMoved ==
  ASSUME Types, ThreadsRight, OneWriter, NEW t \in Threads, Does(t), NEW d \in Dbs
  PROVE  Moved(t, d)
<1>0. Fresh.wrote = None /\ Dead.wrote = None
  BY DEF Fresh, Dead
<1>1. UNCHANGED <<store, conn>> => Moved(t, d)
  BY StaysWhen DEF Moved
<1>2. ASSUME NEW r, AppMove(t, r) \/ Sleeps(t, r) \/ GivesBack(t, r) \/ Reads1(t, r) \/ NotBegun(t, r) \/ Throws(t, r)
      PROVE  UNCHANGED <<store, conn>>
  BY <1>2 DEF AppMove, Sleeps, GivesBack, Reads1, NotBegun, Throws
<1>3. ASSUME NEW e, NEW r, GetsOne(t, e, r) PROVE UNCHANGED <<store, conn>>
  BY <1>3 DEF GetsOne
<1>4. ASSUME NEW s, NEW r, WritesOne(t, s, r) PROVE Moved(t, d)
  BY <1>4, WriteMoved
<1>5. ASSUME NEW c, NEW r, FailsOne(t, c, r) PROVE Moved(t, d)
  <2>1. th[t].eng \in Engines /\ c \in {Failed(th[t].eng), Dead} /\ UNCHANGED store
    BY <1>5 DEF FailsOne, AtStmt
  <2>2. c.wrote \in {None, conn[th[t].eng].wrote}
    BY <1>0, <2>1, FailedIs
  <2> QED
    BY <1>5, <2>1, <2>2, FailTouches, DropMoves
<1>6. ASSUME NEW r, Begins(t, r) PROVE Moved(t, d)
  <2>1. PICK c : Touches(t, th[t].eng, c) /\ c = [conn[th[t].eng] EXCEPT !.open = TRUE]
    BY <1>6, BeginTouches
  <2>2. UNCHANGED store /\ th[t].eng \in Engines
    BY <1>6 DEF Begins
  <2>3. c.wrote = conn[th[t].eng].wrote
    BY <2>1, <2>2 DEF Types, Conns
  <2> QED
    BY <2>1, <2>2, <2>3, DropMoves
<1>7. ASSUME NEW c, NEW r, RollsBack(t, c, r) PROVE Moved(t, d)
  <2>1. UNCHANGED store /\ c.wrote \in {None, conn[th[t].eng].wrote}
    BY <1>0, <1>7 DEF RollsBack
  <2> QED
    BY <1>7, <2>1, RollbackTouches, DropMoves
<1>8. ASSUME NEW r, Commits(t, r) \/ Loses(t, r) PROVE Moved(t, d)
  <2>1. PICK c : Touches(t, th[t].tls, c) /\ c.wrote = None
    BY <1>0, <1>8, EndTouches
  <2>2. \/ UNCHANGED store
        \/ /\ conn[th[t].tls].wrote # None
           /\ store' = [store EXCEPT ![DbOf[th[t].tls]] = conn[th[t].tls].wrote]
    BY <1>8 DEF Commits, Loses
  <2> QED
    BY <2>1, <2>2, DropMoves, CommitMoves
<1> QED
  BY <1>1, <1>2, <1>3, <1>4, <1>5, <1>6, <1>7, <1>8, Zenon DEF Does

-----------------------------------------------------------------------------
(* The rows of what is written come from what was seen.                    *)

Keeps(v, w, new) == \A x \in w.rows : x.id \in new \/ \E y \in v.rows : y.id = x.id /\ y.key = x.key

LEMMA WrittenRows ==
  ASSUME NEW q \in Stmts, NEW v \in States, q.op \in StmtOps \ Reads, NEW w, w = Written(q, v)
  PROVE  /\ Keeps(v, w, IF q.op = "insert" THEN {q.n} ELSE {})
         /\ q.op = "insert" => v.rows \subseteq w.rows
<1>1. v.rows \subseteq Rows
  BY DEF States
<1>2. q.op \in {"log", "insert", "update", "delete", "table", "up", "down", "record", "unrecord"}
  BY DEF StmtOps, Reads
<1>3. CASE q.op = "insert"
  <2>1. PICK row : row = [id |-> q.n, key |-> q.key, val |-> q.val, meant |-> q.val]
    OBVIOUS
  <2>2. row.id = q.n
    BY <2>1
  <2>3. w = [v EXCEPT !.rows = v.rows \cup {row}]
    BY <1>3, <2>1 DEF Written
  <2>4. w.rows = v.rows \cup {row}
    BY <2>3 DEF States
  <2> QED
    BY <1>3, <2>2, <2>4 DEF Keeps
<1>4. CASE q.op = "update"
  <2> DEFINE new(r) == IF Matches(r, q)
                       THEN [r EXCEPT !.val = Assign(r.val, q.cols, q.val),
                                      !.meant = Assign(r.meant, q.meant, q.val)]
                       ELSE r
  <2>1. ASSUME NEW r \in Rows PROVE new(r).id = r.id /\ new(r).key = r.key
    <3>1. PICK a, b : a = Assign(r.val, q.cols, q.val) /\ b = Assign(r.meant, q.meant, q.val)
      OBVIOUS
    <3>2. Matches(r, q) => new(r) = [r EXCEPT !.val = a, !.meant = b]
      BY <3>1
    <3> QED
      BY <2>1, <3>2 DEF Rows
  <2>2. w = [v EXCEPT !.rows = {new(r) : r \in v.rows}]
    BY <1>4, Zenon DEF Written
  <2> HIDE DEF new
  <2>3. w.rows = {new(r) : r \in v.rows}
    BY <2>2 DEF States
  <2> QED
    BY <1>1, <1>4, <2>1, <2>3 DEF Keeps
<1>5. CASE q.op = "delete"
  <2>1. w = [v EXCEPT !.rows = {r \in v.rows : ~Matches(r, q)}]
    BY <1>5 DEF Written
  <2>2. w.rows = {r \in v.rows : ~Matches(r, q)}
    BY <2>1 DEF States
  <2> QED
    BY <1>5, <2>2 DEF Keeps
<1>6. CASE q.op \in {"log", "table", "up", "down", "record", "unrecord"}
  <2>1. w.rows = v.rows
    <3>1. CASE q.op = "table"
      BY <3>1 DEF Written
    <3>2. CASE q.op # "table"
      <4>1. PICK a, b, c, d, e, f :
              /\ a = v.log \cup {q.n} /\ b = [v.ran EXCEPT ![q.n] = v.ran[q.n] + 1]
              /\ c = [v.undone EXCEPT ![q.n] = v.undone[q.n] + 1]
              /\ d = v.recorded \cup {q.n} /\ e = v.recorded \ {q.n}
              /\ f = [v.taken EXCEPT ![q.n] = v.taken[q.n] + IF q.n \in v.recorded THEN 1 ELSE 0]
        OBVIOUS
      <4>2. /\ q.op = "log" => w = [v EXCEPT !.log = a]
            /\ q.op = "up" => w = [v EXCEPT !.ran = b]
            /\ q.op = "down" => w = [v EXCEPT !.undone = c]
            /\ q.op = "record" => w = [v EXCEPT !.recorded = d]
            /\ q.op = "unrecord" => w = [v EXCEPT !.recorded = e, !.taken = f]
        BY <4>1 DEF Written, States
      <4> QED
        BY <1>6, <3>2, <4>2 DEF States
    <3> QED
      BY <3>1, <3>2
  <2> QED
    BY <1>6, <2>1 DEF Keeps
<1> QED
  BY <1>2, <1>3, <1>4, <1>5, <1>6

(* The number of the row that a thread inserts in a database. *)
NewRow(t, d) ==
  IF AtStmt(t) /\ th[t].want.op = "insert" /\ DbOf[th[t].eng] = d THEN {th[t].want.n} ELSE {}

LEMMA AddsKeeps ==
  ASSUME Types, NEW t \in Threads, NEW d, NEW w, Adds(t, d, w)
  PROVE  /\ Sees(th[t].eng) \in Copies(d) /\ Keeps(Sees(th[t].eng), w, NewRow(t, d))
         /\ th[t].want.op = "insert" => Sees(th[t].eng).rows \subseteq w.rows
<1>1. /\ AtStmt(t) /\ th[t].want.op \in StmtOps \ Reads /\ DbOf[th[t].eng] = d
      /\ th[t].want \in Stmts /\ th[t].eng \in Engines /\ Sees(th[t].eng) \in States
  BY DEF Adds, AtStmt
<1>2. w = Written(th[t].want, Sees(th[t].eng))
  BY DEF Adds
<1>3. Sees(th[t].eng) \in Copies(d)
  BY <1>1, SeesCopy
<1>4. PICK q, v : q = th[t].want /\ v = Sees(th[t].eng)
  OBVIOUS
<1>5. Keeps(v, w, IF q.op = "insert" THEN {q.n} ELSE {}) /\ (q.op = "insert" => v.rows \subseteq w.rows)
  <2>1. q \in Stmts /\ v \in States /\ q.op \in StmtOps \ Reads /\ w = Written(q, v)
    BY <1>1, <1>2, <1>4
  <2> QED
    BY <2>1, WrittenRows
<1> QED
  BY <1>1, <1>3, <1>4, <1>5 DEF NewRow

(* Every copy comes of one that was there. *)
Derived(t, d, w) == \E v \in Copies(d) : Keeps(v, w, NewRow(t, d))

LEMMA RowFlow ==
  ASSUME Types, NEW t \in Threads, NEW d \in Dbs, Moved(t, d), NEW w \in CopiesNext(d)
  PROVE  Derived(t, d, w)
<1>1. \A v \in Copies(d) : Derived(t, d, v)
  BY DEF Derived, Keeps
<1>2. Adds(t, d, w) => Derived(t, d, w)
  BY AddsKeeps DEF Derived
<1>3. w = store'[d] \/ \E e \in Engines : DbOf[e] = d /\ conn'[e].wrote # None /\ w = conn'[e].wrote
  BY DEF CopiesNext
<1>4. store[d] \in Copies(d) /\ \A e \in Engines : DbOf[e] = d /\ conn[e].wrote # None => conn[e].wrote \in Copies(d)
  BY DEF Copies
<1>5. w \in Copies(d) \/ Adds(t, d, w)
  <2>1. CASE Stays(d)
    BY <1>3, <1>4, <2>1 DEF Stays
  <2>2. CASE Single(t, d)
    BY <1>3, <2>2 DEF Single
  <2>3. CASE Grows(t, d)
    BY <1>3, <1>4, <2>3 DEF Grows
  <2> QED
    BY <2>1, <2>2, <2>3 DEF Moved
<1> QED
  BY <1>1, <1>2, <1>5

RowIdsNext(d) == UNION {IdsOf(w) : w \in CopiesNext(d)}

LEMMA IdsFlow ==
  ASSUME Types, NEW t \in Threads, NEW d \in Dbs, Moved(t, d)
  PROVE  RowIdsNext(d) \subseteq RowIds(d) \cup NewRow(t, d)
<1> SUFFICES ASSUME NEW n \in RowIdsNext(d), n \notin NewRow(t, d) PROVE n \in RowIds(d)
  OBVIOUS
<1>1. PICK w \in CopiesNext(d) : \E x \in w.rows : x.id = n
  BY DEF RowIdsNext, IdsOf
<1>2. PICK x \in w.rows : x.id = n
  BY <1>1
<1>3. PICK v \in Copies(d) : Keeps(v, w, NewRow(t, d))
  BY RowFlow DEF Derived
<1>4. PICK y \in v.rows : y.id = n
  BY <1>2, <1>3 DEF Keeps
<1> QED
  BY <1>4 DEF RowIds, IdsOf

LEMMA KnownFlow ==
  ASSUME NEW s, NEW v, NEW w, NEW new, Keeps(v, w, new), new \cap s.known = {}
  PROVE  Known(s, w) \subseteq Known(s, v)
BY DEF Known, Keeps

LEMMA KnownWithin ==
  ASSUME NEW s, NEW v, NEW w, v.rows \subseteq w.rows
  PROVE  Known(s, v) \subseteq Known(s, w)
BY DEF Known

(* What a thread sees is a copy of its database. *)
LEMMA ViewCopy ==
  ASSUME NEW s, s.tls \in Engines \cup {None}, s.want.db \in Dbs
  PROVE  /\ View(s) \in Copies(Goal(s)) /\ ViewNext(s) \in CopiesNext(Goal(s))
         /\ Goal(s) \in Dbs
BY Constants DEF View, ViewNext, Sees, Goal, Copies, CopiesNext

-----------------------------------------------------------------------------
(* The numbers of rows after a step.                                       *)

LEMMA NewRowIs ==
  ASSUME RowsNumbered, NEW t \in Threads, NEW d, NEW n \in NewRow(t, d)
  PROVE  /\ MayInsert(th[t]) /\ n = th[t].want.n /\ n \in 0 .. calls /\ DbOf[th[t].eng] = d
         /\ th[t].pc = "stmt" /\ th[t].want.op = "insert"
         /\ \A c \in Dbs : n \notin RowIds(c)
         /\ \A u \in Threads : n \notin th[u].known
<1>1. AtStmt(t) /\ th[t].want.op = "insert" /\ n = th[t].want.n /\ DbOf[th[t].eng] = d
  BY DEF NewRow
<1>2. MayInsert(th[t]) /\ th[t].pc = "stmt"
  BY <1>1 DEF MayInsert, Waiting, AtStmt
<1> QED
  BY <1>1, <1>2 DEF RowsNumbered

LEMMA SightCopy ==
  ASSUME Types, NEW t \in Threads, NEW d \in Dbs
  PROVE  Sight(t, d) \in Copies(d)
<1>1. th[t].tls \in Engines \cup {None}
  BY DEF Types, Thread
<1>2. CASE th[t].tls # None /\ DbOf[th[t].tls] = d
  BY <1>1, <1>2, SeesCopy DEF Sight
<1>3. CASE ~(th[t].tls # None /\ DbOf[th[t].tls] = d)
  BY <1>3 DEF Sight, Copies
<1> QED
  BY <1>2, <1>3

(* What a call knows, is what it knew or is in its database. *)
LEMMA KnownFrom ==
  ASSUME Types, NEW t \in Threads, Advanced(t), NEW u \in Threads
  PROVE  th'[u].known \subseteq th[u].known \/ \E d \in Dbs : th'[u].known \subseteq RowIds(d)
<1>1. CASE GoesOn(th[u], th'[u])
  BY <1>1 DEF GoesOn
<1>2. CASE Draws(t, th'[t]) /\ u = t
  <2>1. PICK r : r = th'[t]
    OBVIOUS
  <2>2. CASE Creating(r)
    <3>1. r.want.db \in Dbs /\ r.known = {x.id : x \in {x \in Sight(t, r.want.db).rows : x.key = r.want.key}}
      BY <1>2, <2>1, <2>2 DEF Draws
    <3>2. r.known \subseteq IdsOf(Sight(t, r.want.db))
      BY <3>1 DEF IdsOf
    <3>3. Sight(t, r.want.db) \in Copies(r.want.db)
      BY <3>1, SightCopy
    <3> QED
      BY <1>2, <2>1, <3>1, <3>2, <3>3 DEF RowIds
  <2>3. CASE ~Creating(r)
    BY <1>2, <2>1, <2>3 DEF Draws
  <2> QED
    BY <2>2, <2>3
<1> QED
  BY <1>1, <1>2 DEF Advanced, Advances

(* A number to insert a row under, is one that was drawn, or a new one. *)
Fresher(t, u) == u = t /\ th'[t].want.n = calls + 1 /\ calls' = calls + 1

LEMMA InsertsFrom ==
  ASSUME NEW t \in Threads, Advanced(t), NEW u \in Threads, MayInsert(th'[u])
  PROVE  \/ /\ MayInsert(th[u]) /\ th'[u].want.n = th[u].want.n
            /\ u = t => ~(th[t].pc = "stmt" /\ th[t].want.op = "insert")
         \/ Fresher(t, u)
<1>1. CASE GoesOn(th[u], th'[u])
  BY <1>1 DEF GoesOn, Advanced, Spent
<1>2. CASE Draws(t, th'[t]) /\ calls' = calls + 1 /\ u = t
  BY <1>2 DEF Draws, Fresher
<1> QED
  BY <1>1, <1>2 DEF Advanced, Advances

RowsNumberedNext ==
  /\ \A d \in Dbs : RowIdsNext(d) \subseteq 0 .. calls'
  /\ \A c, d \in Dbs : RowIdsNext(c) \cap RowIdsNext(d) # {} => c = d
  /\ \A t \in Threads : th'[t].known \subseteq 0 .. calls'
  /\ \A t \in Threads : MayInsert(th'[t]) =>
       /\ th'[t].want.n \in 0 .. calls'
       /\ \A d \in Dbs : th'[t].want.n \notin RowIdsNext(d)
       /\ \A u \in Threads : th'[t].want.n \notin th'[u].known
  /\ \A t, u \in Threads :
       MayInsert(th'[t]) /\ MayInsert(th'[u]) /\ th'[t].want.n = th'[u].want.n => t = u

LEMMA RowsNumberedAfter ==
  ASSUME Types, RowsNumbered, NEW t \in Threads, Does(t), Advanced(t), \A d \in Dbs : Moved(t, d)
  PROVE  RowsNumberedNext
<1>1. calls \in Nat /\ calls' \in {calls, calls + 1}
  BY CallsFlow
<1>2. 0 .. calls \subseteq 0 .. calls' /\ calls + 1 \notin 0 .. calls
  BY <1>1
<1>3. ASSUME NEW d \in Dbs
      PROVE  RowIdsNext(d) \subseteq RowIds(d) \cup NewRow(t, d) /\ RowIdsNext(d) \subseteq 0 .. calls
  BY <1>3, IdsFlow, NewRowIs DEF RowsNumbered
<1>4. ASSUME NEW u \in Threads PROVE th'[u].known \subseteq 0 .. calls
  BY <1>4, KnownFrom DEF RowsNumbered
<1>5. ASSUME NEW c \in Dbs, NEW d \in Dbs, NEW n, n \in RowIdsNext(c), n \in RowIdsNext(d) PROVE c = d
  <2>1. n \in RowIds(c) \cup NewRow(t, c) /\ n \in RowIds(d) \cup NewRow(t, d)
    BY <1>3, <1>5
  <2>2. CASE n \in RowIds(c) /\ n \in RowIds(d)
    BY <2>2 DEF RowsNumbered
  <2>3. CASE n \in NewRow(t, c) \/ n \in NewRow(t, d)
    BY <2>1, <2>3, NewRowIs
  <2> QED
    BY <2>1, <2>2, <2>3
<1>6. ASSUME NEW u \in Threads, MayInsert(th'[u])
      PROVE  \/ /\ MayInsert(th[u]) /\ th'[u].want.n = th[u].want.n
                /\ u = t => ~(th[t].pc = "stmt" /\ th[t].want.op = "insert")
             \/ Fresher(t, u)
  BY <1>6, InsertsFrom
<1>7. ASSUME NEW u \in Threads, MayInsert(th'[u]), MayInsert(th[u]), th'[u].want.n = th[u].want.n,
             u = t => ~(th[t].pc = "stmt" /\ th[t].want.op = "insert")
      PROVE  /\ th'[u].want.n \in 0 .. calls
             /\ \A d \in Dbs : th'[u].want.n \notin RowIdsNext(d)
             /\ \A v \in Threads : th'[u].want.n \notin th'[v].known
  <2>1. PICK n : n = th[u].want.n
    OBVIOUS
  <2>2. /\ n \in 0 .. calls /\ \A d \in Dbs : n \notin RowIds(d)
        /\ \A v \in Threads : n \notin th[v].known
    BY <1>7, <2>1 DEF RowsNumbered
  <2>3. ASSUME NEW d \in Dbs, n \in NewRow(t, d) PROVE FALSE
    <3>1. MayInsert(th[t]) /\ n = th[t].want.n /\ th[t].pc = "stmt" /\ th[t].want.op = "insert"
      BY <2>3, NewRowIs
    <3>2. u = t
      BY <1>7, <2>1, <3>1 DEF RowsNumbered
    <3> QED
      BY <1>7, <3>1, <3>2
  <2>4. \A d \in Dbs : n \notin RowIdsNext(d)
    BY <1>3, <2>2, <2>3
  <2>5. \A v \in Threads : n \notin th'[v].known
    BY <2>2, KnownFrom
  <2> QED
    BY <1>7, <2>1, <2>2, <2>4, <2>5
<1>8. ASSUME NEW u \in Threads, MayInsert(th'[u])
      PROVE  /\ th'[u].want.n \in 0 .. calls'
             /\ \A d \in Dbs : th'[u].want.n \notin RowIdsNext(d)
             /\ \A v \in Threads : th'[u].want.n \notin th'[v].known
  <2>1. CASE Fresher(t, u)
    BY <1>1, <1>2, <1>3, <1>4, <2>1 DEF Fresher
  <2>2. CASE ~Fresher(t, u)
    BY <1>2, <1>6, <1>7, <1>8, <2>2
  <2> QED
    BY <2>1, <2>2
<1>9. ASSUME NEW u \in Threads, NEW v \in Threads, MayInsert(th'[u]), MayInsert(th'[v]),
             th'[u].want.n = th'[v].want.n
      PROVE  u = v
  <2>1. CASE Fresher(t, u) /\ Fresher(t, v)
    BY <2>1 DEF Fresher
  <2>2. CASE ~Fresher(t, u) /\ ~Fresher(t, v)
    BY <1>6, <1>9, <2>2 DEF RowsNumbered
  <2>3. CASE Fresher(t, u) /\ ~Fresher(t, v)
    BY <1>2, <1>6, <1>7, <1>9, <2>3 DEF Fresher
  <2>4. CASE ~Fresher(t, u) /\ Fresher(t, v)
    BY <1>2, <1>6, <1>7, <1>9, <2>4 DEF Fresher
  <2> QED
    BY <2>1, <2>2, <2>3, <2>4
<1>10. \A d \in Dbs : RowIdsNext(d) \subseteq 0 .. calls'
  BY <1>2, <1>3
<1>11. \A c, d \in Dbs : RowIdsNext(c) \cap RowIdsNext(d) # {} => c = d
  BY <1>5
<1>12. \A u \in Threads : th'[u].known \subseteq 0 .. calls'
  BY <1>2, <1>4
<1> QED
  BY <1>8, <1>9, <1>10, <1>11, <1>12, Zenon DEF RowsNumberedNext

-----------------------------------------------------------------------------
(* A row that was known and is not seen, stays gone.                       *)

LEMMA KnownStill ==
  ASSUME Types, RowsNumbered, NEW t \in Threads, NEW u \in Threads, NEW d \in Dbs, Moved(t, d),
         NEW w \in CopiesNext(d)
  PROVE  \E v \in Copies(d) : Known(th[u], w) \subseteq Known(th[u], v)
<1>1. PICK v \in Copies(d) : Keeps(v, w, NewRow(t, d))
  BY RowFlow DEF Derived
<1>2. NewRow(t, d) \cap th[u].known = {}
  BY NewRowIs
<1> QED
  BY <1>1, <1>2, KnownFlow

LEMMA GoneKept ==
  ASSUME Types, ThreadsRight, Owned, CallsRight, RowsNumbered, GoneStays,
         NEW t \in Threads, NEW u \in Threads, Creating(th[u]),
         NEW d \in Dbs, d = Goal(th[u]), Moved(t, d), NEW w \in CopiesNext(d)
  PROVE  Known(th[u], w) \subseteq Known(th[u], ViewNext(th[u]))
<1>1. PICK s : s = th[u]
  OBVIOUS
<1>2. /\ s \in Thread /\ s.tls \in Engines \cup {None} /\ s.want.db \in Dbs
      /\ s.want.op \in {"select", "insert"} /\ FramesRight(s)
  BY <1>1 DEF Types, Thread, CallsRight, CreatesRight, ThreadsRight, ThreadRight
<1>3. View(s) \in Copies(d) /\ ViewNext(s) \in CopiesNext(d)
  BY <1>1, <1>2, ViewCopy
<1>4. \A v \in Copies(d) : Known(s, v) \subseteq Known(s, View(s))
  BY <1>1 DEF GoneStays
<1>5. Known(s, w) \subseteq Known(s, View(s))
  BY <1>1, <1>4, KnownStill
<1>6. CASE Stays(d)
  <2>1. ViewNext(s) = View(s)
    BY <1>1, <1>2, <1>6 DEF Stays, View, ViewNext, Sees, Goal
  <2> QED
    BY <1>1, <1>5, <2>1
<1>7. CASE Single(t, d)
  <2>1. CopiesNext(d) = {store'[d]}
    BY <1>7 DEF Single, CopiesNext
  <2> QED
    BY <1>1, <1>3, <2>1
<1>8. CASE Grows(t, d)
  <2>1. PICK e : e = th[t].eng
    OBVIOUS
  <2>2. /\ store'[d] = store[d] /\ Adds(t, d, conn'[e].wrote) /\ e \in Engines /\ DbOf[e] = d
        /\ th[t].want.op \notin Reads /\ conn'[e].wrote # None
        /\ \A f \in Engines \ {e} : DbOf[f] = d => conn[f].wrote = None /\ conn'[f].wrote = None
    BY <1>8, <2>1, DatabaseAssumption DEF Grows, Adds, AtStmt, DatabaseAssumption
  <2>3. CASE s.tls = e
    <3>1. e \in HoldsOf(th[u]) /\ e \in HoldsOf(th[t])
      <4>1. th[u].frames # <<>>
        BY <1>1, <1>2, <2>2, <2>3, NoFrames, Constants
      <4> QED
        BY <1>1, <2>1, <2>2, <2>3, <4>1, EngHeld
    <3>2. u = t
      BY <2>2, <3>1 DEF Owned
    <3>3. th[t].want.op = "insert"
      BY <1>1, <1>2, <2>2, <3>2 DEF Reads
    <3>4. Sees(e).rows \subseteq conn'[e].wrote.rows
      BY <2>1, <2>2, <3>3, AddsKeeps
    <3>5. View(s) = Sees(e) /\ ViewNext(s) = conn'[e].wrote
      BY <2>2, <2>3, Constants DEF View, ViewNext
    <3>6. Known(s, View(s)) \subseteq Known(s, ViewNext(s))
      BY <3>4, <3>5, KnownWithin
    <3> QED
      BY <1>1, <1>5, <3>6
  <2>4. CASE s.tls # e
    <3>1. ViewNext(s) = View(s)
      BY <1>1, <1>2, <2>2, <2>4 DEF View, ViewNext, Sees, Goal
    <3> QED
      BY <1>1, <1>5, <3>1
  <2> QED
    BY <2>3, <2>4
<1> QED
  BY <1>6, <1>7, <1>8 DEF Moved

(* A call has just begun, and knows what it sees. *)
LEMMA GoneFirst ==
  ASSUME Types, RowsNumbered, NEW t \in Threads, NEW r, Draws(t, r), Creating(r), UNCHANGED <<store, conn>>,
         NEW w \in CopiesNext(Goal(r))
  PROVE  Known(r, w) \subseteq Known(r, ViewNext(r))
<1>1. /\ r.want.db \in Dbs /\ r.tls = th[t].tls /\ r.tls \in Engines \cup {None}
      /\ r.known = {x.id : x \in {x \in Sight(t, r.want.db).rows : x.key = r.want.key}}
  BY DEF Draws, Types, Thread
<1>2. ViewNext(r) = View(r) /\ CopiesNext(Goal(r)) = Copies(Goal(r))
  BY DEF ViewNext, View, Sees, CopiesNext, Copies
<1>3. View(r) \in Copies(Goal(r)) /\ Goal(r) \in Dbs
  BY <1>1, ViewCopy
<1>4. CASE Goal(r) = r.want.db
  <2>1. View(r) = Sight(t, r.want.db)
    BY <1>1, <1>4 DEF View, Sight, Goal
  <2>2. r.known \subseteq Known(r, View(r))
    BY <1>1, <2>1 DEF Known
  <2>3. Known(r, w) \subseteq r.known
    BY DEF Known
  <2> QED
    BY <1>2, <2>2, <2>3
<1>5. CASE Goal(r) # r.want.db
  <2>1. r.known \subseteq RowIds(r.want.db)
    <3>1. r.known \subseteq IdsOf(Sight(t, r.want.db))
      BY <1>1 DEF IdsOf
    <3>2. Sight(t, r.want.db) \in Copies(r.want.db)
      BY <1>1, SightCopy
    <3> QED
      BY <3>1, <3>2 DEF RowIds
  <2>2. Known(r, w) \subseteq RowIds(Goal(r)) /\ Known(r, w) \subseteq r.known
    BY <1>2 DEF Known, RowIds, IdsOf
  <2>3. RowIds(Goal(r)) \cap RowIds(r.want.db) = {}
    BY <1>1, <1>3, <1>5 DEF RowsNumbered
  <2> QED
    BY <2>1, <2>2, <2>3
<1> QED
  BY <1>4, <1>5

(* A call that goes on asks for the same rows. *)
Alike(s, r) ==
  /\ Goal(r) = Goal(s) /\ ViewNext(r) = ViewNext(s) /\ \A w : Known(r, w) = Known(s, w)

LEMMA GoesOnAlike ==
  ASSUME NEW s, NEW r, GoesOn(s, r), Creating(r)
  PROVE  Alike(s, r) /\ Creating(s)
<1>1. /\ Creating(s) /\ r.known = s.known /\ r.tls = s.tls
      /\ r.want.key = s.want.key /\ r.want.db = s.want.db
  BY DEF GoesOn
<1> QED
  BY <1>1 DEF Alike, Goal, ViewNext, Known

GoneStaysNext ==
  \A u \in Threads : Creating(th'[u]) =>
    \A w \in CopiesNext(Goal(th'[u])) : Known(th'[u], w) \subseteq Known(th'[u], ViewNext(th'[u]))

NoneMissedNext == \A u \in Threads : Missed(th'[u]) => Known(th'[u], ViewNext(th'[u])) = {}

LEMMA GoneAfter ==
  ASSUME Types, ThreadsRight, Owned, CallsRight, RowsNumbered, GoneStays, NoneMissed,
         NEW t \in Threads, Advanced(t), \A d \in Dbs : Moved(t, d)
  PROVE  GoneStaysNext /\ NoneMissedNext
<1>1. ASSUME NEW u \in Threads
      PROVE  \/ GoesOn(th[u], th'[u])
             \/ u = t /\ Draws(t, th'[u]) /\ UNCHANGED <<store, conn>>
  BY <1>1 DEF Advanced, Advances
<1>2. ASSUME NEW u \in Threads, Creating(th[u])
      PROVE  Goal(th[u]) \in Dbs /\ View(th[u]) \in Copies(Goal(th[u])) /\ ViewNext(th[u]) \in CopiesNext(Goal(th[u]))
  <2>1. th[u].tls \in Engines \cup {None} /\ th[u].want.db \in Dbs
    BY <1>2 DEF Types, Thread, CallsRight, CreatesRight
  <2> QED
    BY <2>1, ViewCopy
<1>3. ASSUME NEW u \in Threads, Creating(th'[u]), NEW w \in CopiesNext(Goal(th'[u]))
      PROVE  Known(th'[u], w) \subseteq Known(th'[u], ViewNext(th'[u]))
  <2>1. CASE GoesOn(th[u], th'[u])
    <3>1. Alike(th[u], th'[u]) /\ Creating(th[u])
      BY <1>3, <2>1, GoesOnAlike
    <3>2. PICK d \in Dbs : d = Goal(th[u])
      BY <1>2, <3>1
    <3>3. w \in CopiesNext(d) /\ Moved(t, d)
      BY <1>3, <3>1, <3>2 DEF Alike
    <3>4. Known(th[u], w) \subseteq Known(th[u], ViewNext(th[u]))
      BY <3>1, <3>2, <3>3, GoneKept
    <3> QED
      BY <3>1, <3>4 DEF Alike
  <2>2. CASE u = t /\ Draws(t, th'[u]) /\ UNCHANGED <<store, conn>>
    BY <1>3, <2>2, GoneFirst
  <2> QED
    BY <1>1, <2>1, <2>2
<1>4. ASSUME NEW u \in Threads, Missed(th'[u])
      PROVE  Known(th'[u], ViewNext(th'[u])) = {}
  <2>1. GoesOn(th[u], th'[u]) /\ Creating(th'[u])
    BY <1>1, <1>4 DEF Draws, Missed
  <2>2. Alike(th[u], th'[u]) /\ Creating(th[u])
    BY <2>1, GoesOnAlike
  <2>3. Known(th[u], View(th[u])) = {}
    BY <1>4, <2>1 DEF GoesOn, NoneMissed
  <2>4. PICK d \in Dbs : d = Goal(th[u])
    BY <1>2, <2>2
  <2>5. ViewNext(th[u]) \in CopiesNext(d) /\ Moved(t, d)
    BY <1>2, <2>2, <2>4
  <2>6. PICK v \in Copies(d) : Known(th[u], ViewNext(th[u])) \subseteq Known(th[u], v)
    BY <2>5, KnownStill
  <2>7. Known(th[u], v) \subseteq Known(th[u], View(th[u]))
    BY <2>2, <2>4, <2>6 DEF GoneStays
  <2>8. Known(th[u], ViewNext(th[u])) = {}
    BY <2>3, <2>6, <2>7
  <2> QED
    BY <2>2, <2>8 DEF Alike
<1> QED
  BY <1>3, <1>4 DEF GoneStaysNext, NoneMissedNext

CallsHold == CallsRight /\ RowsNumbered /\ GoneStays /\ NoneMissed

LEMMA CallsFirst == Init => CallsHold
<1> SUFFICES ASSUME Init PROVE CallsHold
  OBVIOUS
<1>1. /\ \A t \in Threads : /\ th[t].prog = NoProg /\ th[t].pc = "app" /\ th[t].known = {}
      /\ \A d \in Dbs : store[d].rows = {}
      /\ \A e \in Engines : conn[e].wrote = None
      /\ calls = 0
  BY DEF Init, Empty, Fresh
<1>2. \A t \in Threads : ~Creating(th[t]) /\ ~MayInsert(th[t])
  BY <1>1, NoProgIs, NoneCalls DEF Creating, MayInsert, Waiting, Heads
<1>3. \A d \in Dbs : RowIds(d) = {}
  BY <1>1 DEF RowIds, IdsOf, Copies
<1>4. CallsRight
  BY <1>1, <1>2 DEF CallsRight, CreatesRight, Waiting
<1>5. RowsNumbered
  BY <1>1, <1>2, <1>3 DEF RowsNumbered
<1>6. GoneStays /\ NoneMissed
  BY <1>2 DEF GoneStays, NoneMissed, Missed
<1> QED
  BY <1>4, <1>5, <1>6 DEF CallsHold

LEMMA CallsNext == Base /\ Ledgers /\ CallsHold /\ [Next]_vars => CallsHold'
<1> SUFFICES ASSUME Base, Ledgers, CallsHold, [Next]_vars PROVE CallsHold'
  OBVIOUS
<1>1. /\ Types /\ ThreadsRight /\ Owned /\ Clean /\ OneWriter
      /\ CallsRight /\ RowsNumbered /\ GoneStays /\ NoneMissed
  BY DEF Base, Ledgers, CallsHold
<1>2. CASE Next
  <2>1. PICK t \in Threads : Does(t) /\ Advanced(t)
    BY <1>1, <1>2, StepOf
  <2>2. \A d \in Dbs : Moved(t, d)
    BY <1>1, <2>1, StepMoved
  <2>3. RowsNumberedNext
    BY <1>1, <2>1, <2>2, RowsNumberedAfter
  <2>4. GoneStaysNext /\ NoneMissedNext
    BY <1>1, <2>1, <2>2, GoneAfter
  <2>5. \A u \in Threads : CreatesRight(th'[u])
    BY <2>1 DEF Advanced, Advances, GoesOn, Draws
  <2>6. CallsRight'
    BY <2>5 DEF CallsRight, CreatesRight, Creating, Waiting, Heads
  <2>7. \A d : (RowIds(d)' = RowIdsNext(d)) /\ (Copies(d)' = CopiesNext(d))
    BY DEF RowIds, RowIdsNext, Copies, CopiesNext
  <2>8. \A u : /\ MayInsert(th[u])' <=> MayInsert(th'[u])
               /\ Creating(th[u])' <=> Creating(th'[u])
               /\ Missed(th[u])' <=> Missed(th'[u])
               /\ View(th[u])' = ViewNext(th'[u])
               /\ Goal(th[u])' = Goal(th'[u])
    BY DEF MayInsert, Creating, Missed, Waiting, Heads, View, ViewNext, Goal, Sees
  <2>9. RowsNumbered'
    BY <2>3, <2>7, <2>8 DEF RowsNumbered, RowsNumberedNext
  <2>10. GoneStays' /\ NoneMissed'
    BY <2>4, <2>7, <2>8 DEF GoneStays, NoneMissed, GoneStaysNext, NoneMissedNext
  <2> QED
    BY <2>6, <2>9, <2>10 DEF CallsHold
<1>3. CASE UNCHANGED vars
  <2>1. store' = store /\ conn' = conn /\ th' = th /\ calls' = calls
    BY <1>3 DEF vars
  <2>2. CallsRight'
    BY <1>1, <2>1 DEF CallsRight, CreatesRight, Creating, Waiting, Heads
  <2>3. \A d : (RowIds(d)' = RowIds(d)) /\ (Copies(d)' = Copies(d))
    BY <2>1 DEF RowIds, Copies
  <2>4. \A u : /\ MayInsert(th[u])' <=> MayInsert(th[u])
               /\ Creating(th[u])' <=> Creating(th[u])
               /\ Missed(th[u])' <=> Missed(th[u])
               /\ View(th[u])' = View(th[u])
               /\ Goal(th[u])' = Goal(th[u])
    BY <2>1 DEF MayInsert, Creating, Missed, Waiting, Heads, View, Goal, Sees
  <2>5. RowsNumbered'
    BY <1>1, <2>1, <2>3, <2>4 DEF RowsNumbered
  <2>6. \A u : \A w : Known(th[u], w)' = Known(th[u], w)
    BY <2>1 DEF Known
  <2>7. GoneStays' /\ NoneMissed'
    BY <1>1, <2>1, <2>3, <2>4, <2>6 DEF GoneStays, NoneMissed, Known
  <2> QED
    BY <2>2, <2>5, <2>7 DEF CallsHold
<1> QED
  BY <1>2, <1>3

(* At an insert of first_or_create, nothing that it knew is there. *)
Unrivalled(t) ==
  th[t].pc = "stmt" /\ th[t].want.op = "insert" /\ Creating(th[t]) =>
    \A r \in Sees(th[t].eng).rows : ~(r.id \in th[t].known /\ Matches(r, th[t].want))

LEMMA InsertsAlone ==
  ASSUME Base, CallsHold, NEW t \in Threads
  PROVE  Unrivalled(t)
<1> SUFFICES ASSUME th[t].pc = "stmt", th[t].want.op = "insert", Creating(th[t]),
                    NEW r \in Sees(th[t].eng).rows, r.id \in th[t].known, Matches(r, th[t].want)
             PROVE  FALSE
  BY DEF Unrivalled
<1>1. View(th[t]) = Sees(th[t].eng)
  BY StmtView DEF Base, CallsHold
<1>2. Missed(th[t])
  BY DEF Missed, Waiting
<1>3. Known(th[t], Sees(th[t].eng)) = {}
  BY <1>1, <1>2 DEF CallsHold, NoneMissed
<1> QED
  BY <1>3 DEF Known, Matches

(* Query::first_or_create (query.h) inserts no row beside one that was     *)
(* there when it was called and is there still, whatever other threads,    *)
(* transactions and failures come between its two statements: for any      *)
(* threads, pools, keys and calls.                                         *)
THEOREM CreatesOnce == Spec => CreatedOnce
<1>1. Init => Ledgers /\ CallsHold
  BY LedgersFirst, CallsFirst
<1>2. Base /\ Ledgers /\ CallsHold /\ [Next]_vars => (Ledgers /\ CallsHold)'
  BY LedgersNext, CallsNext
<1>3. Base /\ CallsHold =>
        \A t \in Threads :
          th[t].pc = "stmt" /\ th[t].want.op = "insert" /\ th[t].prog.call = "firstOrCreate"
            /\ th'[t].pc # "stmt" /\ ~th'[t].err =>
          \A r \in Sees(th[t].eng).rows : ~(r.id \in th[t].known /\ Matches(r, th[t].want))
  BY InsertsAlone DEF Unrivalled, Creating
<1> QED
  BY <1>1, <1>2, <1>3, BaseHolds, PTL DEF Spec, CreatedOnce
===============================================================================
