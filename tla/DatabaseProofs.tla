---------------------------- MODULE DatabaseProofs ----------------------------
(***************************************************************************)
(* Proofs of what Database promises, for any threads, pools, migrations    *)
(* and calls, and any number of failures.                                  *)
(***************************************************************************)
EXTENDS Database, FiniteSetTheorems, WellFoundedInduction, TLAPS

-----------------------------------------------------------------------------
(* Types.                                                                  *)

StmtOps    == {"select", "applied", "last", "log", "insert", "update", "delete", "table",
               "up", "down", "record", "unrecord"}
VersionOps == {"up", "down", "record", "unrecord"}
TxWords    == VersionOps \cup {"commit"}
Words      == {"applied", "missing", "undo", "orCreate", "orUpdate", "again", "created", "loaded",
               "saved", "begin", "commit"}

Stmts   == [op : StmtOps \cup {"begin", None}, db : Dbs \cup {None}, n : Nat, id : Nat,
            key : Keys \cup {None}, given : Nat \cup {None}, cols : SUBSET Columns, meant : SUBSET Columns,
            val : [Columns -> Nat]]
Items   == {<<w>> : w \in Words} \cup {<<w, i>> : w \in VersionOps, i \in DOMAIN Versions}
Progs   == [call : AllOps \cup {None}, body : Seq(Items), own : BOOLEAN]
Recs    == [id : Nat, text : BOOLEAN, db : Dbs \cup {None}, val : [Columns -> Nat],
            dirty : SUBSET Columns, made : SUBSET Columns]
Frames  == [eng : Engines, prev : Engines \cup {None}, x : Nat]
Results == SUBSET (Rows \cup DOMAIN Versions)
Places  == {"app", "acquire", "asleep", "stmt", "release", "begin", "commit", "rollback"}
Thread  == [pc : Places, want : Stmts, eng : Engines \cup {None}, tls : Engines \cup {None},
            frames : Seq(Frames), err : BOOLEAN, res : Results, prog : Progs, rec : Recs,
            known : SUBSET Nat]
Conns   == [open : BOOLEAN, aborted : BOOLEAN, wrote : States \cup {None}, dead : BOOLEAN]
Ledger  == [out : {"open", "returned", "threw", "unknown"}, did : SUBSET Nat,
            swallowed : BOOLEAN, schema : BOOLEAN]

Types ==
  /\ th \in [Threads -> Thread] /\ store \in [Dbs -> States] /\ conn \in [Engines -> Conns]
  /\ free \in [Dbs -> SUBSET Engines] /\ tx \in Seq(Ledger)
  /\ calls \in 0 .. MaxCalls /\ faults \in 0 .. MaxFaults

-----------------------------------------------------------------------------
(* A thread: its transactions, its connection, and what it has to do.      *)

Engs(s) == {s.frames[k].eng : k \in DOMAIN s.frames}

FramesRight(s) ==
  /\ s.tls = IF s.frames = <<>> THEN None ELSE s.frames[Len(s.frames)].eng
  /\ \A k \in DOMAIN s.frames : s.frames[k].prev = IF k = 1 THEN None ELSE s.frames[k - 1].eng
  /\ \A j, k \in DOMAIN s.frames : s.frames[j].eng = s.frames[k].eng => j = k

EngineRight(s) ==
  /\ s.pc \in {"app", "acquire", "asleep", "commit"} => s.eng = None
  /\ s.pc \in {"begin", "release", "rollback"} => s.eng \in Engines \ Engs(s)
  /\ s.pc = "stmt" => s.eng \in Engines /\ (s.frames # <<>> => s.eng = s.tls)
  /\ s.pc \in {"acquire", "asleep"} /\ s.want.op # "begin" => s.frames = <<>>
  /\ s.pc = "commit" \/ s.prog.own => s.frames # <<>>

(* What the transaction of a version begins with. *)
Openers == {<<w, i>> : w \in {"up", "down"}, i \in DOMAIN Versions} \cup {<<"unrecord", i>> : i \in NoDown}

(* What of a call that is several statements follows what. *)
Follow(x, y) ==
  /\ x[1] = "begin" => y \in Openers
  /\ x[1] = "up" => y = <<"record", x[2]>>
  /\ x[1] = "down" => y = <<"unrecord", x[2]>>
  /\ x[1] \in {"record", "unrecord"} => y = <<"commit">>
  /\ x[1] \notin TxWords \cup {"begin"} => x[1] = "applied" /\ y = <<"missing">>
  /\ x[1] = "commit" => y[1] = "begin"

Chain(b) ==
  /\ \A k \in 1 .. Len(b) - 1 : Follow(b[k], b[k + 1])
  /\ b # <<>> => b[Len(b)][1] \notin VersionOps \cup {"begin"}

Heads(s, W) == s.prog.body # <<>> /\ s.prog.body[1][1] \in W

(* What create() has set, and nothing else since, is as it was created.    *)
RecRight(rec) ==
  /\ rec.id # 0 => rec.db \in Dbs
  /\ \A c \in rec.made : c \in CreateSets /\ rec.val[c] = rec.id

PlanRight(s) ==
  /\ Chain(s.prog.body)
  /\ s.pc \in {"acquire", "asleep", "stmt", "begin"} \/ s.prog.body # <<>> => s.want.db \in Dbs
  /\ s.pc \in {"acquire", "asleep"} => s.want.op \in StmtOps \cup {"begin"}
  /\ s.pc = "stmt" => s.want.op \in StmtOps
  /\ s.pc = "begin" => s.want.op = "begin"
  /\ RecRight(s.rec)

(* The steps of a migration are done in its transaction, and it ends.      *)
TxRight(s) ==
  /\ s.prog.own => s.pc \in {"app", "stmt", "commit"}
  /\ s.err => s.pc \in {"release", "rollback"} \/ (s.pc = "app" /\ s.prog.own)
  /\ s.pc = "commit" => s.prog.body = <<>> \/ Heads(s, {"begin"})
  /\ s.pc \in {"acquire", "asleep", "begin"} /\ s.want.op = "begin" =>
       s.prog = NoProg \/ (s.prog.body # <<>> /\ s.prog.body[1] \in Openers)
  /\ ~s.err /\ s.pc # "rollback" =>
       /\ Heads(s, TxWords) => s.prog.own \/ (s.pc \in {"acquire", "asleep", "begin"} /\ s.want.op = "begin")
       /\ s.prog.own => Heads(s, TxWords) \/ s.pc = "commit"
  /\ s.pc \in {"acquire", "asleep", "stmt"} =>
       /\ s.want.op \in VersionOps <=> s.prog.own
       /\ s.want.op \in VersionOps => s.want.n \in DOMAIN Versions /\ s.prog.body # <<>>
       /\ s.want.op = "up" => s.prog.body[1] = <<"record", s.want.n>>
       /\ s.want.op = "down" => s.prog.body[1] = <<"unrecord", s.want.n>>
       /\ s.want.op \in {"record", "unrecord"} => s.prog.body[1] = <<"commit">>

(* The rows or versions that a call goes on with are what it asked for.    *)
Seen == {"loaded", "orUpdate"}

ResultRight(s) ==
  /\ s.pc \in {"acquire", "asleep", "stmt"} =>
       /\ Heads(s, {"missing"}) => s.want.op = "applied"
       /\ Heads(s, {"undo"}) => s.want.op = "last"
       /\ Heads(s, Seen) => s.want.op = "select"
  /\ s.pc \in {"app", "release"} /\ ~s.err =>
       /\ Heads(s, {"missing", "undo"}) => s.res \subseteq DOMAIN Versions
       /\ Heads(s, Seen) => s.res \subseteq Rows /\ s.want.op = "select"

ThreadRight(s) ==
  FramesRight(s) /\ EngineRight(s) /\ PlanRight(s) /\ TxRight(s) /\ ResultRight(s)

ThreadsRight == \A t \in Threads : ThreadRight(th[t])

-----------------------------------------------------------------------------
(* Connections: in the pool or one thread's.                               *)

HoldsOf(s) == Engs(s) \cup (IF s.eng \in {None, s.tls} THEN {} ELSE {s.eng})

Owned ==
  /\ \A d \in Dbs : free[d] \subseteq {e \in Engines : DbOf[e] = d}
  /\ \A e \in Engines : e \in free[DbOf[e]] => \A t \in Threads : e \notin HoldsOf(th[t])
  /\ \A e \in Engines : e \notin free[DbOf[e]] => \E t \in Threads : e \in HoldsOf(th[t])
  /\ \A t, u \in Threads : \A e \in HoldsOf(th[t]) \cap HoldsOf(th[u]) : t = u

Dead == [Fresh EXCEPT !.dead = TRUE]

(* A connection is clean, in the pool and outside a transaction.           *)
Clean ==
  /\ \A e \in Engines : conn[e].dead => conn[e] = Dead
  /\ \A e \in Engines : e \in free[DbOf[e]] => conn[e] \in {Fresh, Dead}
  /\ \A t \in Threads : th[t].eng \in Engines \ Engs(th[t]) /\ th[t].pc # "rollback" =>
       conn[th[t].eng] \in {Fresh, Dead}

(* For each free connection somebody is up, if anybody sleeps.             *)
Woken(d) == {t \in Threads : th[t].pc = "acquire" /\ th[t].want.db = d}

Served == \A d \in Dbs : Asleep(d) # {} => Cardinality(free[d]) <= Cardinality(Woken(d))

-----------------------------------------------------------------------------
(* Rows.                                                                   *)

HonestRow(r) == \A c \in Columns : r.val[c] # r.meant[c] => c \in CreateSets /\ r.val[c] = r.id

Honest(s) == \A r \in s.rows : HonestRow(r)

(* A statement writes what is meant, and else what a record was created    *)
(* with.                                                                   *)
WantRight(q) ==
  q.op = "update" =>
    q.meant \subseteq q.cols /\ \A c \in q.cols \ q.meant : c \in CreateSets /\ q.id # 0 /\ q.val[c] = q.id

RowsHonest ==
  /\ \A d \in Dbs : Honest(store[d])
  /\ \A e \in Engines : conn[e].wrote # None => Honest(conn[e].wrote)
  /\ \A t \in Threads : WantRight(th[t].want)

-----------------------------------------------------------------------------
(* Migrations.                                                             *)

Due(s, i) == IF i \in s.recorded THEN 1 ELSE 0

Half(s, first, second) ==
  {i \in DOMAIN Versions :
     /\ s.prog.own /\ ~s.err
     /\ \/ s.pc = "app" /\ s.prog.body[1] = <<second, i>>
        \/ s.pc = "stmt" /\ s.want.op = second /\ s.want.n = i}

Ups(s)   == Half(s, "up", "record")
Downs(s) == Half(s, "down", "unrecord") \ NoDown

(* What has been run is what is or was recorded, but in a transaction for  *)
(* the version whose record is next.                                       *)
Plain(w) ==
  \A i \in DOMAIN Versions :
    w.ran[i] = w.taken[i] + Due(w, i) /\ (i \notin NoDown => w.undone[i] >= w.taken[i])

Balanced(s, w) ==
  \A i \in DOMAIN Versions :
    /\ w.ran[i] = IF i \in Ups(s) THEN w.taken[i] + Due(w, i) + 1 ELSE w.taken[i] + Due(w, i)
    /\ i \notin NoDown => w.undone[i] >= IF i \in Downs(s) THEN w.taken[i] + 1 ELSE w.taken[i]

(* A migration has failed, and its transaction has not ended yet.          *)
Broken(s) == s.err /\ s.prog.own

FrameRight(s, k, c) ==
  /\ k < Len(s.frames) /\ c.wrote # None => Plain(c.wrote)
  /\ k = Len(s.frames) /\ c.wrote # None /\ ~Broken(s) => Balanced(s, c.wrote)
  /\ k = Len(s.frames) /\ c.wrote = None /\ ~c.dead /\ ~Broken(s) => Ups(s) = {} /\ Downs(s) = {}

InStore == dialect # "Mysql" => \A d \in Dbs : Plain(store[d])

InTxs == dialect # "Mysql" =>
  \A t \in Threads : \A k \in DOMAIN th[t].frames :
    FrameRight(th[t], k, conn[th[t].frames[k].eng])

-----------------------------------------------------------------------------
(* Transactions.                                                           *)

Exempt(i) == dialect = "Mysql" /\ tx[i].schema

There == UNION {store[d].log : d \in Dbs}

(* The thread has a call of exec to do. *)
Logging(s) == s.pc \in {"acquire", "asleep", "stmt"} /\ s.want.op = "log"

Pending(t) == Logging(th[t])

LogOf(w) == IF w = None THEN {} ELSE w.log

(* What is committed or written somewhere. *)
Marks == There \cup UNION {LogOf(conn[e].wrote) : e \in Engines}

(* The numbers of exec calls are drawn once, and each is done once.        *)
Numbered ==
  /\ Marks \subseteq 0 .. calls
  /\ \A i \in DOMAIN tx : tx[i].did \subseteq 0 .. calls
  /\ \A i, j \in DOMAIN tx : tx[i].did \cap tx[j].did # {} => i = j
  /\ \A t \in Threads : Pending(t) =>
       /\ th[t].want.n \in (0 .. calls) \ Marks
       /\ \A i \in DOMAIN tx : th[t].want.n \notin tx[i].did
  /\ \A t, u \in Threads : Pending(t) /\ Pending(u) /\ th[t].want.n = th[u].want.n => t = u

(* A frame is an open transaction, and each has its own entry.             *)
Entered ==
  /\ \A t \in Threads : \A k \in DOMAIN th[t].frames :
       th[t].frames[k].x \in DOMAIN tx /\ tx[th[t].frames[k].x].out = "open"
  /\ \A t, u \in Threads : \A j \in DOMAIN th[t].frames, k \in DOMAIN th[u].frames :
       th[t].frames[j].x = th[u].frames[k].x => t = u /\ j = k

(* The transaction of a frame is open, but where MySQL has ended it.       *)
OpenFrame(f) == conn[f.eng].open \/ conn[f.eng].dead \/ Exempt(f.x)

FramesOpen == \A t \in Threads : \A k \in DOMAIN th[t].frames : OpenFrame(th[t].frames[k])

OneWriter ==
  \A e, f \in Engines : DbOf[e] = DbOf[f] /\ conn[e].wrote # None /\ conn[f].wrote # None => e = f

(* What a transaction has written is what was committed, and what it did.  *)
Wrote(f) ==
  LET c == conn[f.eng]
      r == tx[f.x]
  IN /\ c.wrote # None => store[DbOf[f.eng]].log \subseteq c.wrote.log
     /\ c.wrote # None => c.wrote.log \subseteq store[DbOf[f.eng]].log \cup r.did
     /\ ~Exempt(f.x) /\ ~c.dead => r.did \subseteq LogOf(c.wrote)
     /\ c.aborted => r.swallowed /\ dialect = "Postgres"

Written1 == \A t \in Threads : \A k \in DOMAIN th[t].frames : Wrote(th[t].frames[k])

(* A call of transaction() is told by its outcome what became of it.       *)
Kept(r, here, on) ==
  /\ r.out = "returned" => r.did \subseteq here \/ (on = "Postgres" /\ r.swallowed)
  /\ r.out = "unknown" => r.did \subseteq here \/ r.did \cap here = {}
  /\ r.out \in {"open", "threw"} => r.did \cap here = {}

Told == \A i \in DOMAIN tx : Exempt(i) \/ Kept(tx[i], There, dialect)

-----------------------------------------------------------------------------
(* Constants.                                                              *)

LEMMA Constants ==
  /\ None \notin Engines /\ None \notin Dbs /\ None \notin States
  /\ DOMAIN Versions = 1 .. Len(Versions) /\ Len(Versions) \in Nat
  /\ \A e \in Engines : DbOf[e] \in Dbs
  /\ Migrated \subseteq Dbs /\ MaxCalls \in Nat /\ MaxFaults \in Nat
  /\ CreateSets \subseteq Columns /\ NoDown \subseteq DOMAIN Versions
BY DatabaseAssumption DEF DatabaseAssumption, Dbs

LEMMA RecordTypes ==
  /\ Empty \in States /\ Fresh \in Conns /\ Dead \in Conns
  /\ NoStmt \in Stmts /\ NoProg \in Progs /\ NoRec \in Recs
<1>1. Zeros \in Counts
  BY DEF Zeros, Counts
<1>2. [c \in Columns |-> 0] \in [Columns -> Nat]
  OBVIOUS
<1>3. Empty \in States
  BY <1>1 DEF Empty, States
<1>4. Fresh \in Conns /\ Dead \in Conns
  BY DEF Fresh, Conns, Dead
<1>5. NoStmt \in Stmts
  BY <1>2 DEF NoStmt, Stmts
<1>6. NoProg \in Progs
  BY DEF NoProg, Progs
<1>7. NoRec \in Recs
  BY <1>2 DEF NoRec, Recs
<1> QED
  BY <1>3, <1>4, <1>5, <1>6, <1>7

LEMMA WantOther ==
  ASSUME NEW q, q.op # "update"
  PROVE  WantRight(q)
BY DEF WantRight

LEMMA NoWant == WantRight(NoStmt)
BY DEF WantRight, NoStmt

-----------------------------------------------------------------------------
(* The bodies of calls.                                                    *)

LEMMA ItemKinds ==
  ASSUME NEW x \in Items
  PROVE  /\ x[1] \in Words \/ x[1] \in VersionOps
         /\ x[1] \in Words => x = <<x[1]>>
         /\ x[1] \in VersionOps => x[2] \in DOMAIN Versions /\ x = <<x[1], x[2]>>
<1>1. CASE \E w \in Words : x = <<w>>
  BY <1>1 DEF Words, VersionOps
<1>2. CASE \E w \in VersionOps, i \in DOMAIN Versions : x = <<w, i>>
  <2>1. PICK w \in VersionOps, i \in DOMAIN Versions : x = <<w, i>>
    BY <1>2
  <2> QED
    BY <2>1 DEF Words, VersionOps
<1> QED
  BY <1>1, <1>2 DEF Items

LEMMA ChainTail ==
  ASSUME NEW b \in Seq(Items), b # <<>>, Chain(b)
  PROVE  /\ Tail(b) \in Seq(Items) /\ Chain(Tail(b)) /\ b[1] \in Items
         /\ Tail(b) # <<>> => Follow(b[1], Tail(b)[1])
         /\ b[1][1] \in VersionOps \cup {"begin"} => Tail(b) # <<>>
<1>1. Len(b) \in Nat /\ Len(b) >= 1 /\ b[1] \in Items
  OBVIOUS
<1>2. /\ Tail(b) \in Seq(Items) /\ Len(Tail(b)) = Len(b) - 1
      /\ \A k \in 1 .. Len(b) - 1 : Tail(b)[k] = b[k + 1]
  OBVIOUS
<1>3. \A k \in 1 .. Len(Tail(b)) - 1 : k + 1 \in 1 .. Len(b) - 1
  BY <1>1, <1>2
<1>4. \A k \in 1 .. Len(Tail(b)) - 1 : Follow(Tail(b)[k], Tail(b)[k + 1])
  <2> SUFFICES ASSUME NEW k \in 1 .. Len(Tail(b)) - 1 PROVE Follow(Tail(b)[k], Tail(b)[k + 1])
    OBVIOUS
  <2>1. Tail(b)[k] = b[k + 1] /\ Tail(b)[k + 1] = b[(k + 1) + 1]
    BY <1>1, <1>2
  <2>2. Follow(b[k + 1], b[(k + 1) + 1])
    BY <1>3 DEF Chain
  <2> QED
    BY <2>1, <2>2
<1>5. Tail(b) # <<>> => Len(b) > 1 /\ Tail(b)[Len(Tail(b))] = b[Len(b)]
  <2> SUFFICES ASSUME Tail(b) # <<>> PROVE Len(b) > 1 /\ Tail(b)[Len(Tail(b))] = b[Len(b)]
    OBVIOUS
  <2>1. Len(Tail(b)) # 0
    BY <1>2
  <2>2. Len(b) - 1 \in 1 .. Len(b) - 1 /\ (Len(b) - 1) + 1 = Len(b)
    BY <1>1, <1>2, <2>1
  <2>3. Tail(b)[Len(b) - 1] = b[(Len(b) - 1) + 1]
    BY <1>2, <2>2
  <2>4. Len(Tail(b)) = Len(b) - 1
    BY <1>2
  <2>5. Tail(b)[Len(Tail(b))] = b[Len(b)]
    BY <2>2, <2>3, <2>4, Zenon
  <2> QED
    BY <1>1, <2>2, <2>5
<1>6. Tail(b) # <<>> => Follow(b[1], Tail(b)[1])
  <2> SUFFICES ASSUME Tail(b) # <<>> PROVE Follow(b[1], Tail(b)[1])
    OBVIOUS
  <2>1. 1 \in 1 .. Len(b) - 1 /\ Tail(b)[1] = b[1 + 1]
    BY <1>1, <1>2, <1>5
  <2> QED
    BY <2>1 DEF Chain
<1>7. b[1][1] \in VersionOps \cup {"begin"} => Tail(b) # <<>>
  <2>1. b[Len(b)][1] \notin VersionOps \cup {"begin"}
    BY DEF Chain
  <2>2. Tail(b) = <<>> => Len(b) = 1
    <3>1. Len(<<>>) = 0
      OBVIOUS
    <3>2. Tail(b) = <<>> => Len(Tail(b)) = 0
      BY <3>1, Zenon
    <3> QED
      BY <1>1, <1>2, <3>2
  <2> QED
    BY <2>1, <2>2
<1>8. Chain(Tail(b))
  BY <1>4, <1>5 DEF Chain
<1> QED
  BY <1>1, <1>2, <1>6, <1>7, <1>8

LEMMA SingleChain ==
  ASSUME NEW w \in Words \ {"begin", "commit"}
  PROVE  <<<<w>>>> \in Seq(Items) /\ Chain(<<<<w>>>>)
<1>1. <<w>> \in Items
  BY DEF Items
<1>2. <<<<w>>>> \in Seq(Items) /\ Len(<<<<w>>>>) = 1 /\ <<<<w>>>>[1][1] = w
  BY <1>1
<1>3. w \notin VersionOps \cup {"begin"}
  BY DEF Words, VersionOps
<1> QED
  BY <1>2, <1>3 DEF Chain

LEMMA MigrateChain == <<<<"applied">>, <<"missing">>>> \in Seq(Items) /\ Chain(<<<<"applied">>, <<"missing">>>>)
<1> DEFINE b == <<<<"applied">>, <<"missing">>>>
<1>1. <<"applied">> \in Items /\ <<"missing">> \in Items
  BY DEF Items, Words
<1>2. b \in Seq(Items) /\ Len(b) = 2 /\ b[1] = <<"applied">> /\ b[2] = <<"missing">>
  BY <1>1
<1>3. Follow(b[1], b[2])
  BY <1>2 DEF Follow, TxWords, VersionOps
<1>4. \A k \in 1 .. Len(b) - 1 : k = 1
  BY <1>2
<1>5. b[Len(b)][1] \notin VersionOps \cup {"begin"}
  BY <1>2 DEF VersionOps
<1> HIDE DEF b
<1>6. Chain(b)
  BY <1>2, <1>3, <1>4, <1>5 DEF Chain
<1> QED
  BY <1>2, <1>6 DEF b

LEMMA OpenerKinds ==
  ASSUME NEW y \in Openers
  PROVE  /\ y[1] \in {"up", "down", "unrecord"}
         /\ \A i \in DOMAIN Versions : y # <<"record", i>> /\ (y = <<"unrecord", i>> => i \in NoDown)
<1>1. CASE y \in {<<w, i>> : w \in {"up", "down"}, i \in DOMAIN Versions}
  <2>1. PICK w \in {"up", "down"}, j \in DOMAIN Versions : y = <<w, j>>
    BY <1>1
  <2> QED
    BY <2>1
<1>2. CASE y \in {<<"unrecord", i>> : i \in NoDown}
  <2>1. PICK j \in NoDown : y = <<"unrecord", j>>
    BY <1>2
  <2> QED
    BY <2>1
<1> QED
  BY <1>1, <1>2 DEF Openers

(* What migrate() has still to do: whole transactions. *)
Blocks ==
  {b \in Seq(Items) : Chain(b) /\ (b # <<>> => b[1] = <<"begin">> /\ b[Len(b)] = <<"commit">>)}

LEMMA OnlyBlock ==
  ASSUME NEW i \in NoDown, NEW b, b = OnlyUnrecord(i)
  PROVE  b \in Blocks /\ b # <<>>
<1>1. i \in DOMAIN Versions
  BY Constants
<1>2. <<"begin">> \in Items /\ <<"commit">> \in Items /\ <<"unrecord", i>> \in Items
  BY <1>1 DEF Items, Words, VersionOps
<1>3. /\ b \in Seq(Items) /\ Len(b) = 3
      /\ b[1] = <<"begin">> /\ b[2] = <<"unrecord", i>> /\ b[3] = <<"commit">>
  BY <1>2 DEF OnlyUnrecord
<1>4. Follow(b[1], b[2])
  BY <1>3 DEF Follow, TxWords, VersionOps, Openers
<1>5. Follow(b[2], b[3])
  BY <1>3 DEF Follow, TxWords, VersionOps
<1>6. \A k \in 1 .. Len(b) - 1 : Follow(b[k], b[k + 1])
  <2>1. ASSUME NEW k \in 1 .. Len(b) - 1 PROVE k = 1 \/ k = 2
    BY <1>3
  <2> QED
    BY <1>4, <1>5, <2>1
<1>7. b[Len(b)][1] \notin VersionOps \cup {"begin"}
  BY <1>3 DEF VersionOps
<1>8. Chain(b) /\ b # <<>>
  BY <1>3, <1>6, <1>7 DEF Chain
<1> QED
  BY <1>3, <1>8 DEF Blocks

LEMMA BlockOf ==
  ASSUME NEW i \in DOMAIN Versions, NEW b,
         b = TxBody("up", "record", i) \/ b = TxBody("down", "unrecord", i)
  PROVE  b \in Blocks /\ b # <<>>
<1>1. PICK first \in {"up", "down"}, second \in {"record", "unrecord"} :
        b = TxBody(first, second, i) /\ (first = "up" <=> second = "record")
  OBVIOUS
<1>2. <<"begin">> \in Items /\ <<"commit">> \in Items /\ <<first, i>> \in Items /\ <<second, i>> \in Items
  BY DEF Items, Words, VersionOps
<1>3. /\ b \in Seq(Items) /\ Len(b) = 4
      /\ b[1] = <<"begin">> /\ b[2] = <<first, i>> /\ b[3] = <<second, i>> /\ b[4] = <<"commit">>
  BY <1>1, <1>2 DEF TxBody
<1>4. Follow(b[1], b[2])
  BY <1>1, <1>3 DEF Follow, TxWords, VersionOps, Openers
<1>5. Follow(b[2], b[3])
  BY <1>1, <1>3 DEF Follow, TxWords, VersionOps
<1>6. Follow(b[3], b[4])
  BY <1>1, <1>3 DEF Follow, TxWords, VersionOps
<1>7. \A k \in 1 .. Len(b) - 1 : Follow(b[k], b[k + 1])
  <2>1. ASSUME NEW k \in 1 .. Len(b) - 1 PROVE k = 1 \/ k = 2 \/ k = 3
    BY <1>3
  <2> QED
    BY <1>4, <1>5, <1>6, <2>1
<1>8. b[Len(b)][1] \notin VersionOps \cup {"begin"}
  BY <1>3 DEF VersionOps
<1>9. Chain(b)
  BY <1>7, <1>8 DEF Chain
<1>10. b # <<>>
  BY <1>3
<1> QED
  BY <1>3, <1>9, <1>10 DEF Blocks

LEMMA BlocksJoin ==
  ASSUME NEW a \in Blocks, NEW b \in Blocks
  PROVE  a \o b \in Blocks
<1>1. CASE a = <<>> \/ b = <<>>
  <2>1. a \in Seq(Items) /\ b \in Seq(Items)
    BY DEF Blocks
  <2>2. a \o b = a \/ a \o b = b
    BY <1>1, <2>1
  <2> QED
    BY <2>2
<1>2. CASE a # <<>> /\ b # <<>>
  <2> DEFINE c == a \o b
  <2>1. /\ a \in Seq(Items) /\ b \in Seq(Items) /\ Chain(a) /\ Chain(b)
        /\ a[1] = <<"begin">> /\ a[Len(a)] = <<"commit">> /\ b[1] = <<"begin">> /\ b[Len(b)] = <<"commit">>
    BY <1>2 DEF Blocks
  <2>2. Len(a) \in Nat /\ Len(b) \in Nat /\ Len(a) >= 1 /\ Len(b) >= 1
    BY <1>2, <2>1
  <2>3. /\ c \in Seq(Items) /\ Len(c) = Len(a) + Len(b)
        /\ \A k \in 1 .. Len(a) : c[k] = a[k]
        /\ \A k \in Len(a) + 1 .. Len(a) + Len(b) : c[k] = b[k - Len(a)]
    BY <2>1, <2>2
  <2> HIDE DEF c
  <2>4. ASSUME NEW k \in 1 .. Len(c) - 1 PROVE Follow(c[k], c[k + 1])
    <3>1. CASE k < Len(a)
      <4>1. k \in 1 .. Len(a) - 1 /\ c[k] = a[k] /\ c[k + 1] = a[k + 1]
        BY <2>2, <2>3, <3>1
      <4> QED
        BY <2>1, <4>1 DEF Chain
    <3>2. CASE k = Len(a)
      <4>1. c[k] = <<"commit">> /\ c[k + 1] = <<"begin">>
        <5>1. k \in 1 .. Len(a) /\ k + 1 \in Len(a) + 1 .. Len(a) + Len(b) /\ (k + 1) - Len(a) = 1
          BY <2>2, <3>2
        <5> QED
          BY <2>1, <2>3, <3>2, <5>1
      <4> QED
        BY <4>1 DEF Follow, TxWords, VersionOps
    <3>3. CASE k > Len(a)
      <4>1. /\ k - Len(a) \in 1 .. Len(b) - 1 /\ k \in Len(a) + 1 .. Len(a) + Len(b)
            /\ k + 1 \in Len(a) + 1 .. Len(a) + Len(b) /\ (k + 1) - Len(a) = (k - Len(a)) + 1
        BY <2>2, <2>3, <3>3
      <4>2. c[k] = b[k - Len(a)] /\ c[k + 1] = b[(k - Len(a)) + 1]
        BY <2>3, <4>1
      <4> QED
        BY <2>1, <4>1, <4>2 DEF Chain
    <3> QED
      BY <2>2, <2>3, <3>1, <3>2, <3>3
  <2>5. c[1] = <<"begin">> /\ c[Len(c)] = <<"commit">>
    <3>1. 1 \in 1 .. Len(a) /\ Len(c) \in Len(a) + 1 .. Len(a) + Len(b) /\ Len(c) - Len(a) = Len(b)
      BY <2>2, <2>3
    <3> QED
      BY <2>1, <2>3, <3>1
  <2>6. c[Len(c)][1] \notin VersionOps \cup {"begin"}
    BY <2>5 DEF VersionOps
  <2>7. Chain(c)
    BY <2>4, <2>6 DEF Chain
  <2> QED
    BY <2>3, <2>5, <2>7 DEF Blocks, c
<1> QED
  BY <1>1, <1>2

(* Numbers have a least. *)
LEMMA LeastOf ==
  ASSUME NEW T, T \subseteq Nat, T # {}
  PROVE  \E n \in T : \A m \in T : n <= m
<1>1. PICK n \in T : \A m \in T : ~ (<<m, n>> \in OpToRel(<, Nat))
  BY NatLessThanWellFounded, WFMin, Zenon
<1>2. \A m \in T : m < n => <<m, n>> \in OpToRel(<, Nat)
  BY DEF OpToRel
<1>3. \A m \in T : ~(m < n)
  BY <1>1, <1>2, Zenon
<1> QED
  BY <1>3

(* The sequence of partial results that FlattenSeq builds. *)
Joins(f, parts, m) == f = [i \in 1 .. m |-> IF i = 1 THEN parts[i] ELSE f[i - 1] \o parts[i]]

LEMMA JoinsExists ==
  ASSUME NEW parts
  PROVE  \A m \in Nat : \E f : Joins(f, parts, m)
<1> DEFINE T == {m \in Nat : ~ \E f : Joins(f, parts, m)}
<1> SUFFICES ASSUME T # {} PROVE FALSE
  OBVIOUS
<1>1. PICK m \in T : \A k \in T : m <= k
  BY LeastOf
<1>2. m # 0
  <2>1. Joins([i \in 1 .. 0 |-> 0], parts, 0)
    BY DEF Joins
  <2> QED
    BY <2>1
<1>3. PICK f : Joins(f, parts, m - 1)
  <2>1. m - 1 \in Nat /\ ~(m <= m - 1)
    BY <1>2
  <2> QED
    BY <1>1, <2>1
<1> DEFINE More(a, i) == a \o parts[i]
           g == [i \in 1 .. m |-> IF i = m /\ m # 1 THEN More(f[m - 1], m) ELSE IF i = m THEN parts[1] ELSE f[i]]
<1>4. Joins(g, parts, m)
  <2> HIDE DEF More
  <2>1. f = [i \in 1 .. m - 1 |-> IF i = 1 THEN parts[i] ELSE More(f[i - 1], i)]
    BY <1>3 DEF Joins, More
  <2>2. ASSUME NEW i \in 1 .. m PROVE g[i] = IF i = 1 THEN parts[i] ELSE More(g[i - 1], i)
    <3>1. CASE i = m /\ m = 1
      BY <3>1
    <3>2. CASE i = m /\ m # 1
      <4>1. g[i] = More(f[m - 1], m) /\ m - 1 \in 1 .. m /\ m - 1 # m
        BY <1>2, <3>2
      <4>2. g[m - 1] = f[m - 1]
        BY <4>1
      <4> QED
        BY <3>2, <4>1, <4>2
    <3>3. CASE i # m
      <4>1. i \in 1 .. m - 1 /\ g[i] = f[i]
        BY <1>2, <3>3
      <4>2. i # 1 => i - 1 \in 1 .. m /\ i - 1 # m
        BY <4>1
      <4>3. i # 1 => g[i - 1] = f[i - 1]
        BY <4>2
      <4> QED
        BY <2>1, <4>1, <4>3
    <3> QED
      BY <3>1, <3>2, <3>3
  <2>3. g = [i \in 1 .. m |-> IF i = 1 THEN parts[i] ELSE More(g[i - 1], i)]
    BY <2>2
  <2> QED
    BY <2>3 DEF Joins, More
<1> QED
  BY <1>4

(* Sequences of a set that is closed under joining are joined in the set. *)
LEMMA Flattened ==
  ASSUME NEW U, NEW parts \in Seq(U), Len(parts) # 0, \A a, b \in U : a \o b \in U
  PROVE  FlattenSeq(parts) \in U
<1>0. Len(parts) \in Nat
  OBVIOUS
<1>1. \E f : Joins(f, parts, Len(parts))
  BY <1>0, JoinsExists
<1>2. FlattenSeq(parts) = (CHOOSE f : Joins(f, parts, Len(parts)))[Len(parts)]
  BY Zenon DEF FlattenSeq, Joins
<1>3. PICK f : Joins(f, parts, Len(parts)) /\ FlattenSeq(parts) = f[Len(parts)]
  BY <1>1, <1>2, Zenon
<1> DEFINE T == {m \in 1 .. Len(parts) : f[m] \notin U}
<1>4. T = {}
  <2> SUFFICES ASSUME T # {} PROVE FALSE
    OBVIOUS
  <2>1. T \subseteq Nat
    OBVIOUS
  <2>2. PICK n \in T : \A k \in T : n <= k
    BY <2>1, LeastOf
  <2>3. n # 1
    <3>1. n = 1 => f[n] = parts[n]
      BY <1>3, <2>2 DEF Joins
    <3> QED
      BY <2>2, <3>1
  <2>4. n - 1 \in 1 .. Len(parts) /\ ~(n <= n - 1)
    BY <2>2, <2>3
  <2>5. f[n - 1] \in U
    BY <2>2, <2>4
  <2>6. f[n] = f[n - 1] \o parts[n]
    BY <1>3, <2>2, <2>3 DEF Joins
  <2>7. f[n] \in U
    BY <2>2, <2>5, <2>6
  <2> QED
    BY <2>2, <2>7
<1> QED
  BY <1>0, <1>3, <1>4

LEMMA MissingBlocks ==
  ASSUME NEW res
  PROVE  FlattenSeq([i \in DOMAIN Versions |->
                       IF i \in res THEN <<>> ELSE TxBody("up", "record", i)]) \in Blocks
<1> DEFINE parts == [i \in DOMAIN Versions |-> IF i \in res THEN <<>> ELSE TxBody("up", "record", i)]
<1>1. <<>> \in Blocks
  BY DEF Blocks, Chain
<1>2. \A i \in DOMAIN Versions : parts[i] \in Blocks
  BY <1>1, BlockOf
<1>3. parts \in Seq(Blocks) /\ Len(parts) = Len(Versions)
  <2>1. parts \in [1 .. Len(Versions) -> Blocks]
    BY <1>2, Constants
  <2> HIDE DEF parts
  <2> QED
    BY <2>1, Constants
<1> HIDE DEF parts
<1>4. CASE Len(parts) = 0
  <2>1. parts = <<>> /\ FlattenSeq(parts) = parts
    BY <1>3, <1>4 DEF FlattenSeq
  <2> QED
    BY <1>1, <2>1 DEF parts
<1>5. CASE Len(parts) # 0
  <2>1. FlattenSeq(parts) \in Blocks
    BY <1>3, <1>5, BlocksJoin, Flattened
  <2> QED
    BY <2>1 DEF parts
<1> QED
  BY <1>4, <1>5

-----------------------------------------------------------------------------
(* What the operations on a thread do to its fields.                       *)

Issued(s, q, r) ==
  /\ r \in Thread
  /\ r.want = q /\ r.err = FALSE /\ r.frames = s.frames /\ r.tls = s.tls /\ r.prog = s.prog
  /\ r.rec = s.rec /\ r.res = s.res /\ r.known = s.known
  /\ s.tls # None => r.pc = "stmt" /\ r.eng = s.tls
  /\ s.tls = None => r.pc = "acquire" /\ r.eng = s.eng

LEMMA IssueFields ==
  ASSUME NEW t, NEW s \in Thread, NEW q \in Stmts, NEW r, r = Issue(t, q, s)
  PROVE  Issued(s, q, r)
<1>1. CASE s.tls # None
  <2>1. r = [s EXCEPT !.want = q, !.err = FALSE, !.pc = "stmt", !.eng = s.tls]
    BY <1>1 DEF Issue
  <2> QED
    BY <1>1, <2>1 DEF Thread, Places, Issued
<1>2. CASE s.tls = None
  <2>1. r = [s EXCEPT !.want = q, !.err = FALSE, !.pc = "acquire"]
    BY <1>2 DEF Issue
  <2> QED
    BY <1>2, <2>1 DEF Thread, Places, Issued
<1> QED
  BY <1>1, <1>2

Begun(s, q, r) ==
  /\ r \in Thread
  /\ r.want = [q EXCEPT !.op = "begin"] /\ r.want \in Stmts /\ r.want.op = "begin" /\ r.want.db = q.db
  /\ r.want.cols = q.cols /\ r.want.meant = q.meant
  /\ r.err = FALSE /\ r.frames = s.frames /\ r.tls = s.tls /\ r.prog = s.prog /\ r.rec = s.rec
  /\ r.res = s.res /\ r.known = s.known /\ r.pc = "acquire" /\ r.eng = s.eng

LEMMA BeginFields ==
  ASSUME NEW s \in Thread, NEW q \in Stmts, NEW r, r = Begin(q, s)
  PROVE  Begun(s, q, r)
<1>1. PICK w : w = [q EXCEPT !.op = "begin"]
  OBVIOUS
<1>2. w \in Stmts /\ w.op = "begin" /\ w.db = q.db /\ w.cols = q.cols /\ w.meant = q.meant
  BY <1>1 DEF Stmts
<1>3. r = [s EXCEPT !.want = w, !.err = FALSE, !.pc = "acquire"]
  BY <1>1 DEF Begin
<1>4. /\ r \in Thread /\ r.want = w
      /\ r.err = FALSE /\ r.frames = s.frames /\ r.tls = s.tls /\ r.prog = s.prog /\ r.rec = s.rec
      /\ r.res = s.res /\ r.known = s.known /\ r.pc = "acquire" /\ r.eng = s.eng
  BY <1>2, <1>3 DEF Thread, Places
<1> QED
  BY <1>1, <1>2, <1>4 DEF Begun

Settles(s) == s.pc = "app" /\ ~s.prog.own /\ (s.err \/ s.prog.body = <<>>)

Settled(s, r) ==
  /\ r \in Thread
  /\ r.pc = s.pc /\ r.eng = s.eng /\ r.tls = s.tls /\ r.frames = s.frames /\ r.rec = s.rec
  /\ r.prog.own = s.prog.own
  /\ ~Settles(s) => r = s
  /\ Settles(s) =>
       r.want = NoStmt /\ r.res = {} /\ r.known = {} /\ r.err = FALSE /\ r.prog = NoProg

LEMMA SettleFields ==
  ASSUME NEW s \in Thread, NEW r, r = Settle(s)
  PROVE  Settled(s, r)
<1>1. CASE Settles(s)
  <2>1. r = [s EXCEPT !.want = NoStmt, !.res = {}, !.known = {}, !.err = FALSE, !.prog = NoProg]
    BY <1>1 DEF Settle, Settles
  <2>2. NoStmt \in Stmts /\ NoProg \in Progs /\ {} \in Results
    BY RecordTypes DEF Results
  <2>3. /\ r \in Thread
        /\ r.pc = s.pc /\ r.eng = s.eng /\ r.tls = s.tls /\ r.frames = s.frames /\ r.rec = s.rec
        /\ r.want = NoStmt /\ r.res = {} /\ r.known = {} /\ r.err = FALSE /\ r.prog = NoProg
    BY <2>1, <2>2 DEF Thread
  <2>4. NoProg.own = FALSE /\ s.prog.own \in BOOLEAN
    BY DEF NoProg, Thread, Progs
  <2>5. s.prog.own = FALSE
    BY <1>1, <2>4 DEF Settles
  <2> QED
    BY <1>1, <2>3, <2>4, <2>5 DEF Settled
<1>2. CASE ~Settles(s)
  <2>1. r = s
    BY <1>2 DEF Settle, Settles
  <2> QED
    BY <1>2, <2>1 DEF Settled
<1> QED
  BY <1>1, <1>2

LEMMA NoProgIs ==
  /\ NoProg.own = FALSE /\ NoProg.body = <<>> /\ NoProg.call = None /\ Chain(NoProg.body)
  /\ NoStmt.cols = {} /\ NoStmt.meant = {} /\ NoStmt.op = None /\ NoStmt.n = 0 /\ NoStmt.db = None
BY DEF NoProg, NoStmt, Chain

Started(s, call, body, r) ==
  /\ r \in Thread
  /\ r.want = s.want /\ r.err = s.err /\ r.frames = s.frames /\ r.tls = s.tls
  /\ r.rec = s.rec /\ r.res = s.res /\ r.known = s.known /\ r.pc = s.pc /\ r.eng = s.eng
  /\ r.prog \in Progs /\ r.prog.call = call /\ r.prog.body = body /\ r.prog.own = FALSE

LEMMA StartFields ==
  ASSUME NEW s \in Thread, NEW call \in AllOps, NEW body \in Seq(Items), NEW r, r = Start(s, call, body)
  PROVE  Started(s, call, body, r)
<1>1. PICK p : p = [NoProg EXCEPT !.call = call, !.body = body]
  OBVIOUS
<1>2. p \in Progs /\ p.call = call /\ p.body = body /\ p.own = FALSE
  BY <1>1 DEF NoProg, Progs
<1>3. r = [s EXCEPT !.prog = p]
  BY <1>1 DEF Start
<1> QED
  BY <1>2, <1>3 DEF Thread, Started

Bodied(s, body, r) ==
  /\ r \in Thread
  /\ r.want = s.want /\ r.err = s.err /\ r.frames = s.frames /\ r.tls = s.tls
  /\ r.rec = s.rec /\ r.res = s.res /\ r.known = s.known /\ r.pc = s.pc /\ r.eng = s.eng
  /\ r.prog \in Progs /\ r.prog.call = s.prog.call /\ r.prog.body = body /\ r.prog.own = s.prog.own

LEMMA BodyFields ==
  ASSUME NEW s \in Thread, NEW body \in Seq(Items), NEW r, r = [s EXCEPT !.prog.body = body]
  PROVE  Bodied(s, body, r)
<1>1. PICK p : p = [s.prog EXCEPT !.body = body]
  OBVIOUS
<1>2. p \in Progs /\ p.call = s.prog.call /\ p.body = body /\ p.own = s.prog.own
  BY <1>1 DEF Thread, Progs
<1>3. r = [s EXCEPT !.prog = p]
  BY <1>1 DEF Thread
<1> QED
  BY <1>2, <1>3 DEF Thread, Bodied

LEMMA RestFields ==
  ASSUME NEW s \in Thread, s.prog.body # <<>>, Chain(s.prog.body)
  PROVE  Bodied(s, Tail(s.prog.body), Rest(s))
<1>1. s.prog.body \in Seq(Items)
  BY DEF Thread, Progs
<1>2. PICK b \in Seq(Items) : b = Tail(s.prog.body)
  BY <1>1, ChainTail
<1>3. PICK r : r = Rest(s) /\ r = [s EXCEPT !.prog.body = b]
  BY <1>2 DEF Rest, Thread, Progs
<1>4. Bodied(s, b, r)
  BY <1>2, <1>3, BodyFields
<1> QED
  BY <1>2, <1>3, <1>4

(* The innermost of a thread's transactions. *)
LEMMA TopFrame ==
  ASSUME NEW s \in Thread, FramesRight(s), s.frames # <<>>
  PROVE  /\ Len(s.frames) \in Nat /\ Len(s.frames) >= 1 /\ Len(s.frames) \in DOMAIN s.frames
         /\ s.frames[Len(s.frames)] \in Frames /\ s.tls = s.frames[Len(s.frames)].eng
         /\ s.tls \in Engines /\ s.tls \in Engs(s) /\ s.tls # None
<1>1. s.frames \in Seq(Frames)
  BY DEF Thread
<1>2. Len(s.frames) \in Nat /\ Len(s.frames) >= 1 /\ Len(s.frames) \in DOMAIN s.frames
  BY <1>1
<1>3. s.frames[Len(s.frames)] \in Frames
  BY <1>1, <1>2
<1>4. s.tls = s.frames[Len(s.frames)].eng
  BY DEF FramesRight
<1>5. s.tls \in Engines /\ s.tls \in Engs(s)
  BY <1>2, <1>3, <1>4 DEF Frames, Engs
<1> QED
  BY <1>2, <1>3, <1>4, <1>5, Constants

LEMMA NoFrames ==
  ASSUME NEW s \in Thread, FramesRight(s)
  PROVE  /\ s.frames = <<>> <=> s.tls = None
         /\ s.frames = <<>> => Engs(s) = {}
<1>1. s.frames = <<>> => s.tls = None
  BY DEF FramesRight
<1>2. s.frames # <<>> => s.tls # None
  BY TopFrame
<1> QED
  BY <1>1, <1>2 DEF Engs

-----------------------------------------------------------------------------
(* Moves of the application: of one thread, that leave everything else.    *)

AppMove(t, r) ==
  /\ th[t].pc = "app" /\ ~th[t].err /\ r.err = FALSE
  /\ th' = [th EXCEPT ![t] = r] /\ r \in Thread /\ ThreadRight(r)
  /\ r.frames = th[t].frames /\ r.tls = th[t].tls /\ r.eng \in {None, r.tls}
  /\ r.pc \in {"app", "acquire", "stmt", "commit"}
  /\ Ups(r) = Ups(th[t]) /\ Downs(r) = Downs(th[t])
  /\ Stamped /\ WantRight(th[t].want) => WantRight(r.want)
  /\ r.pc \in {"acquire", "stmt"} /\ r.want.op = "log" => r.want.n = calls + 1 /\ calls' = calls + 1
  /\ calls' \in {calls, calls + 1} /\ calls' \in 0 .. MaxCalls
  /\ UNCHANGED <<dialect, store, conn, free, faults, tx>>

(* A thread at the application, and one that asks for a statement that is  *)
(* not a step of a migration.                                              *)
LEMMA NotHalf ==
  ASSUME NEW s, s.prog.own = FALSE
  PROVE  Ups(s) = {} /\ Downs(s) = {}
BY DEF Ups, Downs, Half

LEMMA IssueMoves ==
  ASSUME Types, ThreadsRight, NEW t \in Threads, th[t].pc = "app", ~th[t].err, th[t].prog.own = FALSE,
         NEW s \in Thread, s.frames = th[t].frames, s.tls = th[t].tls, s.eng = th[t].eng,
         s.prog.own = FALSE, Chain(s.prog.body), ~Heads(s, TxWords), RecRight(s.rec),
         NEW q \in Stmts, q.db \in Dbs, q.op \in StmtOps \ VersionOps,
         Heads(s, {"missing"}) => q.op = "applied",
         Heads(s, {"undo"}) => q.op = "last",
         Heads(s, Seen) => q.op = "select",
         Stamped /\ WantRight(th[t].want) => WantRight(q),
         q.op = "log" => q.n = calls + 1 /\ calls' = calls + 1,
         th' = [th EXCEPT ![t] = Issue(t, q, s)],
         calls' \in {calls, calls + 1}, calls' \in 0 .. MaxCalls,
         UNCHANGED <<dialect, store, conn, free, faults, tx>>
  PROVE  \E r : AppMove(t, r)
<1>1. PICK r : r = Issue(t, q, s)
  OBVIOUS
<1>0. Issued(s, q, r)
  BY <1>1, IssueFields
<1>2. /\ r \in Thread
      /\ r.want = q /\ r.err = FALSE /\ r.frames = s.frames /\ r.tls = s.tls /\ r.prog = s.prog
      /\ r.rec = s.rec /\ r.res = s.res /\ r.known = s.known
      /\ s.tls # None => r.pc = "stmt" /\ r.eng = s.tls
      /\ s.tls = None => r.pc = "acquire" /\ r.eng = s.eng
  BY <1>0 DEF Issued
<1>3. FramesRight(th[t]) /\ EngineRight(th[t])
  BY DEF ThreadsRight, ThreadRight
<1>4. FramesRight(r)
  BY <1>2, <1>3 DEF FramesRight
<1>5. th[t].eng = None /\ th[t].tls \in Engines \cup {None} /\ th[t].frames \in Seq(Frames)
  BY <1>3 DEF EngineRight, Types, Thread
<1>6. r.pc = "stmt" \/ r.pc = "acquire"
  BY <1>2
<1>7. EngineRight(r)
  <2>1. CASE r.pc = "stmt"
    <3>1. s.tls # None /\ r.eng = r.tls /\ r.eng \in Engines
      BY <1>2, <1>5, <2>1
    <3> QED
      BY <1>2, <2>1, <3>1 DEF EngineRight
  <2>2. CASE r.pc = "acquire"
    <3>1. s.tls = None /\ r.eng = None
      BY <1>2, <1>5, <2>2
    <3>2. r.frames = <<>>
      BY <1>2, <1>4, <3>1, NoFrames
    <3> QED
      BY <1>2, <2>2, <3>1, <3>2 DEF EngineRight
  <2> QED
    BY <1>6, <2>1, <2>2
<1>8. PlanRight(r)
  BY <1>2, <1>6 DEF PlanRight
<1>9. Heads(r, TxWords) = Heads(s, TxWords) /\ Heads(r, {"missing"}) = Heads(s, {"missing"})
      /\ Heads(r, {"undo"}) = Heads(s, {"undo"}) /\ Heads(r, Seen) = Heads(s, Seen)
  BY <1>2 DEF Heads
<1>10. TxRight(r)
  BY <1>2, <1>6, <1>9 DEF TxRight, VersionOps, StmtOps
<1>11. ResultRight(r)
  BY <1>2, <1>6, <1>9 DEF ResultRight
<1>12. Ups(r) = {} /\ Downs(r) = {} /\ Ups(th[t]) = {} /\ Downs(th[t]) = {}
  BY <1>2, NotHalf
<1>13. r.eng \in {None, r.tls}
  BY <1>2, <1>5
<1> QED
  BY <1>1, <1>2, <1>4, <1>6, <1>7, <1>8, <1>10, <1>11, <1>12, <1>13 DEF AppMove, ThreadRight

LEMMA SettleMoves ==
  ASSUME Types, ThreadsRight, NEW t \in Threads, th[t].pc = "app", ~th[t].err, th[t].prog.own = FALSE,
         NEW s \in Thread, s.pc = "app", s.err = FALSE,
         s.frames = th[t].frames, s.tls = th[t].tls, s.eng = th[t].eng, s.want = th[t].want,
         s.prog.own = FALSE, Chain(s.prog.body), ~Heads(s, TxWords), RecRight(s.rec),
         ~Heads(s, ({"missing", "undo"} \cup Seen)), th[t].want.db \in Dbs,
         th' = [th EXCEPT ![t] = Settle(s)] \/ th' = [th EXCEPT ![t] = s],
         calls' = calls, UNCHANGED <<dialect, store, conn, free, faults, tx>>
  PROVE  \E r : AppMove(t, r)
<1>1. PICK r : (r = Settle(s) \/ r = s) /\ th' = [th EXCEPT ![t] = r]
  OBVIOUS
<1>2. /\ r \in Thread
      /\ r.pc = "app" /\ r.eng = s.eng /\ r.tls = s.tls /\ r.frames = s.frames /\ r.rec = s.rec
      /\ r.prog.own = FALSE /\ r.err = FALSE
      /\ r = s \/ (r.want = NoStmt /\ r.prog = NoProg)
  <2>1. CASE r = Settle(s)
    <3>0. Settled(s, r)
      BY <2>1, SettleFields
    <3>1. /\ r \in Thread
          /\ r.pc = s.pc /\ r.eng = s.eng /\ r.tls = s.tls /\ r.frames = s.frames /\ r.rec = s.rec
          /\ r.prog.own = s.prog.own
          /\ ~Settles(s) => r = s
          /\ Settles(s) => r.want = NoStmt /\ r.err = FALSE /\ r.prog = NoProg
      BY <3>0 DEF Settled
    <3> QED
      BY <3>1
  <2>2. CASE r = s
    BY <2>2
  <2> QED
    BY <1>1, <2>1, <2>2
<1>3. FramesRight(th[t]) /\ EngineRight(th[t])
  BY DEF ThreadsRight, ThreadRight
<1>4. FramesRight(r)
  BY <1>2, <1>3 DEF FramesRight
<1>5. th[t].eng = None
  BY <1>3 DEF EngineRight
<1>6. EngineRight(r)
  BY <1>2, <1>5 DEF EngineRight
<1>7. Chain(r.prog.body) /\ ~Heads(r, TxWords) /\ ~Heads(r, ({"missing", "undo"} \cup Seen))
  BY <1>2, NoProgIs DEF Heads
<1>8. PlanRight(r)
  <2>1. r.prog.body # <<>> => r.want.db \in Dbs
    BY <1>2, NoProgIs
  <2> QED
    BY <1>2, <1>7, <2>1 DEF PlanRight
<1>9. TxRight(r)
  BY <1>2, <1>7 DEF TxRight
<1>10. ResultRight(r)
  BY <1>2, <1>7 DEF ResultRight, Heads
<1>11. Ups(r) = {} /\ Downs(r) = {} /\ Ups(th[t]) = {} /\ Downs(th[t]) = {}
  BY <1>2, NotHalf
<1>12. WantRight(th[t].want) => WantRight(r.want)
  BY <1>2, NoWant
<1>13. calls' \in 0 .. MaxCalls
  BY DEF Types
<1> QED
  BY <1>1, <1>2, <1>4, <1>5, <1>6, <1>8, <1>9, <1>10, <1>11, <1>12, <1>13 DEF AppMove, ThreadRight

-----------------------------------------------------------------------------
(* The moves of the application, one by one.                               *)

AtHome(t) ==
  /\ th[t] \in Thread /\ th[t].pc = "app" /\ ~th[t].err /\ th[t].prog.own = FALSE
  /\ RecRight(th[t].rec)
  /\ Chain(th[t].prog.body)

LEMMA Called ==
  ASSUME Types, ThreadsRight, NEW t \in Threads, NEW x, Call(t, x)
  PROVE  /\ AtHome(t) /\ th[t].prog.body = <<>>
         /\ calls' = calls + 1 /\ calls \in Nat /\ calls' \in 0 .. MaxCalls
<1>1. th[t].pc = "app" /\ th[t].prog = NoProg /\ calls < MaxCalls /\ calls' = calls + 1
  BY DEF Call
<1>2. th[t] \in Thread /\ calls \in 0 .. MaxCalls /\ MaxCalls \in Nat
  BY Constants DEF Types
<1>3. TxRight(th[t]) /\ PlanRight(th[t])
  BY DEF ThreadsRight, ThreadRight
<1>4. th[t].prog.own = FALSE /\ th[t].prog.body = <<>>
  BY <1>1, NoProgIs
<1>5. ~th[t].err
  BY <1>1, <1>3, <1>4 DEF TxRight
<1>6. AtHome(t)
  BY <1>1, <1>2, <1>3, <1>4, <1>5 DEF AtHome, PlanRight
<1> QED
  BY <1>1, <1>2, <1>4, <1>6

(* At a word, and what is left after it. *)
Arrived(t, w) ==
  /\ AtHome(t) /\ th[t].prog.body # <<>> /\ th[t].prog.body[1] = <<w>> /\ th[t].want.db \in Dbs
  /\ Bodied(th[t], Tail(th[t].prog.body), Rest(th[t]))
  /\ Chain(Tail(th[t].prog.body)) /\ Tail(th[t].prog.body) \in Seq(Items)
  /\ w \in Words \ {"begin", "applied"} => Tail(th[t].prog.body) = <<>>
  /\ w = "applied" => Tail(th[t].prog.body) = <<>> \/ Tail(th[t].prog.body)[1] = <<"missing">>
  /\ w = "begin" => Tail(th[t].prog.body) # <<>> /\ Tail(th[t].prog.body)[1] \in Openers

LEMMA Arrives ==
  ASSUME Types, ThreadsRight, NEW t \in Threads, NEW w \in Words \ {"commit"}, At(t, w)
  PROVE  Arrived(t, w)
<1>1. th[t] \in Thread /\ th[t].prog \in Progs /\ th[t].prog.body \in Seq(Items)
  BY DEF Types, Thread, Progs
<1>2. PICK b \in Seq(Items) : b = th[t].prog.body
  BY <1>1
<1>3. th[t].pc = "app" /\ ~th[t].err /\ b # <<>> /\ b[1][1] = w /\ b[1] \in Items
  BY <1>2 DEF At
<1>4. b[1] = <<w>>
  BY <1>3, ItemKinds DEF Words
<1>5. TxRight(th[t]) /\ PlanRight(th[t])
  BY DEF ThreadsRight, ThreadRight
<1>6. Chain(b) /\ th[t].want.db \in Dbs /\ RecRight(th[t].rec)
  BY <1>2, <1>3, <1>5 DEF PlanRight
<1>7. ~Heads(th[t], TxWords)
  BY <1>2, <1>3 DEF Heads, TxWords, VersionOps, Words
<1>8. th[t].prog.own = FALSE
  BY <1>1, <1>3, <1>5, <1>7 DEF TxRight, Progs
<1>9. AtHome(t)
  BY <1>1, <1>2, <1>3, <1>6, <1>8 DEF AtHome
<1>10. Bodied(th[t], Tail(b), Rest(th[t]))
  BY <1>1, <1>2, <1>3, <1>6, RestFields
<1>11. /\ Tail(b) \in Seq(Items) /\ Chain(Tail(b))
       /\ Tail(b) # <<>> => Follow(b[1], Tail(b)[1])
       /\ b[1][1] \in VersionOps \cup {"begin"} => Tail(b) # <<>>
  BY <1>2, <1>3, <1>6, ChainTail
<1>12. w \in Words \ {"begin", "applied"} => Tail(b) = <<>>
  BY <1>3, <1>11 DEF Follow, TxWords, VersionOps, Words
<1>13. w = "applied" => Tail(b) = <<>> \/ Tail(b)[1] = <<"missing">>
  BY <1>3, <1>11 DEF Follow, TxWords, VersionOps
<1>14. w = "begin" => Tail(b) # <<>> /\ Tail(b)[1] \in Openers
  BY <1>3, <1>11 DEF Follow, TxWords, VersionOps
<1> QED
  BY <1>2, <1>3, <1>4, <1>6, <1>9, <1>10, <1>11, <1>12, <1>13, <1>14 DEF Arrived

LEMMA SomeValues ==
  ASSUME NEW n \in Nat
  PROVE  Value(n) \in [Columns -> Nat]
BY DEF Value

(* A statement made from the empty one. *)
LEMMA Asks ==
  /\ NoStmt \in Stmts /\ WantRight(NoStmt)
  /\ NoStmt.op = None /\ NoStmt.cols = {} /\ NoStmt.meant = {}
BY RecordTypes, NoProgIs, NoWant

LEMMA ExecMoves ==
  ASSUME Types, ThreadsRight, NEW t \in Threads, Exec(t)
  PROVE  \E r : AppMove(t, r)
<1>1. PICK d \in Dbs :
        th' = [th EXCEPT ![t] = Issue(t, [NoStmt EXCEPT !.op = "log", !.db = d, !.n = calls + 1], th[t])]
  BY Zenon DEF Exec
<1>2. PICK q : q = [NoStmt EXCEPT !.op = "log", !.db = d, !.n = calls + 1]
  OBVIOUS
<1>3. Call(t, "exec") /\ UNCHANGED <<dialect, store, conn, free, faults, tx>>
  BY DEF Exec, others
<1>4. /\ AtHome(t) /\ th[t].prog.body = <<>>
      /\ calls' = calls + 1 /\ calls \in Nat /\ calls' \in 0 .. MaxCalls
  BY <1>3, Called
<1>5. q \in Stmts /\ q.op = "log" /\ q.db = d /\ q.n = calls + 1 /\ WantRight(q)
  <2>1. calls + 1 \in Nat
    BY <1>4
  <2> QED
    BY <1>2, <2>1, Asks DEF Stmts, StmtOps, WantRight
<1>6. th' = [th EXCEPT ![t] = Issue(t, q, th[t])]
  BY <1>1, <1>2, Zenon
<1>7. ~Heads(th[t], TxWords) /\ ~Heads(th[t], {"missing"}) /\ ~Heads(th[t], {"undo"})
      /\ ~Heads(th[t], Seen)
  BY <1>4 DEF Heads
<1> QED
  BY <1>3, <1>4, <1>5, <1>6, <1>7, IssueMoves DEF AtHome, StmtOps, VersionOps

(* A call that throws before it has asked for anything: only the record is *)
(* another.                                                                *)
LEMMA RecMoves ==
  ASSUME Types, ThreadsRight, NEW t \in Threads, AtHome(t), th[t].prog.body = <<>>,
         NEW c \in Recs, RecRight(c), th' = [th EXCEPT ![t] = [th[t] EXCEPT !.rec = c]],
         calls' \in {calls, calls + 1}, calls' \in 0 .. MaxCalls,
         UNCHANGED <<dialect, store, conn, free, faults, tx>>
  PROVE  \E r : AppMove(t, r)
<1>1. PICK r : r = [th[t] EXCEPT !.rec = c]
  OBVIOUS
<1>2. /\ r \in Thread /\ r.rec = c
      /\ r.pc = "app" /\ r.eng = th[t].eng /\ r.tls = th[t].tls /\ r.frames = th[t].frames
      /\ r.prog = th[t].prog /\ r.want = th[t].want /\ r.err = FALSE
  BY <1>1 DEF AtHome, Thread
<1>3. FramesRight(th[t]) /\ EngineRight(th[t]) /\ PlanRight(th[t])
  BY DEF ThreadsRight, ThreadRight
<1>4. FramesRight(r)
  BY <1>2, <1>3 DEF FramesRight
<1>5. th[t].eng = None /\ r.prog.own = FALSE /\ r.prog.body = <<>>
  BY <1>2, <1>3 DEF EngineRight, AtHome
<1>6. EngineRight(r)
  BY <1>2, <1>5 DEF EngineRight
<1>7. PlanRight(r)
  BY <1>2, <1>3, <1>5 DEF PlanRight
<1>8. ~Heads(r, TxWords) /\ ~Heads(r, {"missing"}) /\ ~Heads(r, {"undo"})
      /\ ~Heads(r, {"missing", "undo"}) /\ ~Heads(r, Seen)
  BY <1>5 DEF Heads
<1>9. TxRight(r)
  BY <1>2, <1>5, <1>8 DEF TxRight
<1>10. ResultRight(r)
  BY <1>2, <1>8 DEF ResultRight
<1>11. Ups(r) = {} /\ Downs(r) = {} /\ Ups(th[t]) = {} /\ Downs(th[t]) = {}
  BY <1>5, NotHalf DEF AtHome
<1>12. th' = [th EXCEPT ![t] = r]
  BY <1>1
<1> QED
  BY <1>2, <1>4, <1>5, <1>6, <1>7, <1>9, <1>10, <1>11, <1>12 DEF AppMove, ThreadRight, AtHome

LEMMA DestroyMoves ==
  ASSUME Types, ThreadsRight, NEW t \in Threads, Destroy(t)
  PROVE  \E r : AppMove(t, r)
<1>2. Call(t, "destroy") /\ th[t].rec.id # 0 /\ UNCHANGED <<dialect, store, conn, free, faults, tx>>
  BY DEF Destroy, others
<1>3. /\ AtHome(t) /\ th[t].prog.body = <<>>
      /\ calls' = calls + 1 /\ calls \in Nat /\ calls' \in 0 .. MaxCalls
  BY <1>2, Called
<1>4. th[t].rec.db \in Dbs /\ th[t].rec.id \in Nat
  BY <1>2, <1>3 DEF AtHome, Thread, Recs, RecRight
<1>5. CASE th[t].rec.text
  <2>1. th' = th
    BY <1>5, Zenon DEF Destroy
  <2>2. th[t].rec \in Recs /\ RecRight(th[t].rec) /\ th[t] \in Thread
    BY <1>3 DEF AtHome, Thread
  <2>3. th[t] = [th[t] EXCEPT !.rec = th[t].rec]
    BY <2>2 DEF Thread
  <2>4. th' = [th EXCEPT ![t] = [th[t] EXCEPT !.rec = th[t].rec]]
    BY <2>1, <2>3 DEF Types
  <2> QED
    BY <1>2, <1>3, <2>2, <2>4, RecMoves
<1>6. CASE ~th[t].rec.text
  <2>1. PICK q : /\ q = [NoStmt EXCEPT !.op = "delete", !.db = th[t].rec.db, !.id = th[t].rec.id]
                 /\ th' = [th EXCEPT ![t] = Issue(t, q, th[t])]
    BY <1>6, Zenon DEF Destroy
  <2>2. q \in Stmts /\ q.op = "delete" /\ q.db \in Dbs /\ WantRight(q)
    BY <1>4, <2>1, Asks DEF Stmts, StmtOps, WantRight
  <2>3. ~Heads(th[t], TxWords) /\ ~Heads(th[t], {"missing"}) /\ ~Heads(th[t], {"undo"})
        /\ ~Heads(th[t], Seen)
    BY <1>3 DEF Heads
  <2> QED
    BY <1>2, <1>3, <2>1, <2>2, <2>3, IssueMoves DEF AtHome, StmtOps, VersionOps
<1> QED
  BY <1>5, <1>6

(* A call that starts with a statement and goes on with one word. *)
Starts(t, x, body, w, q, s) ==
  /\ Call(t, x) /\ x \in AllOps
  /\ body \in Seq(Items) /\ Chain(body) /\ body # <<>> /\ body[1] = <<w>> /\ w \notin TxWords
  /\ q \in Stmts /\ q.db \in Dbs /\ q.op \in StmtOps \ (VersionOps \cup {"log"})
  /\ w = "missing" => q.op = "applied"
  /\ w = "undo" => q.op = "last"
  /\ w \in Seen => q.op = "select"
  /\ Stamped /\ WantRight(th[t].want) => WantRight(q)
  /\ s \in Thread /\ s.frames = th[t].frames /\ s.tls = th[t].tls /\ s.eng = th[t].eng
  /\ s.prog.body = body /\ s.prog.own = FALSE /\ RecRight(s.rec)
  /\ th' = [th EXCEPT ![t] = Issue(t, q, s)]
  /\ UNCHANGED <<dialect, store, conn, free, faults, tx>>

LEMMA StartMoves ==
  ASSUME Types, ThreadsRight, NEW t \in Threads, NEW x, NEW body, NEW w, NEW q, NEW s,
         Starts(t, x, body, w, q, s)
  PROVE  \E r : AppMove(t, r)
<1>1. /\ AtHome(t) /\ th[t] \in Thread /\ th[t].prog.body = <<>>
      /\ calls' = calls + 1 /\ calls \in Nat /\ calls' \in 0 .. MaxCalls
  BY Called DEF AtHome, Starts
<1>2. ~Heads(s, TxWords) /\ (Heads(s, {"missing"}) => w = "missing") /\ (Heads(s, {"undo"}) => w = "undo")
      /\ (Heads(s, Seen) => w \in Seen)
  BY DEF Heads, Starts
<1> QED
  BY <1>1, <1>2, IssueMoves DEF AtHome, Starts

LEMMA MigrateMoves ==
  ASSUME Types, ThreadsRight, NEW t \in Threads, Migrate(t)
  PROVE  \E r : AppMove(t, r)
<1> DEFINE body == <<<<"applied">>, <<"missing">>>>
<1>1. PICK d \in Migrated :
        th' = [th EXCEPT ![t] = Issue(t, [NoStmt EXCEPT !.op = "table", !.db = d], Start(th[t], "migrate", body))]
  BY Zenon DEF Migrate
<1>2. PICK q : q = [NoStmt EXCEPT !.op = "table", !.db = d]
  OBVIOUS
<1>3. PICK p : p = Start(th[t], "migrate", body)
  OBVIOUS
<1>4. Call(t, "migrate") /\ UNCHANGED <<dialect, store, conn, free, faults, tx>>
  BY DEF Migrate, others
<1>5. d \in Dbs
  BY Constants
<1>6. q \in Stmts /\ q.op = "table" /\ q.db = d /\ WantRight(q)
  BY <1>2, <1>5, Asks DEF Stmts, StmtOps, WantRight
<1>7. body \in Seq(Items) /\ Chain(body) /\ body # <<>> /\ body[1] = <<"applied">>
  BY MigrateChain
<1>8. AtHome(t)
  BY <1>4, Called
<1> HIDE DEF body
<1>9. Started(th[t], "migrate", body, p)
  BY <1>3, <1>7, <1>8, StartFields DEF AtHome, AllOps
<1>10. /\ p \in Thread /\ p.frames = th[t].frames /\ p.tls = th[t].tls /\ p.eng = th[t].eng
       /\ p.prog.body = body /\ p.prog.own = FALSE /\ RecRight(p.rec)
  BY <1>8, <1>9 DEF Started, AtHome
<1>11. th' = [th EXCEPT ![t] = Issue(t, q, p)]
  BY <1>1, <1>2, <1>3, Zenon
<1>12. "applied" \notin TxWords /\ q.op \in StmtOps \ (VersionOps \cup {"log"}) /\ "migrate" \in AllOps
  BY <1>6 DEF TxWords, VersionOps, StmtOps, AllOps
<1>13. Starts(t, "migrate", body, "applied", q, p)
  BY <1>4, <1>5, <1>6, <1>7, <1>10, <1>11, <1>12 DEF Starts, Seen
<1> QED
  BY <1>13, StartMoves

LEMMA SightRows ==
  ASSUME Types, NEW t \in Threads, NEW d \in Dbs
  PROVE  Sight(t, d) \in States /\ \A r \in Sight(t, d).rows : r \in Rows /\ r.id \in Nat
<1>1. Sight(t, d) \in States
  <2>1. CASE th[t].tls # None /\ DbOf[th[t].tls] = d
    <3>1. th[t].tls \in Engines
      BY <2>1 DEF Types, Thread
    <3>2. conn[th[t].tls].wrote \in States \cup {None} /\ store[d] \in States
      BY <3>1 DEF Types, Conns
    <3> QED
      BY <2>1, <3>2 DEF Sight, Sees
  <2>2. CASE ~(th[t].tls # None /\ DbOf[th[t].tls] = d)
    BY <2>2 DEF Sight, Types
  <2> QED
    BY <2>1, <2>2
<1>2. Sight(t, d).rows \subseteq Rows
  BY <1>1 DEF States
<1> QED
  BY <1>1, <1>2 DEF Rows

LEMMA RollbackLastMoves ==
  ASSUME Types, ThreadsRight, NEW t \in Threads, RollbackLast(t)
  PROVE  \E r : AppMove(t, r)
<1> DEFINE body == <<<<"undo">>>>
<1>1. PICK d \in Migrated :
        th' = [th EXCEPT ![t] = Issue(t, [NoStmt EXCEPT !.op = "last", !.db = d], Start(th[t], "rollbackLast", body))]
  BY Zenon DEF RollbackLast
<1>2. PICK q : q = [NoStmt EXCEPT !.op = "last", !.db = d]
  OBVIOUS
<1>3. PICK p : p = Start(th[t], "rollbackLast", body)
  OBVIOUS
<1>4. Call(t, "rollbackLast") /\ UNCHANGED <<dialect, store, conn, free, faults, tx>>
  BY DEF RollbackLast, others
<1>5. d \in Dbs /\ AtHome(t) /\ calls + 1 \in Nat
  BY <1>4, Constants, Called
<1>6. q \in Stmts /\ q.op = "last" /\ q.db = d /\ WantRight(q)
  BY <1>2, <1>5, Asks DEF Stmts, StmtOps, WantRight
<1>7. body \in Seq(Items) /\ Chain(body) /\ body # <<>> /\ body[1] = <<"undo">>
  BY SingleChain DEF Words
<1> HIDE DEF body
<1>8. Started(th[t], "rollbackLast", body, p)
  BY <1>3, <1>5, <1>7, StartFields DEF AtHome, AllOps
<1>9. PICK s \in Thread :
        /\ s = p /\ s.frames = th[t].frames /\ s.tls = th[t].tls /\ s.eng = th[t].eng
        /\ s.prog.body = body /\ s.prog.own = FALSE /\ RecRight(s.rec)
  BY <1>5, <1>8 DEF Started, AtHome
<1>10. th' = [th EXCEPT ![t] = Issue(t, q, s)]
  BY <1>1, <1>2, <1>3, <1>9, Zenon DEF body
<1>11. "undo" \notin TxWords /\ q.op \in StmtOps \ (VersionOps \cup {"log"}) /\ "rollbackLast" \in AllOps
  BY <1>6 DEF TxWords, VersionOps, StmtOps, AllOps
<1>12. Starts(t, "rollbackLast", body, "undo", q, s)
  BY <1>4, <1>5, <1>6, <1>7, <1>9, <1>10, <1>11 DEF Starts, Seen
<1> QED
  BY <1>12, StartMoves

(* A call reads the row of a key. *)
LEMMA SelectAsks ==
  ASSUME Types, NEW d \in Dbs, NEW k \in Keys, calls + 1 \in Nat
  PROVE  /\ Select(d, k) \in Stmts /\ Select(d, k).op = "select" /\ Select(d, k).db = d
         /\ WantRight(Select(d, k))
<1>1. PICK s \in Stmts : s = NoStmt /\ WantRight(s)
  BY Asks
<1>2. PICK n \in Nat : n = calls + 1
  OBVIOUS
<1>3. PICK q : q = [s EXCEPT !.op = "select", !.db = d, !.key = k, !.n = n]
  OBVIOUS
<1>4. q = Select(d, k)
  BY <1>1, <1>2, <1>3 DEF Select
<1>5. q.op = "select" /\ q.db = d /\ WantRight(q)
  BY <1>3 DEF Stmts, WantRight
<1>6. q \in Stmts
  BY <1>3 DEF Stmts, StmtOps
<1> QED
  BY <1>1, <1>4, <1>5, <1>6

LEMMA UpdateOrCreateMoves ==
  ASSUME Types, ThreadsRight, NEW t \in Threads, UpdateOrCreate(t)
  PROVE  \E r : AppMove(t, r)
<1> DEFINE body == <<<<"orUpdate">>>>
<1>1. PICK d \in Migrated, k \in Keys :
        th' = [th EXCEPT ![t] = Issue(t, Select(d, k), Start(th[t], "updateOrCreate", body))]
  BY Zenon DEF UpdateOrCreate
<1>2. PICK q : q = Select(d, k)
  OBVIOUS
<1>3. PICK p : p = Start(th[t], "updateOrCreate", body)
  OBVIOUS
<1>4. Call(t, "updateOrCreate") /\ UNCHANGED <<dialect, store, conn, free, faults, tx>>
  BY DEF UpdateOrCreate, others
<1>5. d \in Dbs /\ AtHome(t) /\ calls + 1 \in Nat
  BY <1>4, Constants, Called
<1>6. q \in Stmts /\ q.op = "select" /\ q.db = d /\ WantRight(q)
  BY <1>2, <1>5, SelectAsks
<1>7. body \in Seq(Items) /\ Chain(body) /\ body # <<>> /\ body[1] = <<"orUpdate">>
  BY SingleChain DEF Words
<1> HIDE DEF body
<1>8. Started(th[t], "updateOrCreate", body, p)
  BY <1>3, <1>5, <1>7, StartFields DEF AtHome, AllOps
<1>9. PICK s \in Thread :
        /\ s = p /\ s.frames = th[t].frames /\ s.tls = th[t].tls /\ s.eng = th[t].eng
        /\ s.prog.body = body /\ s.prog.own = FALSE /\ RecRight(s.rec)
  BY <1>5, <1>8 DEF Started, AtHome
<1>10. th' = [th EXCEPT ![t] = Issue(t, q, s)]
  BY <1>1, <1>2, <1>3, <1>9, Zenon DEF body
<1>11. "orUpdate" \notin TxWords /\ q.op \in StmtOps \ (VersionOps \cup {"log"}) /\ "updateOrCreate" \in AllOps
  BY <1>6 DEF TxWords, VersionOps, StmtOps, AllOps
<1>12. Starts(t, "updateOrCreate", body, "orUpdate", q, s)
  BY <1>4, <1>5, <1>6, <1>7, <1>9, <1>10, <1>11 DEF Starts, Seen
<1> QED
  BY <1>12, StartMoves

LEMMA LoadMoves ==
  ASSUME Types, ThreadsRight, NEW t \in Threads, Load(t)
  PROVE  \E r : AppMove(t, r)
<1> DEFINE body == <<<<"loaded">>>>
<1>1. PICK d \in Migrated, k \in Keys :
        th' = [th EXCEPT ![t] = Issue(t, Select(d, k), Start(th[t], "load", body))]
  BY Zenon DEF Load
<1>2. PICK q : q = Select(d, k)
  OBVIOUS
<1>3. PICK p : p = Start(th[t], "load", body)
  OBVIOUS
<1>4. Call(t, "load") /\ UNCHANGED <<dialect, store, conn, free, faults, tx>>
  BY DEF Load, others
<1>5. d \in Dbs /\ AtHome(t) /\ calls + 1 \in Nat
  BY <1>4, Constants, Called
<1>6. q \in Stmts /\ q.op = "select" /\ q.db = d /\ WantRight(q)
  BY <1>2, <1>5, SelectAsks
<1>7. body \in Seq(Items) /\ Chain(body) /\ body # <<>> /\ body[1] = <<"loaded">>
  BY SingleChain DEF Words
<1> HIDE DEF body
<1>8. Started(th[t], "load", body, p)
  BY <1>3, <1>5, <1>7, StartFields DEF AtHome, AllOps
<1>9. PICK s \in Thread :
        /\ s = p /\ s.frames = th[t].frames /\ s.tls = th[t].tls /\ s.eng = th[t].eng
        /\ s.prog.body = body /\ s.prog.own = FALSE /\ RecRight(s.rec)
  BY <1>5, <1>8 DEF Started, AtHome
<1>10. th' = [th EXCEPT ![t] = Issue(t, q, s)]
  BY <1>1, <1>2, <1>3, <1>9, Zenon DEF body
<1>11. "loaded" \notin TxWords /\ q.op \in StmtOps \ (VersionOps \cup {"log"}) /\ "load" \in AllOps
  BY <1>6 DEF TxWords, VersionOps, StmtOps, AllOps
<1>12. Starts(t, "load", body, "loaded", q, s)
  BY <1>4, <1>5, <1>6, <1>7, <1>9, <1>10, <1>11 DEF Starts, Seen
<1> QED
  BY <1>12, StartMoves

LEMMA CreateMoves ==
  ASSUME Types, ThreadsRight, NEW t \in Threads, Create(t)
  PROVE  \E r : AppMove(t, r)
<1> DEFINE body == <<<<"created">>>>
<1>1. PICK d \in Migrated, k \in Keys :
        th' = [th EXCEPT ![t] = Issue(t, [Select(d, k) EXCEPT !.op = "insert", !.val = Value(calls + 1)], 
                                        Start(th[t], "create", body))]
  BY Zenon DEF Create
<1>2. PICK q : q = [Select(d, k) EXCEPT !.op = "insert", !.val = Value(calls + 1)]
  OBVIOUS
<1>3. PICK p : p = Start(th[t], "create", body)
  OBVIOUS
<1>4. Call(t, "create") /\ UNCHANGED <<dialect, store, conn, free, faults, tx>>
  BY DEF Create, others
<1>5. d \in Dbs /\ AtHome(t) /\ calls + 1 \in Nat
  BY <1>4, Constants, Called
<1>6. q \in Stmts /\ q.op = "insert" /\ q.db = d /\ WantRight(q)
  <2>1. PICK s \in Stmts : s = Select(d, k) /\ s.db = d /\ WantRight(s)
    BY <1>5, SelectAsks
  <2>2. PICK v \in [Columns -> Nat] : v = Value(calls + 1)
    BY <1>5, SomeValues
  <2>3. q = [s EXCEPT !.op = "insert", !.val = v]
    BY <1>2, <2>1, <2>2
  <2> QED
    BY <2>1, <2>3 DEF Stmts, StmtOps, WantRight
<1>7. body \in Seq(Items) /\ Chain(body) /\ body # <<>> /\ body[1] = <<"created">>
  BY SingleChain DEF Words
<1> HIDE DEF body
<1>8. Started(th[t], "create", body, p)
  BY <1>3, <1>5, <1>7, StartFields DEF AtHome, AllOps
<1>9. PICK s \in Thread :
        /\ s = p /\ s.frames = th[t].frames /\ s.tls = th[t].tls /\ s.eng = th[t].eng
        /\ s.prog.body = body /\ s.prog.own = FALSE /\ RecRight(s.rec)
  BY <1>5, <1>8 DEF Started, AtHome
<1>10. th' = [th EXCEPT ![t] = Issue(t, q, s)]
  BY <1>1, <1>2, <1>3, <1>9, Zenon DEF body
<1>11. "created" \notin TxWords /\ q.op \in StmtOps \ (VersionOps \cup {"log"}) /\ "create" \in AllOps
  BY <1>6 DEF TxWords, VersionOps, StmtOps, AllOps
<1>12. Starts(t, "create", body, "created", q, s)
  BY <1>4, <1>5, <1>6, <1>7, <1>9, <1>10, <1>11 DEF Starts, Seen
<1> QED
  BY <1>12, StartMoves

LEMMA FirstOrCreateMoves ==
  ASSUME Types, ThreadsRight, NEW t \in Threads, FirstOrCreate(t)
  PROVE  \E r : AppMove(t, r)
<1> DEFINE body == <<<<"orCreate">>>>
<1>1. PICK d \in Migrated, k \in Keys :
        th' = [th EXCEPT ![t] = Issue(t, Select(d, k), 
          [Start(th[t], "firstOrCreate", body) EXCEPT
             !.known = {r.id : r \in {r \in Sight(t, d).rows : r.key = k}}])]
  BY Zenon DEF FirstOrCreate
<1>2. PICK q : q = Select(d, k)
  OBVIOUS
<1>3. PICK p : p = Start(th[t], "firstOrCreate", body)
  OBVIOUS
<1>4. Call(t, "firstOrCreate") /\ UNCHANGED <<dialect, store, conn, free, faults, tx>>
  BY DEF FirstOrCreate, others
<1>5. d \in Dbs /\ AtHome(t) /\ calls + 1 \in Nat
  BY <1>4, Constants, Called
<1>6. q \in Stmts /\ q.op = "select" /\ q.db = d /\ WantRight(q)
  BY <1>2, <1>5, SelectAsks
<1>7. body \in Seq(Items) /\ Chain(body) /\ body # <<>> /\ body[1] = <<"orCreate">>
  BY SingleChain DEF Words
<1> HIDE DEF body
<1>8. Started(th[t], "firstOrCreate", body, p)
  BY <1>3, <1>5, <1>7, StartFields DEF AtHome, AllOps
<1>9. PICK s \in Thread :
        /\ s = [p EXCEPT !.known = {r.id : r \in {r \in Sight(t, d).rows : r.key = k}}]
        /\ s.frames = th[t].frames /\ s.tls = th[t].tls /\ s.eng = th[t].eng
        /\ s.prog.body = body /\ s.prog.own = FALSE /\ RecRight(s.rec)
  <2>1. {r.id : r \in {r \in Sight(t, d).rows : r.key = k}} \subseteq Nat
    BY <1>5, SightRows
  <2>2. PICK ids \in SUBSET Nat : ids = {r.id : r \in {r \in Sight(t, d).rows : r.key = k}}
    BY <2>1
  <2>3. PICK s : s = [p EXCEPT !.known = ids]
    OBVIOUS
  <2>4. p \in Thread /\ p.frames = th[t].frames /\ p.tls = th[t].tls /\ p.eng = th[t].eng
        /\ p.prog.body = body /\ p.prog.own = FALSE /\ p.rec = th[t].rec
    BY <1>8 DEF Started
  <2>5. /\ s \in Thread /\ s.frames = th[t].frames /\ s.tls = th[t].tls /\ s.eng = th[t].eng
        /\ s.prog.body = body /\ s.prog.own = FALSE /\ s.rec = th[t].rec
    BY <2>3, <2>4 DEF Thread
  <2>6. RecRight(s.rec)
    BY <1>5, <2>5 DEF AtHome
  <2> QED
    BY <2>2, <2>3, <2>5, <2>6
<1>10. th' = [th EXCEPT ![t] = Issue(t, q, s)]
  BY <1>1, <1>2, <1>3, <1>9, Zenon DEF body
<1>11. "orCreate" \notin TxWords /\ q.op \in StmtOps \ (VersionOps \cup {"log"}) /\ "firstOrCreate" \in AllOps
  BY <1>6 DEF TxWords, VersionOps, StmtOps, AllOps
<1>12. Starts(t, "firstOrCreate", body, "orCreate", q, s)
  BY <1>4, <1>5, <1>6, <1>7, <1>9, <1>10, <1>11 DEF Starts, Seen
<1> QED
  BY <1>12, StartMoves

(* A record of which some columns have been set, and what saves it. *)
LEMMA ChangedRight ==
  ASSUME NEW rec \in Recs, RecRight(rec), NEW cols \in SUBSET Columns, NEW n \in Nat,
         NEW c, c = Changed(rec, cols, n)
  PROVE  c \in Recs /\ RecRight(c) /\ c.id = rec.id /\ c.db = rec.db /\ c.text = rec.text
<1>1. PICK v : v = Assign(rec.val, cols, Value(n))
  OBVIOUS
<1>2. rec.val \in [Columns -> Nat] /\ Value(n) \in [Columns -> Nat]
  BY SomeValues DEF Recs
<1>3. v \in [Columns -> Nat] /\ \A x \in Columns \ cols : v[x] = rec.val[x]
  BY <1>1, <1>2 DEF Assign
<1>4. c = [rec EXCEPT !.val = v, !.dirty = rec.dirty \cup cols, !.made = rec.made \ cols]
  BY <1>1 DEF Changed
<1>5. c \in Recs /\ c.id = rec.id /\ c.db = rec.db /\ c.text = rec.text
  BY <1>3, <1>4 DEF Recs
<1>6. c.made = rec.made \ cols /\ c.val = v /\ rec.made \subseteq Columns
  BY <1>4 DEF Recs
<1>7. RecRight(c)
  BY <1>3, <1>5, <1>6 DEF RecRight
<1> QED
  BY <1>5, <1>7

LEMMA UpdateRight ==
  ASSUME NEW c \in Recs, RecRight(c), c.id # 0, NEW q, q = Update(c)
  PROVE  q \in Stmts /\ q.op = "update" /\ q.db \in Dbs /\ (Stamped => WantRight(q))
<1>1. c.db \in Dbs /\ c.dirty \in SUBSET Columns /\ Patch(c.dirty) \in SUBSET Columns
  BY DEF RecRight, Recs, Patch
<1>2. PICK ps \in SUBSET Columns : ps = Patch(c.dirty)
  BY <1>1
<1>0. PICK ms \in SUBSET Columns, v \in [Columns -> Nat], n \in Nat :
        ms = c.dirty \ c.made /\ v = c.val /\ n = c.id
  BY <1>1 DEF Recs
<1>3. q = [NoStmt EXCEPT !.op = "update", !.db = c.db, !.id = n, !.cols = ps, !.meant = ms, !.val = v]
  BY <1>0, <1>2 DEF Update
<1>7. q \in Stmts /\ q.op = "update" /\ q.db \in Dbs /\ q.id = n /\ q.cols = ps /\ q.meant = ms /\ q.val = v
  BY <1>1, <1>3, Asks DEF Stmts, StmtOps
<1>4. /\ q \in Stmts /\ q.op = "update" /\ q.db \in Dbs
      /\ q.id = c.id /\ q.cols = ps /\ q.meant = c.dirty \ c.made /\ q.val = c.val
  BY <1>0, <1>7
<1>5. Stamped => ps = c.dirty
  BY <1>2 DEF Patch
<1>6. ASSUME Stamped PROVE WantRight(q)
  <2>1. q.meant \subseteq q.cols /\ \A x \in q.cols \ q.meant : x \in c.made
    BY <1>4, <1>5, <1>6
  <2> QED
    BY <1>4, <2>1 DEF WantRight, RecRight
<1> QED
  BY <1>4, <1>6

LEMMA SaveMoves ==
  ASSUME Types, ThreadsRight, NEW t \in Threads, Save(t)
  PROVE  \E r : AppMove(t, r)
<1> DEFINE body == <<<<"saved">>>>
<1>0. PICK cols \in SUBSET Columns :
        th' = [th EXCEPT ![t] =
             IF Changed(th[t].rec, cols, calls + 1).text THEN [th[t] EXCEPT !.rec = Changed(th[t].rec, cols, calls + 1)]
             ELSE Issue(t, Update(Changed(th[t].rec, cols, calls + 1)),
                        [Start(th[t], "save", body) EXCEPT !.rec = Changed(th[t].rec, cols, calls + 1)])]
  BY Zenon DEF Save
<1>7. PICK c : c = Changed(th[t].rec, cols, calls + 1)
  OBVIOUS
<1>1. th' = [th EXCEPT ![t] =
             IF c.text THEN [th[t] EXCEPT !.rec = c]
             ELSE Issue(t, Update(c), [Start(th[t], "save", body) EXCEPT !.rec = c])]
  BY <1>0, <1>7, Zenon
<1>2. Call(t, "save") /\ th[t].rec.id # 0 /\ UNCHANGED <<dialect, store, conn, free, faults, tx>>
  BY DEF Save, others
<1>3. /\ AtHome(t) /\ calls + 1 \in Nat /\ th[t].rec \in Recs /\ RecRight(th[t].rec)
      /\ th[t].prog.body = <<>> /\ calls' = calls + 1 /\ calls' \in 0 .. MaxCalls
  <2>1. /\ AtHome(t) /\ calls \in Nat
        /\ th[t].prog.body = <<>> /\ calls' = calls + 1 /\ calls' \in 0 .. MaxCalls
    BY <1>2, Called
  <2> QED
    BY <2>1 DEF AtHome, Thread
<1>4. c \in Recs /\ RecRight(c) /\ c.id # 0
  BY <1>2, <1>3, <1>7, ChangedRight
<1>5. CASE c.text
  <2>1. th' = [th EXCEPT ![t] = [th[t] EXCEPT !.rec = c]]
    BY <1>1, <1>5, Zenon
  <2> QED
    BY <1>2, <1>3, <1>4, <2>1, RecMoves
<1>6. CASE ~c.text
  <2>1. PICK q : q = Update(c)
    OBVIOUS
  <2>2. q \in Stmts /\ q.op = "update" /\ q.db \in Dbs /\ (Stamped => WantRight(q))
    BY <1>4, <2>1, UpdateRight
  <2>3. body \in Seq(Items) /\ Chain(body) /\ body # <<>> /\ body[1] = <<"saved">>
    BY SingleChain DEF Words
  <2>4. PICK p, s : p = Start(th[t], "save", body) /\ s = [p EXCEPT !.rec = c]
    OBVIOUS
  <2>5. th' = [th EXCEPT ![t] = Issue(t, q, s)]
    BY <1>1, <1>6, <2>1, <2>4, Zenon
  <2> HIDE DEF body
  <2>6. Started(th[t], "save", body, p)
    BY <1>3, <2>3, <2>4, StartFields DEF AtHome, AllOps
  <2>7. /\ s \in Thread /\ s.frames = th[t].frames /\ s.tls = th[t].tls /\ s.eng = th[t].eng
        /\ s.prog.body = body /\ s.prog.own = FALSE /\ s.rec = c
    BY <1>4, <2>4, <2>6 DEF Started, Thread
  <2>8. "saved" \notin TxWords /\ q.op \in StmtOps \ (VersionOps \cup {"log"}) /\ "save" \in AllOps
    BY <2>2 DEF TxWords, VersionOps, StmtOps, AllOps
  <2>9. Starts(t, "save", body, "saved", q, s)
    BY <1>2, <1>4, <2>2, <2>3, <2>5, <2>7, <2>8 DEF Starts, Seen
  <2> QED
    BY <2>9, StartMoves
<1> QED
  BY <1>5, <1>6

(* A call that goes on with a statement. *)
Goes(t, q, s) ==
  /\ AtHome(t) /\ q \in Stmts /\ q.db \in Dbs /\ q.op \in StmtOps \ (VersionOps \cup {"log"})
  /\ WantRight(th[t].want) => WantRight(q)
  /\ s \in Thread /\ s.frames = th[t].frames /\ s.tls = th[t].tls /\ s.eng = th[t].eng
  /\ Chain(s.prog.body) /\ s.prog.own = FALSE /\ s.rec = th[t].rec
  /\ ~Heads(s, TxWords) /\ ~Heads(s, {"undo"}) /\ ~Heads(s, Seen)
  /\ Heads(s, {"missing"}) => q.op = "applied"
  /\ th' = [th EXCEPT ![t] = Issue(t, q, s)]
  /\ UNCHANGED <<dialect, store, conn, free, faults, tx, calls>>

LEMMA GoMoves ==
  ASSUME Types, ThreadsRight, NEW t \in Threads, NEW q, NEW s, Goes(t, q, s)
  PROVE  \E r : AppMove(t, r)
<1>1. calls' \in {calls, calls + 1} /\ calls' \in 0 .. MaxCalls /\ q.op # "log"
  BY DEF Types, Goes
<1> QED
  BY <1>1, IssueMoves DEF AtHome, Goes

LEMMA AppliedMoves ==
  ASSUME Types, ThreadsRight, NEW t \in Threads, Applied(t)
  PROVE  \E r : AppMove(t, r)
<1>1. At(t, "applied") /\ UNCHANGED <<dialect, store, conn, free, faults, tx, calls>>
  BY DEF Applied, others
<1>2. PICK q, s : /\ q = [th[t].want EXCEPT !.op = "applied"] /\ s = Rest(th[t])
                  /\ th' = [th EXCEPT ![t] = Issue(t, q, s)]
  BY Zenon DEF Applied
<1>3. Arrived(t, "applied")
  BY <1>1, Arrives DEF Words
<1>4. AtHome(t) /\ th[t].want \in Stmts /\ th[t].want.db \in Dbs
  BY <1>3 DEF Arrived, AtHome, Thread
<1>5. /\ q \in Stmts /\ q.op = "applied" /\ q.db \in Dbs
      /\ WantRight(th[t].want) => WantRight(q)
  BY <1>2, <1>4 DEF Stmts, StmtOps, WantRight
<1>6. PICK b : b = Tail(th[t].prog.body)
  OBVIOUS
<1>7. Bodied(th[t], b, s) /\ Chain(b) /\ (b = <<>> \/ b[1] = <<"missing">>)
  BY <1>2, <1>3, <1>6 DEF Arrived
<1>8. /\ s \in Thread /\ s.frames = th[t].frames /\ s.tls = th[t].tls /\ s.eng = th[t].eng
      /\ Chain(s.prog.body) /\ s.prog.own = FALSE /\ s.rec = th[t].rec
      /\ s.prog.body = <<>> \/ s.prog.body[1] = <<"missing">>
  BY <1>4, <1>7 DEF Bodied, AtHome
<1>9. ~Heads(s, TxWords) /\ ~Heads(s, {"undo"}) /\ ~Heads(s, Seen)
  BY <1>8 DEF Heads, TxWords, VersionOps, Seen
<1>10. q.op \in StmtOps \ (VersionOps \cup {"log"})
  BY <1>5 DEF StmtOps, VersionOps
<1>11. Goes(t, q, s)
  BY <1>1, <1>2, <1>4, <1>5, <1>8, <1>9, <1>10 DEF Goes
<1> QED
  BY <1>11, GoMoves

LEMMA AgainMoves ==
  ASSUME Types, ThreadsRight, NEW t \in Threads, Again(t)
  PROVE  \E r : AppMove(t, r)
<1>1. At(t, "again") /\ UNCHANGED <<dialect, store, conn, free, faults, tx, calls>>
  BY DEF Again, others
<1>2. PICK q, s : /\ q = [th[t].want EXCEPT !.op = "select"] /\ s = Rest(th[t])
                  /\ th' = [th EXCEPT ![t] = Issue(t, q, s)]
  BY Zenon DEF Again
<1>3. Arrived(t, "again")
  BY <1>1, Arrives DEF Words
<1>4. AtHome(t) /\ th[t].want \in Stmts /\ th[t].want.db \in Dbs
  BY <1>3 DEF Arrived, AtHome, Thread
<1>5. /\ q \in Stmts /\ q.op = "select" /\ q.db \in Dbs
      /\ WantRight(th[t].want) => WantRight(q)
  BY <1>2, <1>4 DEF Stmts, StmtOps, WantRight
<1>6. Bodied(th[t], <<>>, s) /\ Chain(<<>>)
  BY <1>2, <1>3 DEF Arrived, Words
<1>7. /\ s \in Thread /\ s.frames = th[t].frames /\ s.tls = th[t].tls /\ s.eng = th[t].eng
      /\ Chain(s.prog.body) /\ s.prog.own = FALSE /\ s.rec = th[t].rec /\ s.prog.body = <<>>
  BY <1>4, <1>6 DEF Bodied, AtHome
<1>8. ~Heads(s, TxWords) /\ ~Heads(s, {"undo"}) /\ ~Heads(s, Seen) /\ ~Heads(s, {"missing"})
  BY <1>7 DEF Heads
<1>9. q.op \in StmtOps \ (VersionOps \cup {"log"})
  BY <1>5 DEF StmtOps, VersionOps
<1>10. Goes(t, q, s)
  BY <1>1, <1>2, <1>4, <1>5, <1>7, <1>8, <1>9 DEF Goes
<1> QED
  BY <1>10, GoMoves

(* The words that end a call once their statement has answered. *)
Comes(t, s) ==
  /\ AtHome(t) /\ th[t].want.db \in Dbs
  /\ s \in Thread /\ s.pc = "app" /\ s.err = FALSE
  /\ s.frames = th[t].frames /\ s.tls = th[t].tls /\ s.eng = th[t].eng /\ s.want = th[t].want
  /\ Chain(s.prog.body) /\ s.prog.own = FALSE /\ RecRight(s.rec)
  /\ ~Heads(s, TxWords) /\ ~Heads(s, ({"missing", "undo"} \cup Seen))
  /\ th' = [th EXCEPT ![t] = Settle(s)] \/ th' = [th EXCEPT ![t] = s]
  /\ UNCHANGED <<dialect, store, conn, free, faults, tx, calls>>

LEMMA ComeMoves ==
  ASSUME Types, ThreadsRight, NEW t \in Threads, NEW s, Comes(t, s)
  PROVE  \E r : AppMove(t, r)
BY SettleMoves DEF AtHome, Comes

(* What is left of a call that has one word. *)
Ending(t, s) ==
  /\ AtHome(t) /\ th[t].want \in Stmts /\ th[t].want.db \in Dbs
  /\ s \in Thread /\ s.pc = "app" /\ s.frames = th[t].frames /\ s.tls = th[t].tls
  /\ s.eng = th[t].eng /\ s.want = th[t].want /\ s.rec = th[t].rec /\ s.res = th[t].res
  /\ Chain(s.prog.body) /\ s.prog.own = FALSE /\ s.prog.body = <<>> /\ s.err = FALSE
  /\ th[t].rec \in Recs /\ th[t].prog.body # <<>>

LEMMA LastWord ==
  ASSUME Types, ThreadsRight, NEW t \in Threads, NEW w \in Words \ {"begin", "commit", "applied"}, At(t, w),
         NEW s, s = Rest(th[t])
  PROVE  Ending(t, s)
<1>1. Arrived(t, w)
  BY Arrives
<1>2. AtHome(t) /\ th[t].want \in Stmts /\ th[t].want.db \in Dbs /\ th[t].rec \in Recs
      /\ th[t].prog.body # <<>>
  BY <1>1 DEF Arrived, AtHome, Thread
<1>3. Bodied(th[t], <<>>, s) /\ Chain(<<>>)
  BY <1>1 DEF Arrived
<1>4. /\ s \in Thread /\ s.pc = "app" /\ s.frames = th[t].frames /\ s.tls = th[t].tls
      /\ s.eng = th[t].eng /\ s.want = th[t].want /\ s.rec = th[t].rec /\ s.res = th[t].res
      /\ Chain(s.prog.body) /\ s.prog.own = FALSE /\ s.prog.body = <<>> /\ ~s.err
  BY <1>2, <1>3 DEF Bodied, AtHome
<1>5. s.err \in BOOLEAN
  BY <1>4 DEF Thread
<1> QED
  BY <1>2, <1>4, <1>5 DEF Ending

(* A call ends, with a record or without. *)
LEMMA EndMoves ==
  ASSUME Types, ThreadsRight, NEW t \in Threads, NEW s, Ending(t, s), NEW c \in Recs,
         RecRight(c), th' = [th EXCEPT ![t] = Settle([s EXCEPT !.rec = c])],
         UNCHANGED <<dialect, store, conn, free, faults, tx, calls>>
  PROVE  \E r : AppMove(t, r)
<1>1. PICK q : q = [s EXCEPT !.rec = c]
  OBVIOUS
<1>2. /\ q \in Thread /\ q.pc = "app" /\ q.frames = th[t].frames /\ q.tls = th[t].tls
      /\ q.eng = th[t].eng /\ q.want = th[t].want /\ q.rec = c
      /\ Chain(q.prog.body) /\ q.prog.own = FALSE /\ q.prog.body = <<>> /\ q.err = FALSE
  BY <1>1 DEF Ending, Thread
<1>3. th' = [th EXCEPT ![t] = Settle(q)]
  BY <1>1
<1>4. ~Heads(q, TxWords) /\ ~Heads(q, ({"missing", "undo"} \cup Seen))
  BY <1>2 DEF Heads
<1>5. Comes(t, q)
  BY <1>2, <1>3, <1>4 DEF Comes, Ending
<1> QED
  BY <1>5, ComeMoves

LEMMA PlainEndMoves ==
  ASSUME Types, ThreadsRight, NEW t \in Threads, NEW s, Ending(t, s),
         th' = [th EXCEPT ![t] = Settle(s)],
         UNCHANGED <<dialect, store, conn, free, faults, tx, calls>>
  PROVE  \E r : AppMove(t, r)
<1>1. ~Heads(s, TxWords) /\ ~Heads(s, ({"missing", "undo"} \cup Seen))
  BY DEF Heads, Ending
<1>2. RecRight(s.rec)
  BY DEF Ending, AtHome
<1>3. Comes(t, s)
  BY <1>1, <1>2 DEF Comes, Ending
<1> QED
  BY <1>3, ComeMoves

LEMMA SavedMoves ==
  ASSUME Types, ThreadsRight, NEW t \in Threads, Saved(t)
  PROVE  \E r : AppMove(t, r)
<1>1. At(t, "saved") /\ UNCHANGED <<dialect, store, conn, free, faults, tx, calls>>
  BY DEF Saved, others
<1>2. PICK s : s = Rest(th[t])
  OBVIOUS
<1>3. th' = [th EXCEPT ![t] = Settle([s EXCEPT !.rec = [s.rec EXCEPT !.dirty = {}, !.made = {}]])]
  BY <1>2 DEF Saved
<1>4. Ending(t, s)
  BY <1>1, <1>2, LastWord DEF Words
<1>5. PICK c : c = [s.rec EXCEPT !.dirty = {}, !.made = {}]
  OBVIOUS
<1>6. s.rec \in Recs /\ RecRight(s.rec) /\ s \in Thread
  BY <1>4 DEF Ending, AtHome
<1>7. c \in Recs /\ RecRight(c)
  BY <1>5, <1>6 DEF Recs, RecRight
<1>8. th' = [th EXCEPT ![t] = Settle([s EXCEPT !.rec = c])]
  BY <1>3, <1>5
<1> QED
  BY <1>1, <1>4, <1>7, <1>8, EndMoves

LEMMA CreatedMoves ==
  ASSUME Types, ThreadsRight, NEW t \in Threads, Created(t)
  PROVE  \E r : AppMove(t, r)
<1>1. At(t, "created") /\ UNCHANGED <<dialect, store, conn, free, faults, tx, calls>>
  BY DEF Created, others
<1>2. PICK s, c : /\ s = Rest(th[t])
                  /\ c = [NoRec EXCEPT !.id = th[t].want.n, !.db = th[t].want.db,
                                       !.val = Value(th[t].want.n), !.dirty = CreateSets, !.made = CreateSets]
                  /\ th' = [th EXCEPT ![t] = Settle([s EXCEPT !.rec = c])]
  BY Zenon DEF Created
<1>3. Ending(t, s)
  BY <1>1, <1>2, LastWord DEF Words
<1>4. th[t].want \in Stmts /\ th[t].want.db \in Dbs
  BY <1>3 DEF Ending
<1>5. PICK n \in Nat, v \in [Columns -> Nat] : n = th[t].want.n /\ v = Value(n)
  BY <1>4, SomeValues DEF Stmts
<1>6. c = [NoRec EXCEPT !.id = n, !.db = th[t].want.db, !.val = v, !.dirty = CreateSets, !.made = CreateSets]
  BY <1>2, <1>5
<1>7. c \in Recs /\ c.db \in Dbs /\ c.id = n /\ c.val = v /\ c.made = CreateSets
  BY <1>4, <1>6, RecordTypes, Constants DEF Recs
<1>8. RecRight(c)
  BY <1>5, <1>7, Constants DEF RecRight, Value
<1> QED
  BY <1>1, <1>2, <1>3, <1>7, <1>8, EndMoves

LEMMA LoadedMoves ==
  ASSUME Types, ThreadsRight, NEW t \in Threads, Loaded(t)
  PROVE  \E r : AppMove(t, r)
<1>1. At(t, "loaded") /\ UNCHANGED <<dialect, store, conn, free, faults, tx, calls>>
  BY DEF Loaded, others
<1>2. PICK s : s = Rest(th[t])
  OBVIOUS
<1>3. Ending(t, s)
  BY <1>1, <1>2, LastWord DEF Words
<1>4. CASE th' = [th EXCEPT ![t] = Settle(s)]
  BY <1>1, <1>3, <1>4, PlainEndMoves
<1>5. CASE \E r \in th[t].res :
        th' = [th EXCEPT ![t] = Settle([s EXCEPT !.rec =
                 [NoRec EXCEPT !.id = r.id, !.text = (dialect # "Sqlite"), !.db = th[t].want.db, !.val = r.val]])]
  <2>1. PICK r \in th[t].res :
          th' = [th EXCEPT ![t] = Settle([s EXCEPT !.rec =
                   [NoRec EXCEPT !.id = r.id, !.text = (dialect # "Sqlite"), !.db = th[t].want.db, !.val = r.val]])]
    BY <1>5
  <2>2. PICK c : c = [NoRec EXCEPT !.id = r.id, !.text = (dialect # "Sqlite"), !.db = th[t].want.db, !.val = r.val]
    OBVIOUS
  <2>3. Heads(th[t], Seen) /\ th[t].pc = "app" /\ ~th[t].err
    <3>1. th[t].prog.body \in Seq(Items)
      BY DEF Types, Thread, Progs
    <3> QED
      BY <1>1, <3>1 DEF Heads, At, Seen
  <2>4. ResultRight(th[t])
    BY DEF ThreadsRight, ThreadRight
  <2>5. r \in Rows /\ th[t].want.db \in Dbs
    BY <1>3, <2>3, <2>4 DEF ResultRight, Ending
  <2>6. c \in Recs /\ RecRight(c)
    <3>1. PICK b \in BOOLEAN : b = (dialect # "Sqlite")
      OBVIOUS
    <3>2. c = [NoRec EXCEPT !.id = r.id, !.text = b, !.db = th[t].want.db, !.val = r.val]
      BY <2>2, <3>1
    <3>3. c \in Recs /\ c.db \in Dbs /\ c.made = NoRec.made
      BY <2>5, <3>2, RecordTypes DEF Recs, Rows
    <3>4. NoRec.made = {}
      BY DEF NoRec
    <3> QED
      BY <3>3, <3>4 DEF RecRight
  <2>7. th' = [th EXCEPT ![t] = Settle([s EXCEPT !.rec = c])]
    BY <2>1, <2>2, Zenon
  <2> QED
    BY <1>1, <1>3, <2>6, <2>7, EndMoves
<1> QED
  BY <1>2, <1>4, <1>5, Zenon DEF Loaded

(* What a call goes on with in the place of its word. *)
Swapped(t, v, s) ==
  /\ AtHome(t) /\ s \in Thread /\ s.frames = th[t].frames /\ s.tls = th[t].tls
  /\ s.eng = th[t].eng /\ s.want = th[t].want /\ s.rec = th[t].rec
  /\ Chain(s.prog.body) /\ s.prog.own = FALSE /\ s.prog.body = <<<<v>>>>
  /\ th[t].want \in Stmts /\ th[t].want.db \in Dbs

LEMMA Swaps ==
  ASSUME Types, ThreadsRight, NEW t \in Threads, NEW w \in Words \ {"begin", "commit", "applied"}, At(t, w),
         NEW v \in Words \ {"begin", "commit"}, NEW s, s = [th[t] EXCEPT !.prog.body = <<<<v>>>>]
  PROVE  Swapped(t, v, s)
<1>1. Arrived(t, w)
  BY Arrives
<1>2. AtHome(t) /\ th[t].want \in Stmts /\ th[t].want.db \in Dbs
  BY <1>1 DEF Arrived, AtHome, Thread
<1>3. PICK b \in Seq(Items) : b = <<<<v>>>> /\ Chain(b)
  BY SingleChain
<1>4. Bodied(th[t], b, s)
  BY <1>2, <1>3, BodyFields DEF AtHome
<1> QED
  BY <1>2, <1>3, <1>4 DEF AtHome, Bodied, Swapped

LEMMA OrCreateMoves ==
  ASSUME Types, ThreadsRight, NEW t \in Threads, OrCreate(t)
  PROVE  \E r : AppMove(t, r)
<1>1. At(t, "orCreate") /\ UNCHANGED <<dialect, store, conn, free, faults, tx, calls>>
  BY DEF OrCreate, others
<1>2. CASE th[t].res # {}
  <2>1. PICK s : s = Rest(th[t])
    OBVIOUS
  <2>2. th' = [th EXCEPT ![t] = Settle(s)]
    BY <1>2, <2>1, Zenon DEF OrCreate
  <2>3. Ending(t, s)
    BY <1>1, <2>1, LastWord DEF Words
  <2> QED
    BY <1>1, <2>2, <2>3, PlainEndMoves
<1>3. CASE th[t].res = {}
  <2>1. PICK q, s : /\ q = [th[t].want EXCEPT !.op = "insert", !.val = Value(th[t].want.n)]
                    /\ s = [th[t] EXCEPT !.prog.body = <<<<"again">>>>]
    OBVIOUS
  <2>2. th' = [th EXCEPT ![t] = Issue(t, q, s)]
    BY <1>3, <2>1, Zenon DEF OrCreate
  <2>0. Swapped(t, "again", s)
    BY <1>1, <2>1, Swaps DEF Words
  <2>3. /\ AtHome(t) /\ s \in Thread /\ s.frames = th[t].frames /\ s.tls = th[t].tls
        /\ s.eng = th[t].eng /\ s.want = th[t].want /\ s.rec = th[t].rec
        /\ Chain(s.prog.body) /\ s.prog.own = FALSE /\ s.prog.body = <<<<"again">>>>
        /\ th[t].want \in Stmts /\ th[t].want.db \in Dbs
    BY <2>0 DEF Swapped
  <2>4. Value(th[t].want.n) \in [Columns -> Nat]
    BY <2>3, SomeValues DEF Stmts
  <2>5. /\ q \in Stmts /\ q.op = "insert" /\ q.db \in Dbs
        /\ WantRight(th[t].want) => WantRight(q)
    BY <2>1, <2>3, <2>4 DEF Stmts, StmtOps, WantRight
  <2>6. /\ ~Heads(s, TxWords) /\ ~Heads(s, {"undo"}) /\ ~Heads(s, Seen) /\ ~Heads(s, {"missing"})
        /\ q.op \in StmtOps \ (VersionOps \cup {"log"})
    BY <2>3, <2>5 DEF Heads, TxWords, VersionOps, StmtOps, Seen
  <2>7. Goes(t, q, s)
    BY <1>1, <2>2, <2>3, <2>5, <2>6 DEF Goes
  <2> QED
    BY <2>7, GoMoves
<1> QED
  BY <1>2, <1>3

LEMMA OrUpdateMoves ==
  ASSUME Types, ThreadsRight, NEW t \in Threads, OrUpdate(t)
  PROVE  \E r : AppMove(t, r)
<1>1. At(t, "orUpdate") /\ UNCHANGED <<dialect, store, conn, free, faults, tx, calls>>
  BY DEF OrUpdate, others
<1>2. CASE th[t].res # {}
  <2>1. PICK q, s : /\ q = [th[t].want EXCEPT !.op = "update", !.cols = Columns, !.meant = Columns,
                                              !.val = Value(th[t].want.n)]
                    /\ s = [th[t] EXCEPT !.prog.body = <<<<"again">>>>]
    OBVIOUS
  <2>2. th' = [th EXCEPT ![t] = Issue(t, q, s)]
    BY <1>2, <2>1, Zenon DEF OrUpdate
  <2>0. Swapped(t, "again", s)
    BY <1>1, <2>1, Swaps DEF Words
  <2>3. /\ AtHome(t) /\ s \in Thread /\ s.frames = th[t].frames /\ s.tls = th[t].tls
        /\ s.eng = th[t].eng /\ s.want = th[t].want /\ s.rec = th[t].rec
        /\ Chain(s.prog.body) /\ s.prog.own = FALSE /\ s.prog.body = <<<<"again">>>>
        /\ th[t].want \in Stmts /\ th[t].want.db \in Dbs
    BY <2>0 DEF Swapped
  <2>4. Value(th[t].want.n) \in [Columns -> Nat]
    BY <2>3, SomeValues DEF Stmts
  <2>5. q \in Stmts /\ q.op = "update" /\ q.db \in Dbs /\ WantRight(q)
    BY <2>1, <2>3, <2>4 DEF Stmts, StmtOps, WantRight
  <2>6. /\ ~Heads(s, TxWords) /\ ~Heads(s, {"undo"}) /\ ~Heads(s, Seen) /\ ~Heads(s, {"missing"})
        /\ q.op \in StmtOps \ (VersionOps \cup {"log"})
    BY <2>3, <2>5 DEF Heads, TxWords, VersionOps, StmtOps, Seen
  <2>7. Goes(t, q, s)
    BY <1>1, <2>2, <2>3, <2>5, <2>6 DEF Goes
  <2> QED
    BY <2>7, GoMoves
<1>3. CASE th[t].res = {}
  <2>1. PICK q, s : /\ q = [th[t].want EXCEPT !.given = th[t].want.n]
                    /\ s = [th[t] EXCEPT !.prog.body = <<<<"orCreate">>>>]
    OBVIOUS
  <2>2. th' = [th EXCEPT ![t] = Issue(t, q, s)]
    BY <1>3, <2>1, Zenon DEF OrUpdate
  <2>0. Swapped(t, "orCreate", s)
    BY <1>1, <2>1, Swaps DEF Words
  <2>3. /\ AtHome(t) /\ s \in Thread /\ s.frames = th[t].frames /\ s.tls = th[t].tls
        /\ s.eng = th[t].eng /\ s.want = th[t].want /\ s.rec = th[t].rec
        /\ Chain(s.prog.body) /\ s.prog.own = FALSE /\ s.prog.body = <<<<"orCreate">>>>
        /\ th[t].want \in Stmts /\ th[t].want.db \in Dbs
    BY <2>0 DEF Swapped
  <2>4. th[t].want.op \in StmtOps \ (VersionOps \cup {"log"})
    <3>1. th[t].prog.body \in Seq(Items)
      BY DEF Types, Thread, Progs
    <3>2. Heads(th[t], Seen) /\ th[t].pc = "app" /\ ~th[t].err
      BY <1>1, <3>1 DEF Heads, At, Seen
    <3>3. ResultRight(th[t])
      BY DEF ThreadsRight, ThreadRight
    <3>4. th[t].want.op = "select"
      BY <3>2, <3>3 DEF ResultRight
    <3> QED
      BY <3>4 DEF StmtOps, VersionOps
  <2>5. /\ q \in Stmts /\ q.op = th[t].want.op /\ q.db \in Dbs
        /\ WantRight(th[t].want) => WantRight(q)
    BY <2>1, <2>3 DEF Stmts, WantRight
  <2>6. /\ ~Heads(s, TxWords) /\ ~Heads(s, {"undo"}) /\ ~Heads(s, Seen) /\ ~Heads(s, {"missing"})
    BY <2>3 DEF Heads, TxWords, VersionOps, Seen
  <2>7. Goes(t, q, s)
    BY <1>1, <2>2, <2>3, <2>4, <2>5, <2>6 DEF Goes
  <2> QED
    BY <2>7, GoMoves
<1> QED
  BY <1>2, <1>3

(* A call goes on with statements in place of its word. *)
LEMMA BlockMoves ==
  ASSUME Types, ThreadsRight, NEW t \in Threads, NEW w \in Words \ {"begin", "commit", "applied"}, At(t, w),
         NEW b \in Blocks, NEW s, s = [th[t] EXCEPT !.res = {}, !.prog.body = b],
         th' = [th EXCEPT ![t] = Settle(s)] \/ th' = [th EXCEPT ![t] = s],
         UNCHANGED <<dialect, store, conn, free, faults, tx, calls>>
  PROVE  \E r : AppMove(t, r)
<1>1. Arrived(t, w)
  BY Arrives
<1>2. AtHome(t) /\ th[t] \in Thread /\ th[t].want.db \in Dbs
  BY <1>1 DEF Arrived, AtHome
<1>3. b \in Seq(Items) /\ Chain(b) /\ (b # <<>> => b[1] = <<"begin">>)
  BY DEF Blocks
<1>4. PICK p : p = [th[t] EXCEPT !.prog.body = b]
  OBVIOUS
<1>5. Bodied(th[t], b, p)
  BY <1>2, <1>3, <1>4, BodyFields
<1>6. s = [p EXCEPT !.res = {}]
  BY <1>2, <1>4 DEF Thread, Progs
<1>7. {} \in Results
  BY DEF Results
<1>8. /\ s \in Thread /\ s.pc = "app" /\ ~s.err
      /\ s.frames = th[t].frames /\ s.tls = th[t].tls /\ s.eng = th[t].eng /\ s.want = th[t].want
      /\ s.prog.body = b /\ s.prog.own = FALSE /\ s.rec = th[t].rec
  BY <1>2, <1>5, <1>6, <1>7 DEF Bodied, Thread, AtHome
<1>9. ~Heads(s, TxWords) /\ ~Heads(s, {"missing", "undo"} \cup Seen)
  BY <1>3, <1>8 DEF Heads, TxWords, VersionOps, Seen
<1>10. s.err = FALSE /\ RecRight(s.rec)
  BY <1>2, <1>8 DEF Thread, AtHome
<1>11. Comes(t, s)
  BY <1>2, <1>3, <1>8, <1>9, <1>10 DEF Comes
<1> QED
  BY <1>11, ComeMoves

LEMMA MissingMoves ==
  ASSUME Types, ThreadsRight, NEW t \in Threads, Missing(t)
  PROVE  \E r : AppMove(t, r)
<1>1. At(t, "missing") /\ UNCHANGED <<dialect, store, conn, free, faults, tx, calls>>
  BY DEF Missing, others
<1>2. PICK b \in Blocks :
        b = FlattenSeq([i \in DOMAIN Versions |-> IF i \in th[t].res THEN <<>> ELSE TxBody("up", "record", i)])
  BY MissingBlocks
<1>3. th' = [th EXCEPT ![t] = Settle([th[t] EXCEPT !.res = {}, !.prog.body = b])]
  BY <1>2, Zenon DEF Missing
<1> QED
  BY <1>1, <1>3, BlockMoves DEF Words

LEMMA UndoMoves ==
  ASSUME Types, ThreadsRight, NEW t \in Threads, Undo(t)
  PROVE  \E r : AppMove(t, r)
<1>1. At(t, "undo") /\ UNCHANGED <<dialect, store, conn, free, faults, tx, calls>>
  BY DEF Undo, others
<1>2. CASE th' = [th EXCEPT ![t] = Settle(Rest(th[t]))]
  <2>1. Ending(t, Rest(th[t]))
    BY <1>1, LastWord DEF Words
  <2> QED
    BY <1>1, <1>2, <2>1, PlainEndMoves
<1>3. CASE \E i \in th[t].res :
             th' = [th EXCEPT ![t] = [th[t] EXCEPT !.res = {}, !.prog.body =
                      IF i \in NoDown THEN OnlyUnrecord(i) ELSE TxBody("down", "unrecord", i)]]
  <2>1. PICK i \in th[t].res :
             th' = [th EXCEPT ![t] = [th[t] EXCEPT !.res = {}, !.prog.body =
                      IF i \in NoDown THEN OnlyUnrecord(i) ELSE TxBody("down", "unrecord", i)]]
    BY <1>3
  <2>2. Heads(th[t], {"missing", "undo"}) /\ th[t].pc = "app" /\ ~th[t].err
    <3>1. th[t].prog.body \in Seq(Items)
      BY DEF Types, Thread, Progs
    <3> QED
      BY <1>1, <3>1 DEF Heads, At
  <2>3. ResultRight(th[t])
    BY DEF ThreadsRight, ThreadRight
  <2>4. i \in DOMAIN Versions
    BY <2>2, <2>3 DEF ResultRight
  <2>5. PICK b : b = IF i \in NoDown THEN OnlyUnrecord(i) ELSE TxBody("down", "unrecord", i)
    OBVIOUS
  <2>6. b \in Blocks
    BY <2>4, <2>5, BlockOf, OnlyBlock
  <2>7. th' = [th EXCEPT ![t] = [th[t] EXCEPT !.res = {}, !.prog.body = b]]
    BY <2>1, <2>5, Zenon
  <2> QED
    BY <1>1, <2>6, <2>7, BlockMoves DEF Words
<1> QED
  BY <1>2, <1>3, Zenon DEF Undo

(* A transaction is begun, by the application or by a call. *)
LEMMA BeginMoves ==
  ASSUME Types, ThreadsRight, NEW t \in Threads, AtHome(t),
         NEW d \in Dbs, NEW q, q = [NoStmt EXCEPT !.db = d],
         NEW s \in Thread, s.frames = th[t].frames, s.tls = th[t].tls, s.eng = th[t].eng,
         Chain(s.prog.body), s.prog.own = FALSE, s.rec = th[t].rec,
         s.prog = NoProg \/ (s.prog.body # <<>> /\ s.prog.body[1] \in Openers), ~Heads(s, {"missing", "undo"} \cup Seen),
         th' = [th EXCEPT ![t] = Begin(q, s)],
         calls' \in {calls, calls + 1}, calls' \in 0 .. MaxCalls,
         UNCHANGED <<dialect, store, conn, free, faults, tx>>
  PROVE  \E r : AppMove(t, r)
<1>1. q \in Stmts /\ q.db = d /\ WantRight(q)
  BY Asks DEF Stmts, WantRight
<1>2. PICK r : r = Begin(q, s)
  OBVIOUS
<1>3. Begun(s, q, r)
  BY <1>1, <1>2, BeginFields
<1>4. /\ r \in Thread /\ r.want.op = "begin" /\ r.want.db = d /\ WantRight(r.want)
      /\ r.err = FALSE /\ r.frames = th[t].frames /\ r.tls = th[t].tls /\ r.prog = s.prog
      /\ r.rec = th[t].rec /\ r.pc = "acquire" /\ r.eng = th[t].eng
  BY <1>1, <1>3 DEF Begun, WantRight
<1>5. FramesRight(th[t]) /\ EngineRight(th[t])
  BY DEF ThreadsRight, ThreadRight
<1>6. FramesRight(r)
  BY <1>4, <1>5 DEF FramesRight
<1>7. EngineRight(r) /\ r.eng = None
  BY <1>4, <1>5 DEF EngineRight, AtHome
<1>8. PlanRight(r)
  BY <1>4 DEF PlanRight, AtHome
<1>9. TxRight(r)
  <2>1. r.prog = NoProg \/ (r.prog.body # <<>> /\ r.prog.body[1] \in Openers)
    BY <1>4
  <2> QED
    BY <1>4, <2>1 DEF TxRight, VersionOps
<1>10. ~Heads(r, {"missing"}) /\ ~Heads(r, {"undo"}) /\ ~Heads(r, Seen)
  BY <1>4 DEF Heads
<1>11. ResultRight(r)
  BY <1>4, <1>10 DEF ResultRight
<1>12. Ups(r) = {} /\ Downs(r) = {} /\ Ups(th[t]) = {} /\ Downs(th[t]) = {}
  BY <1>4, NotHalf DEF AtHome
<1> QED
  BY <1>2, <1>4, <1>6, <1>7, <1>8, <1>9, <1>11, <1>12 DEF AppMove, ThreadRight, AtHome

LEMMA TransactionMoves ==
  ASSUME Types, ThreadsRight, NEW t \in Threads, Transaction(t)
  PROVE  \E r : AppMove(t, r)
<1>1. PICK d \in Dbs : th' = [th EXCEPT ![t] = Begin([NoStmt EXCEPT !.db = d], th[t])]
  BY Zenon DEF Transaction
<1>2. Call(t, "transaction") /\ UNCHANGED <<dialect, store, conn, free, faults, tx>>
  BY DEF Transaction, others
<1>3. /\ AtHome(t) /\ th[t].prog.body = <<>>
      /\ calls' = calls + 1 /\ calls' \in 0 .. MaxCalls
  BY <1>2, Called
<1>4. ~Heads(th[t], {"missing", "undo"} \cup Seen) /\ th[t].prog = NoProg
  BY <1>2, <1>3 DEF Heads, Call
<1> QED
  BY <1>1, <1>2, <1>3, <1>4, BeginMoves DEF AtHome

LEMMA ProgBeginMoves ==
  ASSUME Types, ThreadsRight, NEW t \in Threads, ProgBegin(t)
  PROVE  \E r : AppMove(t, r)
<1>1. At(t, "begin") /\ UNCHANGED <<dialect, store, conn, free, faults, tx, calls>>
  BY DEF ProgBegin, others
<1>2. PICK s : s = Rest(th[t])
  OBVIOUS
<1>3. PICK b : b = Tail(th[t].prog.body)
  OBVIOUS
<1>4. Arrived(t, "begin")
  BY <1>1, Arrives DEF Words
<1>5. AtHome(t) /\ th[t].want.db \in Dbs /\ Bodied(th[t], b, s) /\ Chain(b) /\ b[1] \in Openers
      /\ b # <<>>
  BY <1>2, <1>3, <1>4 DEF Arrived
<1>6. /\ s \in Thread /\ s.frames = th[t].frames /\ s.tls = th[t].tls /\ s.eng = th[t].eng
      /\ Chain(s.prog.body) /\ s.prog.own = FALSE /\ s.rec = th[t].rec
      /\ s.prog.body[1] \in Openers /\ s.prog.body # <<>>
  BY <1>5 DEF Bodied, AtHome
<1>7. ~Heads(s, {"missing", "undo"} \cup Seen)
  BY <1>6 DEF Heads, Seen, Openers
<1>8. calls' \in {calls, calls + 1} /\ calls' \in 0 .. MaxCalls
  BY <1>1 DEF Types
<1>9. th' = [th EXCEPT ![t] = Begin([NoStmt EXCEPT !.db = th[t].want.db], s)]
  BY <1>2, Zenon DEF ProgBegin
<1> QED
  BY <1>1, <1>5, <1>6, <1>7, <1>8, <1>9, BeginMoves

(* A thread inside a transaction of its own call. *)
Inside(t, w) ==
  /\ th[t] \in Thread /\ th[t].pc = "app" /\ ~th[t].err /\ th[t].prog.own /\ th[t].want.db \in Dbs
  /\ th[t].prog.body # <<>> /\ th[t].prog.body[1][1] = w /\ th[t].prog.body[1] \in Items
  /\ th[t].eng = None /\ th[t].tls \in Engines /\ th[t].frames # <<>>
  /\ RecRight(th[t].rec)
  /\ Bodied(th[t], Tail(th[t].prog.body), Rest(th[t]))
  /\ Chain(Tail(th[t].prog.body))
  /\ Tail(th[t].prog.body) # <<>> => Follow(th[t].prog.body[1], Tail(th[t].prog.body)[1])
  /\ w # "commit" => Tail(th[t].prog.body) # <<>>

LEMMA Insides ==
  ASSUME Types, ThreadsRight, NEW t \in Threads, NEW w \in TxWords, At(t, w)
  PROVE  Inside(t, w)
<1>1. /\ th[t] \in Thread /\ th[t].prog \in Progs /\ th[t].prog.body \in Seq(Items)
      /\ th[t].frames \in Seq(Frames)
  BY DEF Types, Thread, Progs
<1>2. PICK b \in Seq(Items) : b = th[t].prog.body
  BY <1>1
<1>3. th[t].pc = "app" /\ ~th[t].err /\ b # <<>> /\ b[1][1] = w /\ b[1] \in Items
  BY <1>2 DEF At
<1>4. TxRight(th[t]) /\ PlanRight(th[t]) /\ EngineRight(th[t]) /\ FramesRight(th[t])
  BY DEF ThreadsRight, ThreadRight
<1>5. Chain(b) /\ th[t].want.db \in Dbs /\ RecRight(th[t].rec)
  BY <1>2, <1>3, <1>4 DEF PlanRight
<1>6. Heads(th[t], TxWords)
  BY <1>2, <1>3 DEF Heads
<1>7. th[t].prog.own
  BY <1>1, <1>3, <1>4, <1>6 DEF TxRight, Progs
<1>8. th[t].eng = None /\ th[t].frames # <<>>
  BY <1>3, <1>4, <1>7 DEF EngineRight
<1>9. th[t].tls \in Engines
  BY <1>1, <1>4, <1>8, TopFrame
<1>10. Bodied(th[t], Tail(b), Rest(th[t]))
  BY <1>1, <1>2, <1>3, <1>5, RestFields
<1>11. /\ Tail(b) \in Seq(Items) /\ Chain(Tail(b))
       /\ Tail(b) # <<>> => Follow(b[1], Tail(b)[1])
       /\ b[1][1] \in VersionOps \cup {"begin"} => Tail(b) # <<>>
  BY <1>2, <1>3, <1>5, ChainTail
<1>12. w # "commit" => Tail(b) # <<>>
  BY <1>3, <1>11 DEF TxWords
<1> QED
  BY <1>1, <1>2, <1>3, <1>5, <1>7, <1>8, <1>9, <1>10, <1>11, <1>12 DEF Inside

LEMMA ProgCommitMoves ==
  ASSUME Types, ThreadsRight, NEW t \in Threads, ProgCommit(t)
  PROVE  \E r : AppMove(t, r)
<1>1. At(t, "commit") /\ UNCHANGED <<dialect, store, conn, free, faults, tx, calls>>
  BY DEF ProgCommit, others
<1>2. PICK s, b : s = Rest(th[t]) /\ b = Tail(th[t].prog.body)
  OBVIOUS
<1>3. PICK r : r = [s EXCEPT !.pc = "commit"] /\ th' = [th EXCEPT ![t] = r]
  BY <1>2, Zenon DEF ProgCommit
<1>4. Inside(t, "commit")
  BY <1>1, Insides DEF TxWords
<1>5. /\ th[t].pc = "app" /\ ~th[t].err /\ th[t].prog.own /\ th[t].want.db \in Dbs
      /\ th[t].eng = None /\ th[t].frames # <<>> /\ RecRight(th[t].rec)
      /\ th[t].prog.body[1][1] = "commit"
      /\ Bodied(th[t], b, s) /\ Chain(b) /\ (b # <<>> => Follow(th[t].prog.body[1], b[1]))
  BY <1>2, <1>4 DEF Inside
<1>6. b # <<>> => b[1][1] = "begin"
  BY <1>5 DEF Follow
<1>7. /\ s \in Thread /\ s.pc = "app" /\ ~s.err /\ s.prog.own /\ s.want = th[t].want /\ s.eng = None
      /\ s.frames = th[t].frames /\ s.tls = th[t].tls /\ s.rec = th[t].rec /\ s.prog.body = b
  BY <1>5 DEF Bodied
<1>8. /\ r \in Thread /\ r.pc = "commit" /\ r.err = FALSE /\ r.prog.own /\ r.want = th[t].want /\ r.eng = None
      /\ r.frames = th[t].frames /\ r.tls = th[t].tls /\ r.rec = th[t].rec /\ r.prog.body = b
  BY <1>3, <1>7 DEF Thread, Places
<1>9. FramesRight(th[t])
  BY DEF ThreadsRight, ThreadRight
<1>10. FramesRight(r)
  BY <1>8, <1>9 DEF FramesRight
<1>11. EngineRight(r)
  BY <1>5, <1>8 DEF EngineRight
<1>12. PlanRight(r)
  BY <1>5, <1>8 DEF PlanRight
<1>13. ~Heads(r, TxWords) /\ (r.prog.body = <<>> \/ Heads(r, {"begin"}))
  BY <1>6, <1>8 DEF Heads, TxWords, VersionOps
<1>14. TxRight(r)
  BY <1>8, <1>13 DEF TxRight
<1>15. ResultRight(r)
  BY <1>8 DEF ResultRight
<1>16. Ups(r) = {} /\ Downs(r) = {} /\ Ups(th[t]) = {} /\ Downs(th[t]) = {}
  BY <1>5, <1>8 DEF Ups, Downs, Half
<1>17. calls' \in {calls, calls + 1} /\ calls' \in 0 .. MaxCalls
  BY <1>1 DEF Types
<1> QED
  BY <1>1, <1>3, <1>5, <1>8, <1>10, <1>11, <1>12, <1>14, <1>15, <1>16, <1>17 DEF AppMove, ThreadRight

LEMMA FnReturnsMoves ==
  ASSUME Types, ThreadsRight, NEW t \in Threads, FnReturns(t)
  PROVE  \E r : AppMove(t, r)
<1>1. /\ th[t].pc = "app" /\ th[t].prog = NoProg /\ th[t].frames # <<>>
      /\ UNCHANGED <<dialect, store, conn, free, faults, tx, calls>>
  BY DEF FnReturns, others
<1>2. PICK r : r = [th[t] EXCEPT !.pc = "commit"] /\ th' = [th EXCEPT ![t] = r]
  BY Zenon DEF FnReturns
<1>3. th[t] \in Thread
  BY DEF Types
<1>4. FramesRight(th[t]) /\ EngineRight(th[t]) /\ PlanRight(th[t]) /\ TxRight(th[t])
  BY DEF ThreadsRight, ThreadRight
<1>5. th[t].prog.own = FALSE /\ th[t].prog.body = <<>>
  BY <1>1, NoProgIs
<1>6. ~th[t].err
  BY <1>1, <1>4, <1>5 DEF TxRight
<1>7. th[t].eng = None
  BY <1>1, <1>4 DEF EngineRight
<1>8. /\ r \in Thread /\ r.pc = "commit" /\ r.err = FALSE /\ r.prog = th[t].prog /\ r.want = th[t].want
      /\ r.eng = None /\ r.frames = th[t].frames /\ r.tls = th[t].tls /\ r.rec = th[t].rec
  BY <1>2, <1>3, <1>6, <1>7 DEF Thread, Places
<1>9. FramesRight(r)
  BY <1>4, <1>8 DEF FramesRight
<1>10. EngineRight(r)
  BY <1>1, <1>8 DEF EngineRight
<1>11. PlanRight(r)
  BY <1>4, <1>5, <1>8 DEF PlanRight
<1>12. ~Heads(r, TxWords)
  BY <1>5, <1>8 DEF Heads
<1>13. TxRight(r)
  BY <1>5, <1>8, <1>12 DEF TxRight
<1>14. ResultRight(r)
  BY <1>8 DEF ResultRight
<1>15. Ups(r) = {} /\ Downs(r) = {} /\ Ups(th[t]) = {} /\ Downs(th[t]) = {}
  BY <1>5, <1>8, NotHalf
<1>16. calls' \in {calls, calls + 1} /\ calls' \in 0 .. MaxCalls
  BY <1>1 DEF Types
<1> QED
  BY <1>1, <1>2, <1>6, <1>8, <1>9, <1>10, <1>11, <1>13, <1>14, <1>15, <1>16 DEF AppMove, ThreadRight

LEMMA ProgVersionMoves ==
  ASSUME Types, ThreadsRight, NEW t \in Threads, ProgVersion(t)
  PROVE  \E r : AppMove(t, r)
<1>1. PICK w \in VersionOps :
        /\ At(t, w)
        /\ th' = [th EXCEPT ![t] = Issue(t, [NoStmt EXCEPT !.op = w, !.db = th[t].want.db,
                                             !.n = Head(th[t].prog.body)[2]], Rest(th[t]))]
  BY Zenon DEF ProgVersion, VersionOps
<1>2. UNCHANGED <<dialect, store, conn, free, faults, tx, calls>>
  BY DEF ProgVersion, others
<1>3. PICK s, b : s = Rest(th[t]) /\ b = Tail(th[t].prog.body)
  OBVIOUS
<1>4. Inside(t, w) /\ w \in TxWords
  BY <1>1, Insides DEF TxWords
<1>5. /\ th[t] \in Thread /\ th[t].pc = "app" /\ ~th[t].err /\ th[t].prog.own /\ th[t].want.db \in Dbs
      /\ th[t].prog.body # <<>> /\ th[t].prog.body[1] \in Items /\ th[t].prog.body[1][1] = w
      /\ th[t].eng = None /\ th[t].tls \in Engines /\ th[t].frames # <<>>
      /\ RecRight(th[t].rec)
      /\ Bodied(th[t], b, s) /\ Chain(b) /\ Follow(th[t].prog.body[1], b[1]) /\ b # <<>>
  BY <1>3, <1>4 DEF Inside, VersionOps
<1>6. PICK x \in Items : x = th[t].prog.body[1]
  BY <1>5
<1>7. x[1] = w /\ x[2] \in DOMAIN Versions /\ x = <<w, x[2]>>
  BY <1>5, <1>6, ItemKinds
<1>8. Head(th[t].prog.body) = x
  <2>1. th[t].prog.body \in Seq(Items)
    BY <1>5 DEF Thread, Progs
  <2> QED
    BY <1>5, <1>6, <2>1
<1>9. PICK i \in DOMAIN Versions : i = x[2]
  BY <1>7
<1>10. x = <<w, i>> /\ th[t].prog.body[1] = <<w, i>>
  BY <1>6, <1>7, <1>9
<1>11. PICK q : q = [NoStmt EXCEPT !.op = w, !.db = th[t].want.db, !.n = i]
  OBVIOUS
<1>12. th' = [th EXCEPT ![t] = Issue(t, q, s)]
  BY <1>1, <1>3, <1>8, <1>9, <1>11, Zenon
<1>13. q \in Stmts /\ q.op = w /\ q.db \in Dbs /\ q.n = i /\ WantRight(q)
  <2>1. i \in Nat
    BY Constants
  <2> QED
    BY <1>5, <1>11, <2>1, Asks DEF Stmts, StmtOps, VersionOps, WantRight
<1>14. /\ s \in Thread /\ s.prog.own /\ s.eng = None
       /\ s.frames = th[t].frames /\ s.tls = th[t].tls /\ s.rec = th[t].rec /\ s.prog.body = b
  BY <1>5 DEF Bodied
<1>15. PICK r : r = Issue(t, q, s)
  OBVIOUS
<1>16. Issued(s, q, r)
  BY <1>13, <1>14, <1>15, IssueFields
<1>17. s.tls # None
  BY <1>5, <1>14, Constants
<1>18. /\ r \in Thread /\ r.pc = "stmt" /\ r.err = FALSE /\ r.prog.own /\ r.want = q /\ r.eng = r.tls
       /\ r.eng \in Engines /\ r.frames = th[t].frames /\ r.tls = th[t].tls /\ r.rec = th[t].rec
       /\ r.prog.body = b
  BY <1>5, <1>14, <1>16, <1>17 DEF Issued
<1>19. /\ b[1][1] \in TxWords
       /\ w = "up" => b[1] = <<"record", i>>
       /\ w = "down" => b[1] = <<"unrecord", i>>
       /\ w \in {"record", "unrecord"} => b[1] = <<"commit">>
  BY <1>5, <1>10 DEF Follow, TxWords, VersionOps
<1>20. FramesRight(th[t])
  BY DEF ThreadsRight, ThreadRight
<1>21. FramesRight(r)
  BY <1>18, <1>20 DEF FramesRight
<1>22. EngineRight(r)
  BY <1>5, <1>18 DEF EngineRight
<1>23. PlanRight(r)
  BY <1>5, <1>13, <1>18 DEF PlanRight, VersionOps, StmtOps
<1>24. Heads(r, TxWords) /\ ~Heads(r, {"missing"}) /\ ~Heads(r, {"undo"}) /\ ~Heads(r, Seen)
  BY <1>5, <1>18, <1>19 DEF Heads, TxWords, VersionOps, Seen
<1>25. TxRight(r)
  BY <1>5, <1>13, <1>18, <1>19, <1>24 DEF TxRight, VersionOps
<1>26. ResultRight(r)
  BY <1>18, <1>24 DEF ResultRight
<1>27. /\ Ups(th[t]) = IF w = "record" THEN {i} ELSE {}
       /\ Downs(th[t]) = IF w = "unrecord" /\ i \notin NoDown THEN {i} ELSE {}
  BY <1>5, <1>10 DEF Ups, Downs, Half, VersionOps
<1>28. /\ Ups(r) = IF w = "record" THEN {i} ELSE {}
       /\ Downs(r) = IF w = "unrecord" /\ i \notin NoDown THEN {i} ELSE {}
  BY <1>13, <1>18 DEF Ups, Downs, Half, VersionOps
<1>29. calls' \in {calls, calls + 1} /\ calls' \in 0 .. MaxCalls /\ q.op # "log"
  BY <1>2, <1>13 DEF Types, VersionOps
<1>30. Ups(r) = Ups(th[t]) /\ Downs(r) = Downs(th[t])
  BY <1>27, <1>28
<1> QED
  BY <1>2, <1>5, <1>12, <1>13, <1>15, <1>18, <1>21, <1>22, <1>23, <1>25, <1>26, <1>29, <1>30
     DEF AppMove, ThreadRight

(* Every step of the application but an exception is a move. *)
LEMMA Moves ==
  ASSUME Types, ThreadsRight, NEW t \in Threads, ApplicationStep(t)
  PROVE  (\E r : AppMove(t, r)) \/ (FnThrows(t) \/ ProgThrows(t))
BY ExecMoves, TransactionMoves, FnReturnsMoves, MigrateMoves, AppliedMoves, RollbackLastMoves, MissingMoves,
   UndoMoves, ProgBeginMoves, ProgVersionMoves, ProgCommitMoves, FirstOrCreateMoves, UpdateOrCreateMoves,
   OrCreateMoves, OrUpdateMoves, AgainMoves, CreateMoves, CreatedMoves, LoadMoves, LoadedMoves, SaveMoves,
   SavedMoves, DestroyMoves, Zenon DEF ApplicationStep

-----------------------------------------------------------------------------
(* The steps of a statement, of one thread, and what they leave of it.     *)

AtStmt(t) ==
  /\ th[t] \in Thread /\ th[t].pc = "stmt" /\ ~th[t].err /\ th[t].want \in Stmts
  /\ th[t].eng \in Engines /\ DbOf[th[t].eng] \in Dbs /\ conn[th[t].eng] \in Conns
  /\ Sees(th[t].eng) \in States
  /\ th[t].want.op \in StmtOps /\ th[t].want.db \in Dbs
  /\ th[t].frames # <<>> => th[t].eng = th[t].tls
  /\ th[t].frames = <<>> => th[t].tls = None

LEMMA SeesStates ==
  ASSUME Types, NEW e \in Engines
  PROVE  Sees(e) \in States /\ DbOf[e] \in Dbs /\ conn[e] \in Conns /\ store[DbOf[e]] \in States
<1>1. DbOf[e] \in Dbs
  BY Constants
<1>2. conn[e] \in Conns /\ store[DbOf[e]] \in States
  BY <1>1 DEF Types
<1> QED
  BY <1>1, <1>2 DEF Sees, Conns

LEMMA AtStatement ==
  ASSUME Types, ThreadsRight, NEW t \in Threads, th[t].pc = "stmt"
  PROVE  AtStmt(t)
<1>1. th[t] \in Thread
  BY DEF Types
<1>2. EngineRight(th[t]) /\ PlanRight(th[t]) /\ TxRight(th[t]) /\ FramesRight(th[t])
  BY DEF ThreadsRight, ThreadRight
<1>3. th[t].eng \in Engines /\ (th[t].frames # <<>> => th[t].eng = th[t].tls)
  BY <1>2 DEF EngineRight
<1>4. th[t].want.op \in StmtOps /\ th[t].want.db \in Dbs
  BY <1>2 DEF PlanRight
<1>5. ~th[t].err
  BY <1>2 DEF TxRight
<1>6. th[t].frames = <<>> => th[t].tls = None
  BY <1>1, <1>2, NoFrames
<1>7. th[t].want \in Stmts
  BY <1>1 DEF Thread
<1> QED
  BY <1>1, <1>3, <1>4, <1>5, <1>6, <1>7, SeesStates DEF AtStmt

(* A thread whose statement has ended, well or not. *)
EndedRight(t, ok, r) ==
  /\ r \in Thread /\ ThreadRight(r)
  /\ r.frames = th[t].frames /\ r.tls = th[t].tls /\ r.prog.own = th[t].prog.own
  /\ th[t].frames # <<>> => r.pc = "app" /\ r.eng = None
  /\ th[t].frames = <<>> => r.pc = "release" /\ r.eng = th[t].eng
  /\ r.err => ~ok
  /\ ok => /\ Ups(r) = {i \in DOMAIN Versions : th[t].want.op = "up" /\ th[t].want.n = i}
           /\ Downs(r) = {i \in DOMAIN Versions \ NoDown : th[t].want.op = "down" /\ th[t].want.n = i}
  /\ Ups(th[t]) = {i \in DOMAIN Versions : th[t].want.op = "record" /\ th[t].want.n = i}
  /\ Downs(th[t]) = {i \in DOMAIN Versions \ NoDown : th[t].want.op = "unrecord" /\ th[t].want.n = i}
  /\ ~ok => r.err \/ (Ups(r) = {} /\ Downs(r) = {} /\ Ups(th[t]) = {} /\ Downs(th[t]) = {})
  /\ WantRight(th[t].want) => WantRight(r.want)

LEMMA StatementEnds ==
  ASSUME Types, ThreadsRight, NEW t \in Threads, th[t].pc = "stmt", NEW ok \in BOOLEAN, NEW res \in Results,
         ok /\ th[t].want.op \in {"applied", "last"} => res \subseteq DOMAIN Versions,
         ok /\ th[t].want.op = "select" => res \subseteq Rows,
         NEW r, r = Ended(t, ok, res)
  PROVE  EndedRight(t, ok, r)
<1>1. AtStmt(t)
  BY AtStatement
<1>2. EngineRight(th[t]) /\ PlanRight(th[t]) /\ TxRight(th[t]) /\ FramesRight(th[t]) /\ ResultRight(th[t])
  BY DEF ThreadsRight, ThreadRight
<1>3. InTx(t) <=> th[t].frames # <<>>
  BY <1>1, Constants DEF InTx, AtStmt
<1>4. PICK s : s = [th[t] EXCEPT !.pc = IF InTx(t) THEN "app" ELSE "release",
                                 !.eng = IF InTx(t) THEN None ELSE th[t].eng,
                                 !.err = ~ok, !.res = res]
  OBVIOUS
<1>5. r = Settle(s)
  BY <1>4, Zenon DEF Ended
<1>6. /\ s \in Thread /\ s.frames = th[t].frames /\ s.tls = th[t].tls /\ s.want = th[t].want
      /\ s.prog = th[t].prog /\ s.rec = th[t].rec /\ s.err = (~ok) /\ s.res = res
      /\ th[t].frames # <<>> => s.pc = "app" /\ s.eng = None
      /\ th[t].frames = <<>> => s.pc = "release" /\ s.eng = th[t].eng
  BY <1>1, <1>3, <1>4 DEF AtStmt, Thread, Places
<1>7. Settled(s, r)
  BY <1>5, <1>6, SettleFields
<1>8. /\ r \in Thread /\ r.frames = th[t].frames /\ r.tls = th[t].tls /\ r.rec = th[t].rec
      /\ th[t].frames # <<>> => r.pc = "app" /\ r.eng = None
      /\ th[t].frames = <<>> => r.pc = "release" /\ r.eng = th[t].eng
      /\ r.prog.own = th[t].prog.own
      /\ \/ ~Settles(s) /\ r = s
         \/ r.want = NoStmt /\ r.res = {} /\ r.err = FALSE /\ r.prog = NoProg
  BY <1>6, <1>7 DEF Settled
<1>9. FramesRight(r)
  BY <1>2, <1>8 DEF FramesRight
<1>10. th[t].prog.own => th[t].frames # <<>>
  BY <1>2 DEF EngineRight
<1>11. EngineRight(r)
  <2>1. th[t].frames = <<>> => r.eng \in Engines \ Engs(r)
    BY <1>1, <1>8 DEF AtStmt, Engs
  <2> QED
    BY <1>8, <1>10, <2>1 DEF EngineRight
<1>12. r.err => ~ok
  BY <1>6, <1>8
<1>13. CASE ~Settles(s) /\ r = s
  <2>1. r.want = th[t].want /\ r.prog = th[t].prog /\ r.err = (~ok) /\ r.res = res
    BY <1>6, <1>13
  <2>2. PlanRight(r)
    BY <1>2, <1>1, <1>8, <2>1 DEF PlanRight, AtStmt
  <2>3. \A W : Heads(r, W) = Heads(th[t], W)
    BY <2>1 DEF Heads
  <2>4. r.err => r.pc = "release" \/ (r.pc = "app" /\ r.prog.own)
    BY <1>6, <1>8, <1>13 DEF Settles
  <2>5. Heads(th[t], TxWords) <=> th[t].prog.own
    BY <1>1, <1>2 DEF TxRight, AtStmt
  <2>6. r.pc \in {"app", "release"} /\ (r.prog.own => r.pc = "app")
    BY <1>8, <1>10
  <2>7. TxRight(r)
    BY <1>8, <2>3, <2>4, <2>5, <2>6 DEF TxRight
  <2>8. /\ Heads(th[t], {"missing"}) => th[t].want.op = "applied"
        /\ Heads(th[t], {"undo"}) => th[t].want.op = "last"
        /\ Heads(th[t], Seen) => th[t].want.op = "select"
    BY <1>1, <1>2 DEF ResultRight, AtStmt
  <2>9. Heads(th[t], {"missing", "undo"}) => Heads(th[t], {"missing"}) \/ Heads(th[t], {"undo"})
    BY DEF Heads
  <2>10. ResultRight(r)
    BY <2>1, <2>3, <2>6, <2>8, <2>9 DEF ResultRight
  <2>11. /\ th[t].want.op \in VersionOps <=> th[t].prog.own
         /\ th[t].want.op \in VersionOps => th[t].want.n \in DOMAIN Versions /\ th[t].prog.body # <<>>
         /\ th[t].want.op = "up" => th[t].prog.body[1] = <<"record", th[t].want.n>>
         /\ th[t].want.op = "down" => th[t].prog.body[1] = <<"unrecord", th[t].want.n>>
         /\ th[t].want.op \in {"record", "unrecord"} => th[t].prog.body[1] = <<"commit">>
    BY <1>1, <1>2 DEF TxRight, AtStmt
  <2>12. /\ Ups(th[t]) = {i \in DOMAIN Versions : th[t].want.op = "record" /\ th[t].want.n = i}
         /\ Downs(th[t]) = {i \in DOMAIN Versions \ NoDown : th[t].want.op = "unrecord" /\ th[t].want.n = i}
    BY <1>1, <2>11 DEF Ups, Downs, Half, AtStmt, VersionOps
  <2>13. ok => /\ Ups(r) = {i \in DOMAIN Versions : th[t].want.op = "up" /\ th[t].want.n = i}
               /\ Downs(r) = {i \in DOMAIN Versions \ NoDown : th[t].want.op = "down" /\ th[t].want.n = i}
    <3>1. CASE ~th[t].prog.own
      <4>1. r.prog.own = FALSE
        BY <1>1, <1>8, <3>1 DEF AtStmt, Thread, Progs
      <4>2. Ups(r) = {} /\ Downs(r) = {}
        BY <4>1, NotHalf
      <4>3. th[t].want.op \notin {"up", "down"}
        BY <2>11, <3>1 DEF VersionOps
      <4> QED
        BY <4>2, <4>3
    <3>2. CASE th[t].prog.own /\ ok
      <4>1. r.pc = "app" /\ r.prog.own /\ ~r.err
        BY <1>8, <1>10, <1>12, <3>2
      <4>2. PICK x : x = th[t].prog.body[1]
        OBVIOUS
      <4>3. /\ Ups(r) = {i \in DOMAIN Versions : x = <<"record", i>>}
            /\ Downs(r) = {i \in DOMAIN Versions \ NoDown : x = <<"unrecord", i>>}
        BY <2>1, <4>1, <4>2 DEF Ups, Downs, Half
      <4>4. /\ th[t].want.op \in {"up", "down", "record", "unrecord"}
            /\ th[t].want.op = "up" => x = <<"record", th[t].want.n>>
            /\ th[t].want.op = "down" => x = <<"unrecord", th[t].want.n>>
            /\ th[t].want.op \in {"record", "unrecord"} => x = <<"commit">>
        BY <2>11, <3>2, <4>2 DEF VersionOps
      <4> QED
        BY <4>3, <4>4
    <3> QED
      BY <3>1, <3>2
  <2>14. ~ok => r.err
    BY <2>1
  <2> QED
    BY <1>8, <1>9, <1>11, <1>12, <2>1, <2>2, <2>7, <2>10, <2>12, <2>13, <2>14 DEF EndedRight, ThreadRight
<1>14. CASE r.want = NoStmt /\ r.res = {} /\ r.err = FALSE /\ r.prog = NoProg
  <2>1. r.prog.own = FALSE /\ r.prog.body = <<>> /\ Chain(r.prog.body) /\ WantRight(r.want)
    BY <1>14, NoProgIs, NoWant
  <2>2. r.pc \in {"app", "release"} /\ ~r.err
    BY <1>8, <1>14
  <2>3. \A W : ~Heads(r, W)
    BY <2>1 DEF Heads
  <2>4. PlanRight(r)
    BY <1>2, <1>8, <2>1, <2>2 DEF PlanRight
  <2>5. TxRight(r)
    BY <2>1, <2>2, <2>3 DEF TxRight
  <2>6. ResultRight(r)
    BY <2>2, <2>3 DEF ResultRight
  <2>7. th[t].prog.own = FALSE
    BY <1>8, <2>1
  <2>8. th[t].want.op \notin VersionOps
    BY <1>1, <1>2, <2>7 DEF TxRight, AtStmt
  <2>9. Ups(r) = {} /\ Downs(r) = {} /\ Ups(th[t]) = {} /\ Downs(th[t]) = {}
    BY <2>1, <2>7, NotHalf
  <2>10. th[t].want.op \notin {"up", "down", "record", "unrecord"}
    BY <2>8 DEF VersionOps
  <2> QED
    BY <1>8, <1>9, <1>11, <1>12, <2>1, <2>4, <2>5, <2>6, <2>9, <2>10 DEF EndedRight, ThreadRight
<1> QED
  BY <1>8, <1>13, <1>14

(* Acquire: a thread that asked gets a connection that was free, or sleeps.  *)
Took(t, e, r) ==
  /\ r \in Thread /\ ThreadRight(r)
  /\ r.frames = th[t].frames /\ r.tls = th[t].tls /\ r.eng = e /\ r.want = th[t].want
  /\ r.pc \in {"begin", "stmt"} /\ ~r.err
  /\ Engs(r) = Engs(th[t]) /\ th[t].eng = None /\ th[t].pc = "acquire"
  /\ r.pc = "stmt" => r.frames = <<>>
  /\ Ups(r) = {} /\ Downs(r) = {}

LEMMA Takes ==
  ASSUME Types, ThreadsRight, Owned, NEW t \in Threads, th[t].pc = "acquire",
         NEW e \in free[th[t].want.db], NEW r,
         r = [th[t] EXCEPT !.eng = e, !.pc = IF th[t].want.op = "begin" THEN "begin" ELSE "stmt"]
  PROVE  Took(t, e, r)
<1>1. th[t] \in Thread /\ th[t].want \in Stmts
  BY DEF Types, Thread
<1>2. EngineRight(th[t]) /\ PlanRight(th[t]) /\ TxRight(th[t]) /\ FramesRight(th[t]) /\ ResultRight(th[t])
  BY DEF ThreadsRight, ThreadRight
<1>3. th[t].want.db \in Dbs /\ th[t].want.op \in StmtOps \cup {"begin"}
  BY <1>2 DEF PlanRight
<1>4. e \in Engines /\ DbOf[e] = th[t].want.db /\ e \notin Engs(th[t])
  BY <1>3 DEF Owned, HoldsOf
<1>5. /\ r \in Thread /\ r.frames = th[t].frames /\ r.tls = th[t].tls /\ r.eng = e /\ r.want = th[t].want
      /\ r.pc = (IF th[t].want.op = "begin" THEN "begin" ELSE "stmt")
      /\ r.err = th[t].err /\ r.prog = th[t].prog /\ r.rec = th[t].rec /\ r.res = th[t].res
  BY <1>1, <1>4 DEF Thread, Places
<1>6. ~th[t].err /\ th[t].eng = None
  BY <1>2 DEF TxRight, EngineRight
<1>7. Engs(r) = Engs(th[t])
  BY <1>5 DEF Engs
<1>8. FramesRight(r)
  BY <1>2, <1>5 DEF FramesRight
<1>9. th[t].want.op # "begin" => th[t].frames = <<>>
  BY <1>2 DEF EngineRight
<1>10. EngineRight(r)
  BY <1>2, <1>4, <1>5, <1>7, <1>9 DEF EngineRight
<1>11. PlanRight(r)
  BY <1>2, <1>3, <1>5 DEF PlanRight
<1>12. \A W : Heads(r, W) = Heads(th[t], W)
  BY <1>5 DEF Heads
<1>13. ~th[t].prog.own
  BY <1>2 DEF TxRight
<1>14. TxRight(r)
  BY <1>2, <1>5, <1>6, <1>12, <1>13 DEF TxRight, VersionOps
<1>15. ResultRight(r)
  <2>1. /\ Heads(r, {"missing"}) => th[t].want.op = "applied"
        /\ Heads(r, {"undo"}) => th[t].want.op = "last"
        /\ Heads(r, Seen) => th[t].want.op = "select"
    BY <1>2, <1>12 DEF ResultRight
  <2>2. r.want.op = th[t].want.op /\ r.pc \notin {"app", "release"}
    BY <1>5
  <2> QED
    BY <2>1, <2>2 DEF ResultRight
<1>16. Ups(r) = {} /\ Downs(r) = {}
  BY <1>5, <1>13 DEF Ups, Downs, Half
<1> QED
  BY <1>5, <1>6, <1>7, <1>8, <1>9, <1>10, <1>11, <1>14, <1>15, <1>16 DEF Took, ThreadRight

(* Asleep and awake are one but for the place. *)
Turned(s, r) ==
  /\ r \in Thread /\ ThreadRight(r)
  /\ r.frames = s.frames /\ r.tls = s.tls /\ r.eng = None /\ s.eng = None /\ r.want = s.want /\ r.err = s.err
  /\ Ups(r) = Ups(s) /\ Downs(r) = Downs(s)

LEMMA Turns ==
  ASSUME NEW s \in Thread, ThreadRight(s), s.pc \in {"acquire", "asleep"}, NEW p \in {"acquire", "asleep"},
         NEW r, r = [s EXCEPT !.pc = p]
  PROVE  Turned(s, r) /\ r.pc = p
<1>1. EngineRight(s) /\ PlanRight(s) /\ TxRight(s) /\ FramesRight(s) /\ ResultRight(s)
  BY DEF ThreadRight
<1>2. /\ r \in Thread /\ r.frames = s.frames /\ r.tls = s.tls /\ r.eng = s.eng /\ r.want = s.want
      /\ r.pc = p /\ r.err = s.err /\ r.prog = s.prog /\ r.rec = s.rec /\ r.res = s.res
  BY DEF Thread, Places
<1>3. FramesRight(r)
  BY <1>1, <1>2 DEF FramesRight
<1>4. EngineRight(r) /\ s.eng = None
  BY <1>1, <1>2 DEF EngineRight
<1>5. PlanRight(r)
  BY <1>1, <1>2 DEF PlanRight
<1>6. \A W : Heads(r, W) = Heads(s, W)
  BY <1>2 DEF Heads
<1>7. TxRight(r)
  BY <1>1, <1>2, <1>6 DEF TxRight
<1>8. ResultRight(r)
  BY <1>1, <1>2, <1>6 DEF ResultRight
<1>9. Ups(r) = Ups(s) /\ Downs(r) = Downs(s)
  BY <1>2 DEF Ups, Downs, Half
<1> QED
  BY <1>2, <1>3, <1>4, <1>5, <1>7, <1>8, <1>9 DEF Turned, ThreadRight

(* Release: the thread goes on with its call. *)
Gave(t, r) ==
  /\ r \in Thread /\ ThreadRight(r)
  /\ r.frames = th[t].frames /\ r.tls = th[t].tls /\ r.pc = "app" /\ r.eng = None /\ ~r.err
  /\ th[t].eng \in Engines /\ th[t].eng \notin Engs(th[t])
  /\ WantRight(th[t].want) => WantRight(r.want)
  /\ Ups(r) = {} /\ Downs(r) = {} /\ Ups(th[t]) = {} /\ Downs(th[t]) = {}

LEMMA Gives ==
  ASSUME Types, ThreadsRight, NEW t \in Threads, th[t].pc = "release",
         NEW r, r = Settle([th[t] EXCEPT !.pc = "app", !.eng = None])
  PROVE  Gave(t, r)
<1>1. th[t] \in Thread
  BY DEF Types
<1>2. EngineRight(th[t]) /\ PlanRight(th[t]) /\ TxRight(th[t]) /\ FramesRight(th[t]) /\ ResultRight(th[t])
  BY DEF ThreadsRight, ThreadRight
<1>3. th[t].eng \in Engines /\ th[t].eng \notin Engs(th[t])
  BY <1>2 DEF EngineRight
<1>4. th[t].prog.own = FALSE
  BY <1>1, <1>2 DEF TxRight, Thread, Progs
<1>5. PICK s : s = [th[t] EXCEPT !.pc = "app", !.eng = None]
  OBVIOUS
<1>6. /\ s \in Thread /\ s.pc = "app" /\ s.eng = None /\ s.err = th[t].err /\ s.frames = th[t].frames
      /\ s.tls = th[t].tls /\ s.want = th[t].want /\ s.prog = th[t].prog /\ s.rec = th[t].rec
      /\ s.res = th[t].res
  BY <1>1, <1>5 DEF Thread, Places
<1>7. r = Settle(s)
  BY <1>5
<1>8. Settled(s, r)
  BY <1>6, <1>7, SettleFields
<1>9. /\ r \in Thread /\ r.frames = th[t].frames /\ r.tls = th[t].tls /\ r.rec = th[t].rec
      /\ r.pc = "app" /\ r.eng = None /\ r.prog.own = FALSE
      /\ \/ ~Settles(s) /\ r = s
         \/ r.want = NoStmt /\ r.err = FALSE /\ r.prog = NoProg
  BY <1>4, <1>6, <1>8 DEF Settled
<1>10. ~r.err
  BY <1>4, <1>6, <1>9 DEF Settles
<1>11. FramesRight(r)
  BY <1>2, <1>9 DEF FramesRight
<1>12. EngineRight(r)
  BY <1>9 DEF EngineRight
<1>13. Ups(r) = {} /\ Downs(r) = {} /\ Ups(th[t]) = {} /\ Downs(th[t]) = {}
  BY <1>4, <1>9, NotHalf
<1>14. CASE r = s
  <2>1. PlanRight(r)
    BY <1>2, <1>6, <1>9, <1>14 DEF PlanRight
  <2>2. \A W : Heads(r, W) = Heads(th[t], W)
    BY <1>6, <1>14 DEF Heads
  <2>3. ~th[t].err
    BY <1>6, <1>10, <1>14
  <2>4. TxRight(r)
    BY <1>2, <1>4, <1>9, <1>10, <2>2, <2>3 DEF TxRight
  <2>5. ResultRight(r)
    BY <1>2, <1>6, <1>9, <1>14, <2>2, <2>3 DEF ResultRight
  <2> QED
    BY <1>3, <1>6, <1>9, <1>10, <1>11, <1>12, <1>13, <1>14, <2>1, <2>4, <2>5 DEF Gave, ThreadRight
<1>15. CASE r.want = NoStmt /\ r.prog = NoProg
  <2>1. r.prog.body = <<>> /\ Chain(r.prog.body) /\ WantRight(r.want)
    BY <1>15, NoProgIs, NoWant
  <2>2. \A W : ~Heads(r, W)
    BY <2>1 DEF Heads
  <2>3. PlanRight(r)
    BY <1>2, <1>9, <2>1 DEF PlanRight
  <2>4. TxRight(r)
    BY <1>9, <1>10, <2>2 DEF TxRight
  <2>5. ResultRight(r)
    BY <1>9, <2>2 DEF ResultRight
  <2> QED
    BY <1>3, <1>9, <1>10, <1>11, <1>12, <1>13, <2>1, <2>3, <2>4, <2>5 DEF Gave, ThreadRight
<1> QED
  BY <1>9, <1>14, <1>15

(* BeginTx: the connection becomes the thread's innermost transaction. *)
Opened(t, e, x, r) ==
  /\ r \in Thread /\ ThreadRight(r)
  /\ r.pc = "app" /\ r.eng = None /\ r.tls = e /\ ~r.err
  /\ r.frames = Append(th[t].frames, [eng |-> e, prev |-> th[t].tls, x |-> x])
  /\ Engs(r) = Engs(th[t]) \cup {e} /\ e \in Engines /\ e \notin Engs(th[t])
  /\ WantRight(th[t].want) => WantRight(r.want)
  /\ Ups(r) = {} /\ Downs(r) = {}

LEMMA Opens ==
  ASSUME Types, ThreadsRight, NEW t \in Threads, th[t].pc = "begin", NEW x \in Nat,
         NEW r, r = Settle([th[t] EXCEPT !.pc = "app", !.tls = th[t].eng, !.eng = None,
                              !.prog.own = th[t].prog # NoProg,
                              !.frames = Append(th[t].frames, [eng |-> th[t].eng, prev |-> th[t].tls, x |-> x])])
  PROVE  Opened(t, th[t].eng, x, r)
<1>1. th[t] \in Thread /\ th[t].frames \in Seq(Frames) /\ th[t].prog \in Progs
      /\ th[t].tls \in Engines \cup {None}
  BY DEF Types, Thread
<1>2. EngineRight(th[t]) /\ PlanRight(th[t]) /\ TxRight(th[t]) /\ FramesRight(th[t]) /\ ResultRight(th[t])
  BY DEF ThreadsRight, ThreadRight
<1>3. PICK e \in Engines : e = th[t].eng /\ e \notin Engs(th[t])
  BY <1>2 DEF EngineRight
<1>4. /\ th[t].prog.own = FALSE /\ ~th[t].err /\ th[t].want.op = "begin"
      /\ th[t].prog = NoProg \/ (th[t].prog.body # <<>> /\ th[t].prog.body[1] \in Openers)
      /\ Chain(th[t].prog.body) /\ th[t].want.db \in Dbs /\ RecRight(th[t].rec)
  BY <1>1, <1>2 DEF TxRight, PlanRight, Progs
<1>5. PICK f \in Frames : f = [eng |-> e, prev |-> th[t].tls, x |-> x]
  BY <1>1 DEF Frames
<1>6. PICK fs \in Seq(Frames) : fs = Append(th[t].frames, f)
  <2>1. Append(th[t].frames, f) \in Seq(Frames)
    BY <1>1
  <2> QED
    BY <2>1
<1>7. /\ Len(th[t].frames) \in Nat /\ Len(fs) = Len(th[t].frames) + 1 /\ fs # <<>>
      /\ DOMAIN th[t].frames = 1 .. Len(th[t].frames) /\ DOMAIN fs = 1 .. Len(th[t].frames) + 1
      /\ \A k \in DOMAIN th[t].frames : fs[k] = th[t].frames[k]
      /\ fs[Len(th[t].frames) + 1] = f
  <2>1. /\ Len(th[t].frames) \in Nat /\ DOMAIN th[t].frames = 1 .. Len(th[t].frames)
    BY <1>1
  <2>2. Len(fs) = Len(th[t].frames) + 1 /\ fs[Len(th[t].frames) + 1] = f
    BY <1>1, <1>6
  <2>3. DOMAIN fs = 1 .. Len(th[t].frames) + 1
    BY <1>6, <2>2
  <2>4. ASSUME NEW k \in DOMAIN th[t].frames PROVE fs[k] = th[t].frames[k]
    BY <1>1, <1>6, <2>1
  <2>5. fs # <<>>
    BY <2>1, <2>2
  <2> QED
    BY <2>1, <2>2, <2>3, <2>4, <2>5
<1>8. PICK p \in Progs : /\ p = [th[t].prog EXCEPT !.own = (th[t].prog # NoProg)]
                         /\ p.body = th[t].prog.body /\ p.own = (th[t].prog # NoProg)
  <2>1. PICK own \in BOOLEAN : own = (th[t].prog # NoProg)
    OBVIOUS
  <2>2. PICK p : p = [th[t].prog EXCEPT !.own = own]
    OBVIOUS
  <2>3. p \in Progs /\ p.body = th[t].prog.body /\ p.own = own
    BY <1>1, <2>2 DEF Progs
  <2> QED
    BY <2>1, <2>2, <2>3
<1>9. PICK s : s = [th[t] EXCEPT !.pc = "app", !.tls = e, !.eng = None, !.prog = p, !.frames = fs]
  OBVIOUS
<1>10. /\ s \in Thread /\ s.pc = "app" /\ s.tls = e /\ s.eng = None /\ s.prog = p /\ s.frames = fs
       /\ s.want = th[t].want /\ s.rec = th[t].rec /\ s.err = th[t].err
  BY <1>1, <1>9 DEF Thread, Places
<1>11. r = Settle(s)
  <2>1. s = [th[t] EXCEPT !.pc = "app", !.tls = th[t].eng, !.eng = None,
                          !.prog.own = th[t].prog # NoProg,
                          !.frames = Append(th[t].frames, [eng |-> th[t].eng, prev |-> th[t].tls, x |-> x])]
    BY <1>1, <1>3, <1>5, <1>6, <1>8, <1>9 DEF Thread, Progs
  <2> QED
    BY <2>1
<1>12. Settled(s, r)
  BY <1>10, <1>11, SettleFields
<1>13. Settles(s) <=> th[t].prog = NoProg
  <2>1. th[t].prog = NoProg => th[t].prog.body = <<>>
    BY NoProgIs
  <2> QED
    BY <1>4, <1>8, <1>10, <2>1 DEF Settles
<1>14. /\ r \in Thread /\ r.pc = "app" /\ r.tls = e /\ r.eng = None /\ r.frames = fs /\ r.rec = th[t].rec
       /\ ~r.err
       /\ th[t].prog = NoProg => r.want = NoStmt /\ r.prog = NoProg
       /\ th[t].prog # NoProg => r.want = th[t].want /\ r.prog = p
  BY <1>4, <1>10, <1>12, <1>13 DEF Settled
<1>15. Engs(r) = Engs(th[t]) \cup {e}
  <2>1. f.eng = e
    BY <1>5
  <2>2. \A k \in DOMAIN th[t].frames : k \in DOMAIN fs /\ fs[k].eng = th[t].frames[k].eng
    BY <1>7
  <2>3. \A k \in DOMAIN fs : k \in DOMAIN th[t].frames \/ k = Len(th[t].frames) + 1
    BY <1>7
  <2>4. Len(th[t].frames) + 1 \in DOMAIN fs /\ fs[Len(th[t].frames) + 1].eng = e
    BY <1>7, <2>1
  <2> QED
    BY <1>14, <2>2, <2>3, <2>4 DEF Engs
<1>16. FramesRight(r)
  <2>1. r.tls = r.frames[Len(r.frames)].eng /\ r.frames # <<>>
    BY <1>5, <1>7, <1>14
  <2>2. ASSUME NEW k \in DOMAIN r.frames
        PROVE  r.frames[k].prev = IF k = 1 THEN None ELSE r.frames[k - 1].eng
    <3>1. CASE k \in DOMAIN th[t].frames
      <4>1. th[t].frames[k].prev = IF k = 1 THEN None ELSE th[t].frames[k - 1].eng
        BY <1>2, <3>1 DEF FramesRight
      <4>2. k # 1 => k - 1 \in DOMAIN th[t].frames
        BY <1>7, <3>1
      <4> QED
        BY <1>7, <1>14, <3>1, <4>1, <4>2
    <3>2. CASE k = Len(th[t].frames) + 1
      <4>1. r.frames[k].prev = th[t].tls
        <5>1. f.prev = th[t].tls
          BY <1>5
        <5> QED
          BY <1>7, <1>14, <3>2, <5>1
      <4>2. CASE th[t].frames = <<>>
        <5>1. th[t].tls = None /\ k = 1
          BY <1>2, <1>7, <3>2, <4>2 DEF FramesRight
        <5> QED
          BY <4>1, <5>1
      <4>3. CASE th[t].frames # <<>>
        <5>1. th[t].tls = th[t].frames[Len(th[t].frames)].eng /\ Len(th[t].frames) \in DOMAIN th[t].frames
          BY <1>1, <1>2, <4>3, TopFrame
        <5>2. k - 1 = Len(th[t].frames) /\ k # 1
          BY <1>7, <3>2, <5>1
        <5> QED
          BY <1>7, <1>14, <4>1, <5>1, <5>2
      <4> QED
        BY <4>2, <4>3
    <3>3. k \in DOMAIN th[t].frames \/ k = Len(th[t].frames) + 1
      BY <1>7, <1>14
    <3> QED
      BY <3>1, <3>2, <3>3
  <2>3. ASSUME NEW j \in DOMAIN r.frames, NEW k \in DOMAIN r.frames, r.frames[j].eng = r.frames[k].eng
        PROVE  j = k
    <3>1. \A i \in DOMAIN th[t].frames : th[t].frames[i].eng # e
      BY <1>3 DEF Engs
    <3>2. \A i \in DOMAIN r.frames : i \in DOMAIN th[t].frames \/ (i = Len(th[t].frames) + 1 /\ r.frames[i].eng = e)
      <4>1. fs[Len(th[t].frames) + 1].eng = e
        BY <1>5, <1>7
      <4>2. \A i \in DOMAIN fs : i \in DOMAIN th[t].frames \/ i = Len(th[t].frames) + 1
        BY <1>7
      <4> QED
        BY <1>14, <4>1, <4>2
    <3>3. \A i \in DOMAIN th[t].frames : r.frames[i] = th[t].frames[i]
      BY <1>7, <1>14
    <3>4. CASE j \in DOMAIN th[t].frames /\ k \in DOMAIN th[t].frames
      <4>1. th[t].frames[j].eng = th[t].frames[k].eng
        BY <2>3, <3>3, <3>4
      <4> QED
        BY <1>2, <3>4, <4>1 DEF FramesRight
    <3>5. CASE j \notin DOMAIN th[t].frames
      BY <2>3, <3>1, <3>2, <3>3, <3>5
    <3>6. CASE k \notin DOMAIN th[t].frames
      BY <2>3, <3>1, <3>2, <3>3, <3>6
    <3> QED
      BY <3>4, <3>5, <3>6
  <2>4. \A k \in DOMAIN r.frames : r.frames[k].prev = IF k = 1 THEN None ELSE r.frames[k - 1].eng
    BY <2>2
  <2>5. \A j, k \in DOMAIN r.frames : r.frames[j].eng = r.frames[k].eng => j = k
    BY <2>3
  <2>6. r.tls = IF r.frames = <<>> THEN None ELSE r.frames[Len(r.frames)].eng
    BY <2>1
  <2> QED
    BY <2>4, <2>5, <2>6, Zenon DEF FramesRight
<1>17. EngineRight(r)
  BY <1>7, <1>14 DEF EngineRight
<1>18. /\ Chain(r.prog.body) /\ (r.prog.body # <<>> => r.want.db \in Dbs)
       /\ WantRight(th[t].want) => WantRight(r.want)
       /\ r.prog.own => r.prog.body # <<>> /\ r.prog.body[1] \in Openers
       /\ ~r.prog.own => r.prog.body = <<>>
  <2>1. CASE th[t].prog = NoProg
    BY <1>14, <2>1, NoProgIs, NoWant
  <2>2. CASE th[t].prog # NoProg
    <3>1. r.prog.body # <<>> /\ r.prog.body[1] \in Openers
      BY <1>4, <1>8, <1>14, <2>2
    <3> QED
      BY <1>4, <1>8, <1>14, <2>2, <3>1
  <2> QED
    BY <2>1, <2>2
<1>19. PlanRight(r)
  BY <1>4, <1>14, <1>18 DEF PlanRight
<1>20. /\ r.prog.own => Heads(r, TxWords)
       /\ ~r.prog.own => ~Heads(r, TxWords)
       /\ ~Heads(r, {"missing", "undo"}) /\ ~Heads(r, Seen)
  BY <1>18, OpenerKinds DEF Heads, TxWords, VersionOps, Seen
<1>21. TxRight(r)
  BY <1>14, <1>20 DEF TxRight
<1>22. ResultRight(r)
  BY <1>14, <1>20 DEF ResultRight
<1>23. Ups(r) = {} /\ Downs(r) = {}
  <2>1. CASE r.prog.own
    <3>1. PICK y \in Openers : y = r.prog.body[1]
      BY <1>18, <2>1
    <3>2. \A i \in DOMAIN Versions : y # <<"record", i>> /\ (y = <<"unrecord", i>> => i \in NoDown)
      BY OpenerKinds
    <3> QED
      BY <1>14, <3>1, <3>2 DEF Ups, Downs, Half
  <2>2. CASE ~r.prog.own
    BY <2>2 DEF Ups, Downs, Half
  <2> QED
    BY <2>1, <2>2
<1> QED
  BY <1>3, <1>5, <1>6, <1>14, <1>15, <1>16, <1>17, <1>18, <1>19, <1>21, <1>22, <1>23 DEF Opened, ThreadRight

(* The scope of a transaction ends: its connection is the thread's again.  *)
Closed(t, r) ==
  /\ r \in Thread /\ ThreadRight(r)
  /\ r.tls = Top(t).prev /\ r.eng = th[t].tls /\ r.want = th[t].want
  /\ r.eng \in Engines /\ r.eng \notin Engs(r) /\ Engs(th[t]) = Engs(r) \cup {r.eng}
  /\ th[t].eng = None /\ Top(t) = th[t].frames[Len(th[t].frames)] /\ Top(t) \in Frames
  /\ Top(t).eng = th[t].tls
  /\ Len(r.frames) = Len(th[t].frames) - 1
  /\ \A k \in DOMAIN r.frames : k \in DOMAIN th[t].frames /\ k # Len(th[t].frames)
                                /\ r.frames[k] = th[t].frames[k]
  /\ Ups(r) = {} /\ Downs(r) = {}

LEMMA Closes ==
  ASSUME Types, ThreadsRight, NEW t \in Threads, th[t].pc \in {"app", "commit"}, th[t].frames # <<>>,
         NEW s \in Thread, s.pc \in {"release", "rollback"},
         s.pc = "release" => th[t].pc = "commit" /\ s.err = FALSE,
         s.frames = th[t].frames, s.want = th[t].want, s.prog = th[t].prog, s.rec = th[t].rec,
         NEW r, r = EndScope(t, s)
  PROVE  Closed(t, r) /\ r.pc = s.pc /\ r.err = s.err
<1>1. th[t] \in Thread /\ th[t].frames \in Seq(Frames) /\ th[t].prog \in Progs
  BY DEF Types, Thread
<1>2. EngineRight(th[t]) /\ PlanRight(th[t]) /\ TxRight(th[t]) /\ FramesRight(th[t]) /\ ResultRight(th[t])
  BY DEF ThreadsRight, ThreadRight
<1>3. PICK n \in Nat : n = Len(th[t].frames) /\ n >= 1 /\ n \in DOMAIN th[t].frames /\ th[t].frames[n] \in Frames
                       /\ th[t].tls = th[t].frames[n].eng /\ th[t].tls \in Engines /\ th[t].tls \in Engs(th[t])
  BY <1>1, <1>2, TopFrame
<1>4. PICK f \in Frames : f = Top(t) /\ f = th[t].frames[n]
  BY <1>1, <1>3 DEF Top, Last
<1>5. f.eng = th[t].tls /\ f.prev \in Engines \cup {None}
  BY <1>3, <1>4 DEF Frames
<1>6. DOMAIN th[t].frames = 1 .. n
  BY <1>1, <1>3
<1>7. PICK g \in Seq(Frames) : /\ g = Front(th[t].frames) /\ Len(g) = n - 1
                               /\ \A k \in 1 .. n - 1 : g[k] = th[t].frames[k]
  <2>1. Front(th[t].frames) = SubSeq(th[t].frames, 1, n - 1)
    BY <1>3 DEF Front
  <2>2. SubSeq(th[t].frames, 1, n - 1) \in Seq(Frames) /\ Len(SubSeq(th[t].frames, 1, n - 1)) = n - 1
    BY <1>1, <1>3
  <2>3. ASSUME NEW k \in 1 .. n - 1 PROVE SubSeq(th[t].frames, 1, n - 1)[k] = th[t].frames[k]
    BY <1>1, <1>3
  <2> QED
    BY <2>1, <2>2, <2>3
<1>8. DOMAIN g = 1 .. n - 1
  BY <1>7
<1>9. PICK p \in Progs : p = [th[t].prog EXCEPT !.own = FALSE] /\ p.body = th[t].prog.body /\ p.own = FALSE
  <2>1. PICK p : p = [th[t].prog EXCEPT !.own = FALSE]
    OBVIOUS
  <2>2. p \in Progs /\ p.body = th[t].prog.body /\ p.own = FALSE
    BY <1>1, <2>1 DEF Progs
  <2> QED
    BY <2>1, <2>2
<1>10. r = [s EXCEPT !.tls = f.prev, !.eng = f.eng, !.frames = g, !.prog = p]
  BY <1>1, <1>4, <1>7, <1>9 DEF EndScope, Thread, Progs
<1>11. /\ r \in Thread /\ r.tls = f.prev /\ r.eng = th[t].tls /\ r.frames = g /\ r.prog = p /\ r.want = th[t].want
       /\ r.rec = th[t].rec /\ r.pc = s.pc /\ r.err = s.err
  <2>1. PICK a \in Engines \cup {None}, b \in Engines : a = f.prev /\ b = f.eng
    BY <1>3, <1>5
  <2>2. r = [s EXCEPT !.tls = a, !.eng = b, !.frames = g, !.prog = p]
    BY <1>10, <2>1
  <2>3. r \in Thread
    BY <2>2 DEF Thread
  <2>4. /\ r.tls = a /\ r.eng = b /\ r.frames = g /\ r.prog = p /\ r.want = s.want
        /\ r.rec = s.rec /\ r.pc = s.pc /\ r.err = s.err
    BY <2>2 DEF Thread
  <2> QED
    BY <1>5, <2>1, <2>3, <2>4
<1>12. \A k \in DOMAIN r.frames : k \in DOMAIN th[t].frames /\ k # n /\ r.frames[k] = th[t].frames[k]
  BY <1>3, <1>6, <1>7, <1>8, <1>11
<1>13. \A k \in DOMAIN th[t].frames : k \in DOMAIN r.frames \/ k = n
  BY <1>3, <1>6, <1>8, <1>11
<1>14. r.eng \notin Engs(r)
  <2>1. ASSUME NEW k \in DOMAIN r.frames PROVE r.frames[k].eng # r.eng
    <3>1. th[t].frames[k].eng = th[t].frames[n].eng => k = n
      BY <1>2, <1>3, <1>12 DEF FramesRight
    <3> QED
      BY <1>3, <1>11, <1>12, <3>1
  <2> QED
    BY <2>1 DEF Engs
<1>15. Engs(th[t]) = Engs(r) \cup {r.eng}
  BY <1>3, <1>11, <1>12, <1>13 DEF Engs
<1>16. FramesRight(r)
  <2>1. f.prev = IF n = 1 THEN None ELSE th[t].frames[n - 1].eng
    BY <1>2, <1>3, <1>4 DEF FramesRight
  <2>2. r.tls = IF r.frames = <<>> THEN None ELSE r.frames[Len(r.frames)].eng
    <3>1. CASE n = 1
      <4>1. r.frames = <<>>
        BY <1>7, <1>11, <3>1
      <4> QED
        BY <1>11, <2>1, <3>1, <4>1
    <3>2. CASE n # 1
      <4>0. Len(g) = n - 1 /\ n - 1 \in 1 .. n - 1
        <5>1. n \in Nat /\ n >= 1
          BY <1>3
        <5>2. n - 1 \in 1 .. n - 1
          BY <3>2, <5>1
        <5> QED
          BY <1>7, <5>2
      <4>1. Len(r.frames) = n - 1 /\ n - 1 \in 1 .. n - 1 /\ r.frames # <<>>
        BY <1>11, <4>0
      <4>2. r.frames[n - 1] = th[t].frames[n - 1]
        BY <1>7, <1>11, <4>1
      <4> QED
        BY <1>11, <2>1, <3>2, <4>1, <4>2
    <3> QED
      BY <3>1, <3>2
  <2>3. ASSUME NEW k \in DOMAIN r.frames
        PROVE  r.frames[k].prev = IF k = 1 THEN None ELSE r.frames[k - 1].eng
    <3>1. k \in 1 .. n - 1 /\ (k # 1 => k - 1 \in DOMAIN r.frames)
      BY <1>3, <1>8, <1>11
    <3>2. th[t].frames[k].prev = IF k = 1 THEN None ELSE th[t].frames[k - 1].eng
      BY <1>2, <1>12 DEF FramesRight
    <3> QED
      BY <1>12, <3>1, <3>2
  <2>4. \A j, k \in DOMAIN r.frames : r.frames[j].eng = r.frames[k].eng => j = k
    BY <1>2, <1>12 DEF FramesRight
  <2> QED
    BY <2>2, <2>3, <2>4, Zenon DEF FramesRight
<1>17. EngineRight(r)
  BY <1>3, <1>9, <1>11, <1>14 DEF EngineRight
<1>18. PlanRight(r)
  BY <1>2, <1>9, <1>11 DEF PlanRight
<1>19. \A W : Heads(r, W) = Heads(th[t], W)
  BY <1>9, <1>11 DEF Heads
<1>20. r.pc = "release" => ~Heads(r, TxWords) /\ ~Heads(r, {"missing", "undo"}) /\ ~Heads(r, Seen) /\ ~r.err
  <2>1. th[t].pc = "commit" => th[t].prog.body = <<>> \/ Heads(th[t], {"begin"})
    BY <1>2 DEF TxRight
  <2> QED
    BY <1>9, <1>11, <2>1 DEF Heads, TxWords, VersionOps, Seen
<1>21. TxRight(r)
  BY <1>9, <1>11, <1>20 DEF TxRight
<1>22. ResultRight(r)
  BY <1>11, <1>20 DEF ResultRight
<1>23. Ups(r) = {} /\ Downs(r) = {}
  BY <1>9, <1>11, NotHalf
<1>24. th[t].eng = None
  BY <1>2 DEF EngineRight
<1> QED
  BY <1>3, <1>4, <1>5, <1>7, <1>11, <1>12, <1>14, <1>15, <1>16, <1>17, <1>18, <1>21, <1>22, <1>23, <1>24
     DEF Closed, ThreadRight

(* Rollback and BeginFails: the connection is given back, with an error.   *)
LeavesFields(t, r) ==
  /\ r \in Thread /\ ThreadRight(r)
  /\ r.pc = "release" /\ r.err = TRUE /\ r.frames = th[t].frames /\ r.tls = th[t].tls /\ r.eng = th[t].eng
  /\ r.want = th[t].want /\ Engs(r) = Engs(th[t]) /\ r.eng \in Engines /\ r.eng \notin Engs(r)

LEMMA Leaves ==
  ASSUME Types, ThreadsRight, NEW t \in Threads, th[t].pc \in {"begin", "rollback"},
         NEW r, r = [th[t] EXCEPT !.pc = "release", !.err = TRUE]
  PROVE  LeavesFields(t, r)
<1>1. th[t] \in Thread
  BY DEF Types
<1>2. EngineRight(th[t]) /\ PlanRight(th[t]) /\ TxRight(th[t]) /\ FramesRight(th[t]) /\ ResultRight(th[t])
  BY DEF ThreadsRight, ThreadRight
<1>3. /\ r \in Thread /\ r.pc = "release" /\ r.err = TRUE /\ r.frames = th[t].frames /\ r.tls = th[t].tls
      /\ r.eng = th[t].eng /\ r.want = th[t].want /\ r.prog = th[t].prog /\ r.rec = th[t].rec
  BY <1>1 DEF Thread, Places
<1>4. FramesRight(r)
  BY <1>2, <1>3 DEF FramesRight
<1>5. Engs(r) = Engs(th[t])
  BY <1>3 DEF Engs
<1>6. EngineRight(r) /\ r.eng \in Engines /\ r.eng \notin Engs(r)
  BY <1>2, <1>3, <1>5 DEF EngineRight
<1>7. PlanRight(r)
  BY <1>2, <1>3 DEF PlanRight
<1>8. TxRight(r)
  BY <1>2, <1>3 DEF TxRight
<1>9. ResultRight(r)
  BY <1>3 DEF ResultRight
<1> QED
  BY <1>3, <1>4, <1>5, <1>6, <1>7, <1>8, <1>9 DEF LeavesFields, ThreadRight

-----------------------------------------------------------------------------
(* What a step does, seen from the thread that takes it.                   *)

Steps(t, r) == th' = [th EXCEPT ![t] = r] /\ r \in Thread /\ ThreadRight(r)

Sleeps(t, r) ==
  /\ Steps(t, r) /\ Turned(th[t], r) /\ th[t].pc = "acquire" /\ r.pc = "asleep"
  /\ th[t].want.db \in Dbs /\ free[th[t].want.db] = {}
  /\ UNCHANGED <<dialect, store, conn, free, calls, faults, tx>>

GetsOne(t, e, r) ==
  /\ Steps(t, r) /\ Took(t, e, r) /\ th[t].want.db \in Dbs /\ e \in free[th[t].want.db]
  /\ free' = [free EXCEPT ![th[t].want.db] = @ \ {e}]
  /\ UNCHANGED <<dialect, store, conn, calls, faults, tx>>

LEMMA AcquireDoes ==
  ASSUME Types, ThreadsRight, Owned, NEW t \in Threads, Acquire(t)
  PROVE  (\E r : Sleeps(t, r)) \/ (\E e, r : GetsOne(t, e, r))
<1>1. th[t].pc = "acquire" /\ UNCHANGED <<dialect, store, conn, calls, faults, tx>>
  BY DEF Acquire
<1>2. th[t] \in Thread /\ ThreadRight(th[t]) /\ PlanRight(th[t])
  BY DEF Types, ThreadsRight, ThreadRight
<1>3. th[t].want.db \in Dbs
  BY <1>1, <1>2 DEF PlanRight
<1>4. CASE free[th[t].want.db] = {}
  <2>1. th' = [th EXCEPT ![t].pc = "asleep"] /\ UNCHANGED free
    BY <1>4, Zenon DEF Acquire
  <2>2. PICK r : r = [th[t] EXCEPT !.pc = "asleep"]
    OBVIOUS
  <2>3. th' = [th EXCEPT ![t] = r]
    BY <2>1, <2>2 DEF Types
  <2>4. Turned(th[t], r) /\ r.pc = "asleep"
    BY <1>1, <1>2, <2>2, Turns
  <2>5. Sleeps(t, r)
    BY <1>1, <1>3, <1>4, <2>1, <2>3, <2>4 DEF Sleeps, Steps, Turned
  <2> QED
    BY <2>5
<1>5. CASE free[th[t].want.db] # {}
  <2>1. PICK e \in free[th[t].want.db] :
          /\ free' = [free EXCEPT ![th[t].want.db] = @ \ {e}]
          /\ th' = [th EXCEPT ![t].eng = e,
                              ![t].pc = IF th[t].want.op = "begin" THEN "begin" ELSE "stmt"]
    BY <1>5, Zenon DEF Acquire
  <2>2. PICK r : r = [th[t] EXCEPT !.eng = e, !.pc = IF th[t].want.op = "begin" THEN "begin" ELSE "stmt"]
    OBVIOUS
  <2>3. th' = [th EXCEPT ![t] = r]
    BY <2>1, <2>2 DEF Types
  <2>4. Took(t, e, r)
    BY <1>1, <2>2, Takes
  <2>5. GetsOne(t, e, r)
    BY <1>1, <1>3, <2>1, <2>3, <2>4 DEF GetsOne, Steps, Took
  <2> QED
    BY <2>5
<1> QED
  BY <1>4, <1>5

(* A release, and one that sleeps is woken if there is one. *)
GivesBack(t, r) ==
  /\ r \in Thread /\ ThreadRight(r) /\ Gave(t, r) /\ th[t].pc = "release"
  /\ free' = [free EXCEPT ![DbOf[th[t].eng]] = @ \cup {th[t].eng}]
  /\ UNCHANGED <<dialect, store, conn, calls, faults, tx>>

Wakes(t, r, u, v) ==
  /\ u \in Threads /\ u # t /\ th[u].pc = "asleep" /\ th[u].want.db = DbOf[th[t].eng]
  /\ v \in Thread /\ ThreadRight(v) /\ Turned(th[u], v) /\ v.pc = "acquire"
  /\ th' = [[th EXCEPT ![t] = r] EXCEPT ![u] = v]

LEMMA ReleaseDoes ==
  ASSUME Types, ThreadsRight, NEW t \in Threads, Release(t)
  PROVE  \E r : /\ GivesBack(t, r)
                /\ \/ th' = [th EXCEPT ![t] = r] /\ Asleep(DbOf[th[t].eng]) = {}
                   \/ \E u, v : Wakes(t, r, u, v)
<1>1. /\ th[t].pc = "release" /\ UNCHANGED <<dialect, store, conn, calls, faults, tx>>
      /\ free' = [free EXCEPT ![DbOf[th[t].eng]] = @ \cup {th[t].eng}]
  BY DEF Release
<1>2. PICK r : r = Settle([th[t] EXCEPT !.pc = "app", !.eng = None])
  OBVIOUS
<1>3. Gave(t, r)
  BY <1>1, <1>2, Gives
<1>4. GivesBack(t, r)
  BY <1>1, <1>3 DEF GivesBack, Gave
<1>5. CASE Asleep(DbOf[th[t].eng]) = {}
  <2>1. th' = [th EXCEPT ![t] = r]
    BY <1>2, <1>5, Zenon DEF Release
  <2> QED
    BY <1>4, <1>5, <2>1
<1>6. CASE Asleep(DbOf[th[t].eng]) # {}
  <2>1. PICK u \in Asleep(DbOf[th[t].eng]) : th' = [[th EXCEPT ![t] = r] EXCEPT ![u].pc = "acquire"]
    BY <1>2, <1>6, Zenon DEF Release
  <2>2. u \in Threads /\ u # t /\ th[u].pc = "asleep" /\ th[u].want.db = DbOf[th[t].eng]
    BY <1>1 DEF Asleep
  <2>3. PICK v : v = [th[u] EXCEPT !.pc = "acquire"]
    OBVIOUS
  <2>4. th' = [[th EXCEPT ![t] = r] EXCEPT ![u] = v]
    BY <2>1, <2>2, <2>3 DEF Types
  <2>5. th[u] \in Thread /\ ThreadRight(th[u])
    BY <2>2 DEF Types, ThreadsRight
  <2>6. Turned(th[u], v) /\ v.pc = "acquire"
    BY <2>2, <2>3, <2>5, Turns
  <2>7. Wakes(t, r, u, v)
    BY <2>2, <2>4, <2>6 DEF Wakes, Turned
  <2> QED
    BY <1>4, <2>7
<1> QED
  BY <1>5, <1>6

(* The statements themselves. *)
Reads1(t, r) ==
  /\ Steps(t, r) /\ AtStmt(t) /\ EndedRight(t, TRUE, r) /\ th[t].want.op \in Reads
  /\ ~conn[th[t].eng].aborted
  /\ UNCHANGED <<dialect, store, conn, free, calls, faults, tx>>

LEMMA ReadDoes ==
  ASSUME Types, ThreadsRight, NEW t \in Threads, Read(t)
  PROVE  \E r : Reads1(t, r)
<1>1. /\ th[t].pc = "stmt" /\ th[t].want.op \in Reads /\ ~conn[th[t].eng].aborted
      /\ UNCHANGED <<dialect, store, conn, free, calls, faults, tx>>
  BY DEF Read
<1>2. AtStmt(t)
  BY <1>1, AtStatement
<1>3. Sees(th[t].eng) \in States
  BY <1>2 DEF AtStmt
<1>4. PICK res :
        /\ th[t].want.op = "select" => res = Found(th[t].eng, th[t].want)
        /\ th[t].want.op = "applied" => res = Sees(th[t].eng).recorded
        /\ th[t].want.op = "last" => res \subseteq Sees(th[t].eng).recorded
        /\ th' = [th EXCEPT ![t] = Ended(t, TRUE, res)]
  <2> DEFINE R == CASE th[t].want.op = "select"  -> {Found(th[t].eng, th[t].want)}
                    [] th[t].want.op = "applied" -> {Sees(th[t].eng).recorded}
                    [] th[t].want.op = "last"    -> IF Sees(th[t].eng).recorded = {} THEN {{}}
                                                    ELSE {{i} : i \in Sees(th[t].eng).recorded}
  <2>1. PICK res \in R : th' = [th EXCEPT ![t] = Ended(t, TRUE, res)]
    BY Zenon DEF Read
  <2>2. /\ th[t].want.op = "select" => R = {Found(th[t].eng, th[t].want)}
        /\ th[t].want.op = "applied" => R = {Sees(th[t].eng).recorded}
        /\ th[t].want.op = "last" => R = IF Sees(th[t].eng).recorded = {} THEN {{}}
                                          ELSE {{i} : i \in Sees(th[t].eng).recorded}
    OBVIOUS
  <2> HIDE DEF R
  <2>3. th[t].want.op = "last" => res \subseteq Sees(th[t].eng).recorded
    BY <2>1, <2>2
  <2> QED
    BY <2>1, <2>2, <2>3
<1>5. Sees(th[t].eng).recorded \subseteq DOMAIN Versions /\ Sees(th[t].eng).rows \subseteq Rows
  BY <1>3 DEF States
<1>6. CASE th[t].want.op = "select"
  <2>1. res = Found(th[t].eng, th[t].want)
    BY <1>4, <1>6
  <2>2. res \subseteq Rows
    BY <1>5, <2>1 DEF Found
  <2>3. res \in Results
    BY <2>2 DEF Results
  <2>4. EndedRight(t, TRUE, Ended(t, TRUE, res))
    BY <1>1, <1>6, <2>2, <2>3, StatementEnds
  <2> QED
    BY <1>1, <1>2, <1>4, <2>4 DEF Reads1, Steps, EndedRight
<1>7. CASE th[t].want.op \in {"applied", "last"}
  <2>1. res \subseteq DOMAIN Versions
    BY <1>4, <1>5, <1>7
  <2>2. res \in Results
    BY <2>1 DEF Results
  <2>3. EndedRight(t, TRUE, Ended(t, TRUE, res))
    BY <1>1, <1>7, <2>1, <2>2, StatementEnds
  <2> QED
    BY <1>1, <1>2, <1>4, <2>3 DEF Reads1, Steps, EndedRight
<1> QED
  BY <1>1, <1>6, <1>7 DEF Reads

(* A statement that writes, and that is committed at once or not. *)
AtOnce(t) == ~conn[th[t].eng].open \/ (dialect = "Mysql" /\ th[t].want.op \in OnSchema)

WritesOne(t, s, r) ==
  /\ Steps(t, r) /\ AtStmt(t) /\ EndedRight(t, TRUE, r) /\ th[t].want.op \in StmtOps \ Reads
  /\ s = Written(th[t].want, Sees(th[t].eng)) /\ s \in States
  /\ ~conn[th[t].eng].dead /\ ~conn[th[t].eng].aborted
  /\ ~Blocked(th[t].eng) /\ ~Refused(th[t].want, Sees(th[t].eng))
  /\ AtOnce(t) => /\ store' = [store EXCEPT ![DbOf[th[t].eng]] = s]
                  /\ conn' = [conn EXCEPT ![th[t].eng] = Fresh]
  /\ ~AtOnce(t) => conn' = [conn EXCEPT ![th[t].eng].wrote = s] /\ UNCHANGED store
  /\ Noted(t, TRUE)
  /\ UNCHANGED <<dialect, free, calls, faults>>

(* What a thread asks for that writes, is a number that was drawn or a version. *)
LEMMA WrittenStates ==
  ASSUME NEW q \in Stmts, NEW s \in States, q.op \in StmtOps \ Reads,
         q.op \in VersionOps => q.n \in DOMAIN Versions
  PROVE  Written(q, s) \in States
<1>1. /\ s.rows \subseteq Rows /\ s.log \subseteq Nat /\ s.recorded \subseteq DOMAIN Versions
      /\ s.ran \in Counts /\ s.undone \in Counts /\ s.taken \in Counts
  BY DEF States
<1>2. /\ q.n \in Nat /\ q.key \in Keys \cup {None} /\ q.val \in [Columns -> Nat]
      /\ q.cols \subseteq Columns /\ q.meant \subseteq Columns
  BY DEF Stmts
<1>3. q.op \in {"log", "insert", "update", "delete", "table", "up", "down", "record", "unrecord"}
  BY DEF StmtOps, Reads
<1>4. CASE q.op = "log"
  <2>1. s.log \cup {q.n} \subseteq Nat
    BY <1>1, <1>2
  <2>2. Written(q, s) = [s EXCEPT !.log = s.log \cup {q.n}]
    BY <1>4 DEF Written
  <2> QED
    BY <2>1, <2>2 DEF States
<1>5. CASE q.op = "insert"
  <2>1. PICK row : row = [id |-> q.n, key |-> q.key, val |-> q.val, meant |-> q.val]
    OBVIOUS
  <2>2. row \in Rows
    BY <1>2, <2>1 DEF Rows
  <2>3. s.rows \cup {row} \subseteq Rows
    BY <1>1, <2>2
  <2>4. Written(q, s) = [s EXCEPT !.rows = s.rows \cup {row}]
    BY <1>5, <2>1 DEF Written
  <2> QED
    BY <2>3, <2>4 DEF States
<1>6. CASE q.op = "update"
  <2> DEFINE new(r) == IF Matches(r, q)
                       THEN [r EXCEPT !.val = Assign(r.val, q.cols, q.val),
                                      !.meant = Assign(r.meant, q.meant, q.val)]
                       ELSE r
  <2>1. ASSUME NEW r \in Rows PROVE new(r) \in Rows
    <3>1. r.val \in [Columns -> Nat] /\ r.meant \in [Columns -> Nat]
      BY DEF Rows
    <3>2. Assign(r.val, q.cols, q.val) \in [Columns -> Nat] /\ Assign(r.meant, q.meant, q.val) \in [Columns -> Nat]
      BY <1>2, <3>1 DEF Assign
    <3> QED
      BY <3>2 DEF Rows
  <2>2. Written(q, s) = [s EXCEPT !.rows = {new(r) : r \in s.rows}]
    BY <1>6, Zenon DEF Written
  <2> HIDE DEF new
  <2>3. {new(r) : r \in s.rows} \subseteq Rows
    BY <1>1, <2>1
  <2> QED
    BY <2>2, <2>3 DEF States
<1>7. CASE q.op = "delete"
  <2>1. {r \in s.rows : ~Matches(r, q)} \subseteq Rows
    BY <1>1
  <2>2. Written(q, s) = [s EXCEPT !.rows = {r \in s.rows : ~Matches(r, q)}]
    BY <1>7 DEF Written
  <2> QED
    BY <2>1, <2>2 DEF States
<1>8. CASE q.op = "table"
  BY <1>8 DEF Written
<1>9. CASE q.op \in {"up", "down"}
  <2>1. q.n \in DOMAIN Versions
    BY <1>9 DEF VersionOps
  <2>2. PICK f, g : /\ f = [s.ran EXCEPT ![q.n] = s.ran[q.n] + 1]
                    /\ g = [s.undone EXCEPT ![q.n] = s.undone[q.n] + 1]
    OBVIOUS
  <2>3. f \in Counts /\ g \in Counts
    BY <1>1, <2>1, <2>2 DEF Counts
  <2>4. CASE q.op = "up"
    <3>1. Written(q, s) = [s EXCEPT !.ran = f]
      BY <2>2, <2>4 DEF Written, States
    <3> QED
      BY <2>3, <3>1 DEF States
  <2>5. CASE q.op = "down"
    <3>1. Written(q, s) = [s EXCEPT !.undone = g]
      BY <2>2, <2>5 DEF Written, States
    <3> QED
      BY <2>3, <3>1 DEF States
  <2> QED
    BY <1>9, <2>4, <2>5
<1>10. CASE q.op = "record"
  <2>1. s.recorded \cup {q.n} \subseteq DOMAIN Versions
    BY <1>1, <1>10 DEF VersionOps
  <2>2. Written(q, s) = [s EXCEPT !.recorded = s.recorded \cup {q.n}]
    BY <1>10 DEF Written
  <2> QED
    BY <2>1, <2>2 DEF States
<1>11. CASE q.op = "unrecord"
  <2>1. s.recorded \ {q.n} \subseteq DOMAIN Versions
    BY <1>1
  <2>2. PICK k \in Nat : k = IF q.n \in s.recorded THEN 1 ELSE 0
    OBVIOUS
  <2>3. PICK f : f = [s.taken EXCEPT ![q.n] = s.taken[q.n] + k]
    OBVIOUS
  <2>4. f \in Counts
    BY <1>1, <1>11, <2>3 DEF Counts, VersionOps
  <2>5. Written(q, s) = [s EXCEPT !.recorded = s.recorded \ {q.n}, !.taken = f]
    BY <1>11, <2>2, <2>3 DEF Written, States
  <2> QED
    BY <2>1, <2>4, <2>5 DEF States
<1> QED
  BY <1>3, <1>4, <1>5, <1>6, <1>7, <1>8, <1>9, <1>10, <1>11

LEMMA VersionAsked ==
  ASSUME ThreadsRight, NEW t \in Threads, th[t].pc = "stmt", th[t].want.op \in VersionOps
  PROVE  th[t].want.n \in DOMAIN Versions
<1>1. TxRight(th[t])
  BY DEF ThreadsRight, ThreadRight
<1> QED
  BY <1>1 DEF TxRight

LEMMA WriteDoes ==
  ASSUME Types, ThreadsRight, NEW t \in Threads, Write(t)
  PROVE  \E s, r : WritesOne(t, s, r)
<1>1. /\ th[t].pc = "stmt" /\ th[t].want.op \notin Reads
      /\ ~conn[th[t].eng].dead /\ ~conn[th[t].eng].aborted
      /\ ~Blocked(th[t].eng) /\ ~Refused(th[t].want, Sees(th[t].eng))
      /\ th' = [th EXCEPT ![t] = Ended(t, TRUE, {})] /\ Noted(t, TRUE)
      /\ UNCHANGED <<dialect, free, calls, faults>>
  BY Zenon DEF Write
<1>2. AtStmt(t)
  BY <1>1, AtStatement
<1>3. PICK s : s = Written(th[t].want, Sees(th[t].eng))
  OBVIOUS
<1>4. /\ AtOnce(t) => /\ store' = [store EXCEPT ![DbOf[th[t].eng]] = s]
                      /\ conn' = [conn EXCEPT ![th[t].eng] = Fresh]
      /\ ~AtOnce(t) => conn' = [conn EXCEPT ![th[t].eng].wrote = s] /\ UNCHANGED store
  BY <1>3, Zenon DEF Write, AtOnce
<1>5. s \in States
  BY <1>1, <1>2, <1>3, WrittenStates, VersionAsked DEF AtStmt
<1>6. {} \in Results /\ {} \subseteq DOMAIN Versions /\ {} \subseteq Rows
  BY DEF Results
<1>7. EndedRight(t, TRUE, Ended(t, TRUE, {}))
  BY <1>1, <1>6, StatementEnds
<1>8. th[t].want.op \in StmtOps \ Reads
  BY <1>1, <1>2 DEF AtStmt
<1>9. WritesOne(t, s, Ended(t, TRUE, {}))
  BY <1>1, <1>2, <1>3, <1>4, <1>5, <1>7, <1>8 DEF WritesOne, Steps, EndedRight
<1> QED
  BY <1>9

(* A statement that fails. *)
FailsOne(t, c, r) ==
  /\ Steps(t, r) /\ AtStmt(t) /\ EndedRight(t, FALSE, r)
  /\ c \in {Failed(th[t].eng), Dead} /\ c \in Conns
  /\ c = Failed(th[t].eng) \/ ~conn[th[t].eng].dead
  /\ conn' = [conn EXCEPT ![th[t].eng] = c]
  /\ Noted(t, FALSE) /\ faults' \in 0 .. MaxFaults
  /\ UNCHANGED <<dialect, store, free, calls>>

LEMMA FailsDoes ==
  ASSUME Types, ThreadsRight, NEW t \in Threads, Fails(t)
  PROVE  \E c, r : FailsOne(t, c, r)
<1>1. /\ th[t].pc = "stmt" /\ th' = [th EXCEPT ![t] = Ended(t, FALSE, {})] /\ Noted(t, FALSE)
      /\ UNCHANGED <<dialect, store, free, calls>>
  BY Zenon DEF Fails
<1>2. AtStmt(t)
  BY <1>1, AtStatement
<1>3. faults \in 0 .. MaxFaults /\ MaxFaults \in Nat
  BY Constants DEF Types
<1>4. \/ conn' = [conn EXCEPT ![th[t].eng] = Failed(th[t].eng)] /\ UNCHANGED faults
      \/ /\ ~conn[th[t].eng].dead /\ faults < MaxFaults /\ faults' = faults + 1
         /\ \/ conn' = [conn EXCEPT ![th[t].eng] = Failed(th[t].eng)]
            \/ conn' = [conn EXCEPT ![th[t].eng] = Dead]
  BY Zenon DEF Fails, Dead
<1>5. faults' \in 0 .. MaxFaults
  BY <1>3, <1>4
<1>6. PICK c : /\ c \in {Failed(th[t].eng), Dead} /\ conn' = [conn EXCEPT ![th[t].eng] = c]
               /\ c = Failed(th[t].eng) \/ ~conn[th[t].eng].dead
  BY <1>4
<1>7. c \in Conns
  <2>1. Failed(th[t].eng) \in Conns
    <3>1. conn[th[t].eng] \in Conns /\ conn[th[t].eng].open \in BOOLEAN
      BY <1>2 DEF AtStmt, Conns
    <3>2. PICK a \in BOOLEAN : a = (conn[th[t].eng].open /\ dialect = "Postgres")
      BY <3>1
    <3>3. Failed(th[t].eng) = [conn[th[t].eng] EXCEPT !.aborted = a]
      BY <3>2 DEF Failed
    <3> QED
      BY <3>1, <3>2, <3>3 DEF Conns
  <2> QED
    BY <1>6, <2>1, RecordTypes
<1>8. {} \in Results /\ {} \subseteq DOMAIN Versions /\ {} \subseteq Rows
  BY DEF Results
<1>9. EndedRight(t, FALSE, Ended(t, FALSE, {}))
  BY <1>1, <1>8, StatementEnds
<1>10. FailsOne(t, c, Ended(t, FALSE, {}))
  BY <1>1, <1>2, <1>5, <1>6, <1>7, <1>9 DEF FailsOne, Steps, EndedRight
<1> QED
  BY <1>10

(* A transaction begins. *)
Begins(t, r) ==
  /\ Steps(t, r) /\ Opened(t, th[t].eng, Len(tx) + 1, r) /\ th[t].pc = "begin" /\ th[t].eng \in Engines
  /\ ~conn[th[t].eng].dead
  /\ conn' = [conn EXCEPT ![th[t].eng].open = TRUE]
  /\ tx' = Append(tx, [out |-> "open", did |-> {}, swallowed |-> FALSE, schema |-> FALSE])
  /\ UNCHANGED <<dialect, store, free, calls, faults>>

LEMMA BeginDoes ==
  ASSUME Types, ThreadsRight, NEW t \in Threads, BeginTx(t)
  PROVE  \E r : Begins(t, r)
<1>1. /\ th[t].pc = "begin" /\ ~conn[th[t].eng].dead
      /\ conn' = [conn EXCEPT ![th[t].eng].open = TRUE]
      /\ tx' = Append(tx, [out |-> "open", did |-> {}, swallowed |-> FALSE, schema |-> FALSE])
      /\ UNCHANGED <<dialect, store, free, calls, faults>>
  BY Zenon DEF BeginTx
<1>2. Len(tx) + 1 \in Nat
  BY DEF Types
<1>3. PICK r : r = Settle([th[t] EXCEPT !.pc = "app", !.tls = th[t].eng, !.eng = None,
                             !.prog.own = th[t].prog # NoProg,
                             !.frames = Append(th[t].frames,
                                               [eng |-> th[t].eng, prev |-> th[t].tls, x |-> Len(tx) + 1])])
  OBVIOUS
<1>4. th' = [th EXCEPT ![t] = r]
  BY <1>3, Zenon DEF BeginTx
<1>5. Opened(t, th[t].eng, Len(tx) + 1, r)
  BY <1>1, <1>2, <1>3, Opens
<1>6. Begins(t, r)
  BY <1>1, <1>4, <1>5 DEF Begins, Steps, Opened
<1> QED
  BY <1>6

(* It cannot begin. *)
NotBegun(t, r) ==
  /\ Steps(t, r) /\ LeavesFields(t, r) /\ th[t].pc = "begin"
  /\ faults' \in 0 .. MaxFaults /\ UNCHANGED <<dialect, store, conn, free, calls, tx>>

LEMMA BeginFailsDoes ==
  ASSUME Types, ThreadsRight, NEW t \in Threads, BeginFails(t)
  PROVE  \E r : NotBegun(t, r)
<1>1. /\ th[t].pc = "begin" /\ th' = [th EXCEPT ![t].pc = "release", ![t].err = TRUE]
      /\ UNCHANGED faults \/ (faults < MaxFaults /\ faults' = faults + 1)
      /\ UNCHANGED <<dialect, store, conn, free, calls, tx>>
  BY DEF BeginFails
<1>2. PICK r : r = [th[t] EXCEPT !.pc = "release", !.err = TRUE]
  OBVIOUS
<1>3. th' = [th EXCEPT ![t] = r]
  BY <1>1, <1>2 DEF Types
<1>4. LeavesFields(t, r)
  BY <1>1, <1>2, Leaves
<1>5. faults' \in 0 .. MaxFaults
  BY <1>1, Constants DEF Types
<1>6. NotBegun(t, r)
  BY <1>1, <1>3, <1>4, <1>5 DEF NotBegun, Steps, LeavesFields
<1> QED
  BY <1>6

(* The rollback. *)
RollsBack(t, c, r) ==
  /\ Steps(t, r) /\ LeavesFields(t, r) /\ th[t].pc = "rollback"
  /\ c = (IF conn[th[t].eng].dead THEN conn[th[t].eng] ELSE Fresh) /\ c \in Conns
  /\ conn' = [conn EXCEPT ![th[t].eng] = c]
  /\ UNCHANGED <<dialect, store, free, calls, faults, tx>>

LEMMA RollbackDoes ==
  ASSUME Types, ThreadsRight, NEW t \in Threads, Rollback(t)
  PROVE  \E c, r : RollsBack(t, c, r)
<1>1. /\ th[t].pc = "rollback" /\ th' = [th EXCEPT ![t].pc = "release", ![t].err = TRUE]
      /\ conn' = [conn EXCEPT ![th[t].eng] = IF conn[th[t].eng].dead THEN conn[th[t].eng] ELSE Fresh]
      /\ UNCHANGED <<dialect, store, free, calls, faults, tx>>
  BY DEF Rollback
<1>2. PICK c, r : /\ r = [th[t] EXCEPT !.pc = "release", !.err = TRUE]
                  /\ c = IF conn[th[t].eng].dead THEN conn[th[t].eng] ELSE Fresh
  OBVIOUS
<1>3. th' = [th EXCEPT ![t] = r]
  BY <1>1, <1>2 DEF Types
<1>4. LeavesFields(t, r)
  BY <1>1, <1>2, Leaves
<1>5. th[t].eng \in Engines
  BY <1>4 DEF LeavesFields
<1>6. c \in Conns
  BY <1>2, <1>5, RecordTypes DEF Types
<1>7. RollsBack(t, c, r)
  BY <1>1, <1>2, <1>3, <1>4, <1>6 DEF RollsBack, Steps, LeavesFields
<1> QED
  BY <1>7

(* The ends of a transaction. *)
Ends(t, out, r) ==
  /\ Steps(t, r) /\ Closed(t, r) /\ th[t].pc \in {"app", "commit"}
  /\ tx' = [tx EXCEPT ![Top(t).x].out = out]
  /\ faults' \in 0 .. MaxFaults /\ UNCHANGED <<dialect, free, calls>>

Commits(t, r) ==
  /\ Ends(t, "returned", r) /\ th[t].pc = "commit" /\ r.pc = "release" /\ ~r.err /\ ~conn[th[t].tls].dead
  /\ conn' = [conn EXCEPT ![th[t].tls] = Fresh]
  /\ IF conn[th[t].tls].aborted \/ conn[th[t].tls].wrote = None
     THEN UNCHANGED store
     ELSE store' = [store EXCEPT ![DbOf[th[t].tls]] = conn[th[t].tls].wrote]

Throws(t, r) == Ends(t, "threw", r) /\ r.pc = "rollback" /\ UNCHANGED <<conn, store>>

Loses(t, r) ==
  /\ Ends(t, "unknown", r) /\ th[t].pc = "commit" /\ r.pc = "rollback" /\ ~conn[th[t].tls].dead
  /\ conn' = [conn EXCEPT ![th[t].tls] = Dead]
  /\ \/ UNCHANGED store
     \/ /\ ~conn[th[t].tls].aborted /\ conn[th[t].tls].wrote # None
        /\ store' = [store EXCEPT ![DbOf[th[t].tls]] = conn[th[t].tls].wrote]

LEMMA CommitDoes ==
  ASSUME Types, ThreadsRight, NEW t \in Threads, Commit(t)
  PROVE  \E r : Commits(t, r)
<1>1. /\ th[t].pc = "commit" /\ ~conn[th[t].tls].dead
      /\ conn' = [conn EXCEPT ![th[t].tls] = Fresh]
      /\ IF conn[th[t].tls].aborted \/ conn[th[t].tls].wrote = None
         THEN UNCHANGED store
         ELSE store' = [store EXCEPT ![DbOf[th[t].tls]] = conn[th[t].tls].wrote]
      /\ tx' = [tx EXCEPT ![Top(t).x].out = "returned"]
      /\ UNCHANGED <<dialect, free, calls, faults>>
  BY Zenon DEF Commit
<1>2. PICK s : s = [th[t] EXCEPT !.pc = "release", !.err = FALSE]
  OBVIOUS
<1>3. PICK r : r = EndScope(t, s) /\ th' = [th EXCEPT ![t] = r]
  BY <1>2, Zenon DEF Commit
<1>4. th[t] \in Thread /\ EngineRight(th[t])
  BY DEF Types, ThreadsRight, ThreadRight
<1>5. th[t].frames # <<>>
  BY <1>1, <1>4 DEF EngineRight
<1>6. /\ s \in Thread /\ s.pc = "release" /\ s.err = FALSE
      /\ s.frames = th[t].frames /\ s.want = th[t].want /\ s.prog = th[t].prog /\ s.rec = th[t].rec
  BY <1>2, <1>4 DEF Thread, Places
<1>7. Closed(t, r) /\ r.pc = "release" /\ ~r.err
  BY <1>1, <1>3, <1>5, <1>6, Closes
<1>8. faults' \in 0 .. MaxFaults
  BY <1>1 DEF Types
<1>9. Commits(t, r)
  BY <1>1, <1>3, <1>7, <1>8 DEF Commits, Ends, Steps, Closed
<1> QED
  BY <1>9

(* An exception leaves the transaction. *)
LEMMA LeavesScope ==
  ASSUME Types, ThreadsRight, NEW t \in Threads, th[t].pc \in {"app", "commit"}, th[t].frames # <<>>,
         NEW r, r = EndScope(t, [th[t] EXCEPT !.pc = "rollback"])
  PROVE  Closed(t, r) /\ r.pc = "rollback"
<1>1. PICK s : s = [th[t] EXCEPT !.pc = "rollback"]
  OBVIOUS
<1>2. th[t] \in Thread
  BY DEF Types
<1>3. /\ s \in Thread /\ s.pc = "rollback"
      /\ s.frames = th[t].frames /\ s.want = th[t].want /\ s.prog = th[t].prog /\ s.rec = th[t].rec
  BY <1>1, <1>2 DEF Thread, Places
<1>4. r = EndScope(t, s)
  BY <1>1
<1> QED
  BY <1>3, <1>4, Closes

LEMMA CommitFailsDoes ==
  ASSUME Types, ThreadsRight, NEW t \in Threads, CommitFails(t)
  PROVE  \E r : Throws(t, r) \/ Loses(t, r)
<1>1. /\ th[t].pc = "commit"
      /\ \/ conn[th[t].tls].dead /\ tx' = [tx EXCEPT ![Top(t).x].out = "threw"] /\ UNCHANGED <<faults, conn, store>>
         \/ /\ ~conn[th[t].tls].dead /\ faults < MaxFaults /\ faults' = faults + 1
            /\ \/ tx' = [tx EXCEPT ![Top(t).x].out = "threw"] /\ UNCHANGED <<conn, store>>
               \/ /\ conn' = [conn EXCEPT ![th[t].tls] = [Fresh EXCEPT !.dead = TRUE]]
                  /\ tx' = [tx EXCEPT ![Top(t).x].out = "unknown"]
                  /\ \/ UNCHANGED store
                     \/ ~conn[th[t].tls].aborted /\ conn[th[t].tls].wrote # None
                          /\ store' = [store EXCEPT ![DbOf[th[t].tls]] = conn[th[t].tls].wrote]
      /\ UNCHANGED <<dialect, free, calls>>
  BY Zenon DEF CommitFails
<1>2. PICK r : r = EndScope(t, [th[t] EXCEPT !.pc = "rollback"]) /\ th' = [th EXCEPT ![t] = r]
  BY Zenon DEF CommitFails
<1>3. EngineRight(th[t])
  BY DEF ThreadsRight, ThreadRight
<1>4. th[t].frames # <<>>
  BY <1>1, <1>3 DEF EngineRight
<1>5. Closed(t, r) /\ r.pc = "rollback"
  BY <1>1, <1>2, <1>4, LeavesScope
<1>6. Steps(t, r)
  BY <1>2, <1>5 DEF Steps, Closed
<1>7. faults \in 0 .. MaxFaults /\ MaxFaults \in Nat
  BY Constants DEF Types
<1>8. faults' \in 0 .. MaxFaults
  BY <1>1, <1>7
<1>9. CASE tx' = [tx EXCEPT ![Top(t).x].out = "threw"] /\ UNCHANGED <<conn, store>>
  <2>1. Throws(t, r)
    BY <1>1, <1>5, <1>6, <1>8, <1>9 DEF Throws, Ends
  <2> QED
    BY <2>1
<1>10. CASE /\ ~conn[th[t].tls].dead
            /\ conn' = [conn EXCEPT ![th[t].tls] = [Fresh EXCEPT !.dead = TRUE]]
            /\ tx' = [tx EXCEPT ![Top(t).x].out = "unknown"]
            /\ \/ UNCHANGED store
               \/ ~conn[th[t].tls].aborted /\ conn[th[t].tls].wrote # None
                    /\ store' = [store EXCEPT ![DbOf[th[t].tls]] = conn[th[t].tls].wrote]
  <2>1. Loses(t, r)
    BY <1>1, <1>5, <1>6, <1>8, <1>10, Zenon DEF Loses, Ends, Dead
  <2> QED
    BY <2>1
<1> QED
  BY <1>1, <1>9, <1>10, Zenon

LEMMA ThrowDoes ==
  ASSUME Types, ThreadsRight, NEW t \in Threads, FnThrows(t) \/ ProgThrows(t)
  PROVE  \E r : Throws(t, r)
<1>1. Throw(t) /\ UNCHANGED calls
  BY DEF FnThrows, ProgThrows
<1>2. /\ th[t].pc = "app" /\ th[t].frames # <<>>
      /\ tx' = [tx EXCEPT ![Top(t).x].out = "threw"]
      /\ UNCHANGED <<dialect, store, conn, free, faults>>
  BY <1>1 DEF Throw
<1>3. PICK r : r = EndScope(t, [th[t] EXCEPT !.pc = "rollback"]) /\ th' = [th EXCEPT ![t] = r]
  BY <1>1, Zenon DEF Throw
<1>4. Closed(t, r) /\ r.pc = "rollback"
  BY <1>2, <1>3, LeavesScope
<1>5. faults' \in 0 .. MaxFaults
  BY <1>2 DEF Types
<1>6. Throws(t, r)
  BY <1>1, <1>2, <1>3, <1>4, <1>5 DEF Throws, Ends, Steps, Closed
<1> QED
  BY <1>6

(* Every step, then, is one of these. *)
Does(t) ==
  \/ \E r : AppMove(t, r)
  \/ \E r : Sleeps(t, r)
  \/ \E e, r : GetsOne(t, e, r)
  \/ \E r : GivesBack(t, r) /\ th' = [th EXCEPT ![t] = r] /\ Asleep(DbOf[th[t].eng]) = {}
  \/ \E r, u, v : GivesBack(t, r) /\ Wakes(t, r, u, v)
  \/ \E r : Reads1(t, r)
  \/ \E s, r : WritesOne(t, s, r)
  \/ \E c, r : FailsOne(t, c, r)
  \/ \E r : Begins(t, r)
  \/ \E r : NotBegun(t, r)
  \/ \E c, r : RollsBack(t, c, r)
  \/ \E r : Commits(t, r)
  \/ \E r : Throws(t, r)
  \/ \E r : Loses(t, r)

LEMMA EveryStep ==
  ASSUME Types, ThreadsRight, Owned, Next
  PROVE  \E t \in Threads : Does(t)
<1>1. PICK t \in Threads : StatementStep(t) \/ ApplicationStep(t)
  BY DEF Next
<1>2. CASE ApplicationStep(t)
  BY <1>2, Moves, ThrowDoes, Zenon DEF Does
<1>3. CASE StatementStep(t)
  BY <1>3, AcquireDoes, ReleaseDoes, ReadDoes, WriteDoes, FailsDoes, BeginDoes, BeginFailsDoes, CommitDoes,
     CommitFailsDoes, RollbackDoes, Zenon DEF Does, StatementStep
<1> QED
  BY <1>1, <1>2, <1>3

-----------------------------------------------------------------------------
(* Threads stay right, and a connection is in the pool or one thread's.    *)

After(t, r) ==
  /\ th' \in [Threads -> Thread] /\ ThreadsRight' /\ th'[t] = r
  /\ \A u \in Threads \ {t} : th'[u] = th[u]

LEMMA OneThread ==
  ASSUME Types, ThreadsRight, NEW t \in Threads, NEW r, Steps(t, r)
  PROVE  After(t, r)
<1>1. th \in [Threads -> Thread] /\ th' = [th EXCEPT ![t] = r] /\ r \in Thread /\ ThreadRight(r)
  BY DEF Types, Steps
<1>2. /\ th' \in [Threads -> Thread] /\ th'[t] = r
      /\ \A u \in Threads \ {t} : th'[u] = th[u]
  BY <1>1
<1>3. \A u \in Threads : ThreadRight(th'[u])
  BY <1>1, <1>2, Zenon DEF ThreadsRight
<1> QED
  BY <1>2, <1>3 DEF After, ThreadsRight

AfterBoth(t, r, u, v) ==
  /\ th' \in [Threads -> Thread] /\ ThreadsRight' /\ th'[t] = r /\ th'[u] = v
  /\ \A w \in Threads \ {t, u} : th'[w] = th[w]

LEMMA TwoThreads ==
  ASSUME Types, ThreadsRight, NEW t \in Threads, NEW r, NEW u, NEW v, GivesBack(t, r), Wakes(t, r, u, v)
  PROVE  AfterBoth(t, r, u, v)
<1>1. /\ th \in [Threads -> Thread] /\ th' = [[th EXCEPT ![t] = r] EXCEPT ![u] = v]
      /\ r \in Thread /\ ThreadRight(r) /\ v \in Thread /\ ThreadRight(v) /\ u \in Threads /\ u # t
  BY DEF Types, GivesBack, Wakes
<1>2. /\ th' \in [Threads -> Thread] /\ th'[t] = r /\ th'[u] = v
      /\ \A w \in Threads \ {t, u} : th'[w] = th[w]
  BY <1>1
<1>3. \A w \in Threads : ThreadRight(th'[w])
  BY <1>1, <1>2, Zenon DEF ThreadsRight
<1> QED
  BY <1>2, <1>3 DEF AfterBoth, ThreadsRight

LEMMA HoldsIs ==
  ASSUME NEW s \in Thread, FramesRight(s)
  PROVE  /\ s.eng = None => HoldsOf(s) = Engs(s)
         /\ s.eng = s.tls => HoldsOf(s) = Engs(s)
         /\ s.eng \in Engines /\ s.eng \notin Engs(s) => HoldsOf(s) = Engs(s) \cup {s.eng}
<1>1. s.eng \in Engines /\ s.eng \notin Engs(s) => s.eng \notin {None, s.tls}
  <2>1. CASE s.frames = <<>>
    BY <2>1, NoFrames, Constants
  <2>2. CASE s.frames # <<>>
    BY <2>2, TopFrame, Constants
  <2> QED
    BY <2>1, <2>2
<1> QED
  BY <1>1 DEF HoldsOf

(* Most steps leave the thread what it has. *)
Holding(t, r) == Steps(t, r) /\ HoldsOf(r) = HoldsOf(th[t]) /\ UNCHANGED free

LEMMA MoveHolds ==
  ASSUME Types, ThreadsRight, NEW t \in Threads, NEW r, AppMove(t, r)
  PROVE  Holding(t, r) /\ HoldsOf(r) = Engs(r) /\ Engs(r) = Engs(th[t])
<1>1. th[t] \in Thread /\ EngineRight(th[t]) /\ FramesRight(th[t])
  BY DEF Types, ThreadsRight, ThreadRight
<1>2. r \in Thread /\ ThreadRight(r) /\ FramesRight(r) /\ r.frames = th[t].frames /\ r.tls = th[t].tls
      /\ r.eng \in {None, r.tls} /\ th[t].pc = "app" /\ th' = [th EXCEPT ![t] = r] /\ free' = free
  BY DEF AppMove, ThreadRight
<1>3. th[t].eng = None
  BY <1>1, <1>2 DEF EngineRight
<1>4. Engs(r) = Engs(th[t])
  BY <1>2 DEF Engs
<1>5. HoldsOf(r) = Engs(r) /\ HoldsOf(th[t]) = Engs(th[t])
  BY <1>1, <1>2, <1>3, HoldsIs
<1> QED
  BY <1>2, <1>4, <1>5 DEF Holding, Steps

LEMMA SleepHolds ==
  ASSUME Types, ThreadsRight, NEW t \in Threads, NEW r, Sleeps(t, r)
  PROVE  Holding(t, r)
<1>1. Steps(t, r) /\ r.frames = th[t].frames /\ r.tls = th[t].tls /\ r.eng = None /\ th[t].eng = None
      /\ UNCHANGED free
  BY DEF Sleeps, Turned
<1> QED
  BY <1>1 DEF Holding, HoldsOf, Engs

LEMMA EndedHolds ==
  ASSUME Types, ThreadsRight, NEW t \in Threads, NEW ok, NEW r, Steps(t, r), AtStmt(t), EndedRight(t, ok, r),
         UNCHANGED free
  PROVE  Holding(t, r)
<1>1. th[t] \in Thread /\ FramesRight(th[t]) /\ r \in Thread /\ FramesRight(r)
  BY DEF Types, ThreadsRight, ThreadRight, EndedRight
<1>2. r.frames = th[t].frames /\ r.tls = th[t].tls
  BY DEF EndedRight
<1>3. Engs(r) = Engs(th[t])
  BY <1>2 DEF Engs
<1>4. CASE th[t].frames = <<>>
  BY <1>2, <1>4 DEF Holding, HoldsOf, Engs, EndedRight
<1>5. CASE th[t].frames # <<>>
  <2>1. th[t].eng = th[t].tls /\ r.eng = None
    BY <1>5 DEF AtStmt, EndedRight
  <2> QED
    BY <1>1, <1>3, <2>1, HoldsIs DEF Holding
<1> QED
  BY <1>4, <1>5

LEMMA BeginHolds ==
  ASSUME Types, ThreadsRight, NEW t \in Threads, NEW r, Begins(t, r)
  PROVE  Holding(t, r) /\ HoldsOf(th[t]) = Engs(th[t]) \cup {th[t].eng}
<1>1. /\ Steps(t, r) /\ r \in Thread /\ ThreadRight(r) /\ UNCHANGED free
      /\ Engs(r) = Engs(th[t]) \cup {th[t].eng} /\ th[t].eng \in Engines /\ th[t].eng \notin Engs(th[t])
      /\ r.eng = None
  BY DEF Begins, Opened
<1>2. th[t] \in Thread /\ FramesRight(th[t]) /\ FramesRight(r)
  BY <1>1 DEF Types, ThreadsRight, ThreadRight
<1>3. HoldsOf(r) = Engs(r) /\ HoldsOf(th[t]) = Engs(th[t]) \cup {th[t].eng}
  BY <1>1, <1>2, HoldsIs
<1> QED
  BY <1>1, <1>3 DEF Holding

LEMMA LeaveHolds ==
  ASSUME Types, ThreadsRight, NEW t \in Threads, NEW r, Steps(t, r), LeavesFields(t, r), UNCHANGED free
  PROVE  Holding(t, r) /\ HoldsOf(th[t]) = Engs(th[t]) \cup {th[t].eng}
<1>1. /\ r.frames = th[t].frames /\ r.tls = th[t].tls /\ r.eng = th[t].eng
      /\ Engs(r) = Engs(th[t]) /\ r.eng \in Engines /\ r.eng \notin Engs(r)
  BY DEF LeavesFields
<1>2. th[t] \in Thread /\ FramesRight(th[t])
  BY DEF Types, ThreadsRight, ThreadRight
<1>3. HoldsOf(r) = HoldsOf(th[t])
  BY <1>1 DEF HoldsOf, Engs
<1>4. HoldsOf(th[t]) = Engs(th[t]) \cup {th[t].eng}
  BY <1>1, <1>2, HoldsIs
<1> QED
  BY <1>3, <1>4 DEF Holding

LEMMA CloseHolds ==
  ASSUME Types, ThreadsRight, NEW t \in Threads, NEW out, NEW r, Ends(t, out, r)
  PROVE  Holding(t, r) /\ r.eng \in HoldsOf(th[t])
<1>1. /\ Steps(t, r) /\ UNCHANGED free /\ r \in Thread /\ ThreadRight(r) /\ th[t].eng = None
      /\ r.eng \in Engines /\ r.eng \notin Engs(r) /\ Engs(th[t]) = Engs(r) \cup {r.eng}
  BY DEF Ends, Closed
<1>2. th[t] \in Thread /\ FramesRight(th[t]) /\ FramesRight(r)
  BY <1>1 DEF Types, ThreadsRight, ThreadRight
<1>3. HoldsOf(r) = Engs(r) \cup {r.eng} /\ HoldsOf(th[t]) = Engs(th[t])
  BY <1>1, <1>2, HoldsIs
<1> QED
  BY <1>1, <1>3 DEF Holding

(* What a thread has nobody else has, and is not in the pool. *)
LEMMA MineOnly ==
  ASSUME Types, Owned, NEW t \in Threads, NEW e \in HoldsOf(th[t]), e \in Engines
  PROVE  /\ e \notin free[DbOf[e]] /\ \A d \in Dbs : e \notin free[d]
         /\ \A u \in Threads : e \in HoldsOf(th[u]) => u = t
<1>1. e \notin free[DbOf[e]]
  BY DEF Owned
<1>2. \A d \in Dbs : e \in free[d] => d = DbOf[e]
  BY DEF Owned
<1>3. \A u \in Threads : e \in HoldsOf(th[u]) => u = t
  BY DEF Owned
<1> QED
  BY <1>1, <1>2, <1>3

LEMMA OwnedHolding ==
  ASSUME Types, ThreadsRight, Owned, NEW t \in Threads, NEW r, Holding(t, r)
  PROVE  Owned'
<1>1. After(t, r) /\ free' = free /\ HoldsOf(r) = HoldsOf(th[t])
  BY OneThread DEF Holding
<1>2. \A u \in Threads : HoldsOf(th'[u]) = HoldsOf(th[u])
  BY <1>1 DEF After
<1> QED
  BY <1>1, <1>2 DEF Owned

LEMMA OwnedTaken ==
  ASSUME Types, ThreadsRight, Owned, NEW t \in Threads, NEW e, NEW r, GetsOne(t, e, r)
  PROVE  Owned' /\ e \in Engines /\ e \in HoldsOf(r) /\ HoldsOf(r) = HoldsOf(th[t]) \cup {e}
<1>1. /\ Steps(t, r) /\ Took(t, e, r) /\ th[t].want.db \in Dbs /\ e \in free[th[t].want.db]
      /\ free' = [free EXCEPT ![th[t].want.db] = @ \ {e}]
  BY DEF GetsOne
<1>2. After(t, r)
  BY <1>1, OneThread
<1>3. e \in Engines /\ DbOf[e] = th[t].want.db
  BY <1>1 DEF Owned
<1>4. \A u \in Threads : e \notin HoldsOf(th[u])
  BY <1>1, <1>3 DEF Owned
<1>5. r \in Thread /\ FramesRight(r) /\ Engs(r) = Engs(th[t]) /\ th[t].eng = None /\ r.eng = e
      /\ th[t] \in Thread /\ FramesRight(th[t])
  BY <1>1 DEF Took, Steps, ThreadRight, Types, ThreadsRight
<1>6. HoldsOf(th[t]) = Engs(th[t])
  BY <1>5, HoldsIs
<1>7. e \notin Engs(r)
  BY <1>4, <1>5, <1>6
<1>8. HoldsOf(r) = HoldsOf(th[t]) \cup {e}
  BY <1>3, <1>5, <1>6, <1>7, HoldsIs
<1>9. /\ HoldsOf(th'[t]) = HoldsOf(th[t]) \cup {e}
      /\ \A u \in Threads \ {t} : HoldsOf(th'[u]) = HoldsOf(th[u])
  BY <1>2, <1>8 DEF After
<1>10. \A d \in Dbs : free'[d] = IF d = DbOf[e] THEN free[d] \ {e} ELSE free[d]
  BY <1>1, <1>3 DEF Types
<1>11. \A d \in Dbs : free'[d] \subseteq {f \in Engines : DbOf[f] = d}
  BY <1>10 DEF Owned
<1>12. \A f \in Engines : f \in free'[DbOf[f]] <=> f \in free[DbOf[f]] /\ f # e
  BY <1>3, <1>10, Constants
<1>13. \A f \in Engines : f \in free'[DbOf[f]] => \A u \in Threads : f \notin HoldsOf(th'[u])
  BY <1>9, <1>12 DEF Owned
<1>14. \A f \in Engines : f \notin free'[DbOf[f]] => \E u \in Threads : f \in HoldsOf(th'[u])
  <2>1. \A u \in Threads : HoldsOf(th[u]) \subseteq HoldsOf(th'[u])
    BY <1>9
  <2>2. e \in HoldsOf(th'[t])
    BY <1>9
  <2> QED
    BY <1>12, <2>1, <2>2 DEF Owned
<1>15. \A u, v \in Threads : \A f \in HoldsOf(th'[u]) \cap HoldsOf(th'[v]) : u = v
  BY <1>4, <1>9 DEF Owned
<1> QED
  BY <1>3, <1>8, <1>11, <1>13, <1>14, <1>15 DEF Owned

LEMMA OwnedGiven ==
  ASSUME Types, ThreadsRight, Owned, NEW t \in Threads, NEW r, GivesBack(t, r),
         th' = [th EXCEPT ![t] = r] \/ \E u, v : Wakes(t, r, u, v)
  PROVE  Owned'
<1>1. /\ Gave(t, r) /\ r \in Thread /\ ThreadRight(r)
      /\ free' = [free EXCEPT ![DbOf[th[t].eng]] = @ \cup {th[t].eng}]
  BY DEF GivesBack
<1>2. PICK e \in Engines : e = th[t].eng /\ e \notin Engs(th[t]) /\ Engs(r) = Engs(th[t]) /\ r.eng = None
  BY <1>1 DEF Gave, Engs
<1>3. th[t] \in Thread /\ FramesRight(th[t]) /\ FramesRight(r)
  BY <1>1 DEF Types, ThreadsRight, ThreadRight
<1>4. HoldsOf(r) = Engs(th[t]) /\ HoldsOf(th[t]) = Engs(th[t]) \cup {e}
  BY <1>1, <1>2, <1>3, HoldsIs
<1>5. /\ HoldsOf(th'[t]) = HoldsOf(th[t]) \ {e}
      /\ \A u \in Threads \ {t} : HoldsOf(th'[u]) = HoldsOf(th[u])
  <2>1. CASE th' = [th EXCEPT ![t] = r]
    <3>1. th'[t] = r /\ \A u \in Threads \ {t} : th'[u] = th[u]
      BY <2>1 DEF Types
    <3> QED
      BY <1>2, <1>4, <3>1
  <2>2. CASE \E u, v : Wakes(t, r, u, v)
    <3>1. PICK u, v : Wakes(t, r, u, v)
      BY <2>2
    <3>2. AfterBoth(t, r, u, v)
      BY <3>1, TwoThreads
    <3>3. HoldsOf(v) = HoldsOf(th[u]) /\ u # t
      BY <3>1 DEF Wakes, Turned, HoldsOf, Engs
    <3> QED
      BY <1>2, <1>4, <3>2, <3>3 DEF AfterBoth
  <2> QED
    BY <2>1, <2>2
<1>6. DbOf[e] \in Dbs
  BY Constants
<1>7. \A d \in Dbs : free'[d] = IF d = DbOf[e] THEN free[d] \cup {e} ELSE free[d]
  BY <1>1, <1>2, <1>6 DEF Types
<1>8. \A d \in Dbs : free'[d] \subseteq {f \in Engines : DbOf[f] = d}
  <2>0. \A d \in Dbs : free[d] \subseteq {f \in Engines : DbOf[f] = d}
    BY DEF Owned
  <2>1. ASSUME NEW d \in Dbs, NEW f \in free'[d] PROVE f \in Engines /\ DbOf[f] = d
    <3>1. f \in free[d] \/ (d = DbOf[e] /\ f = e)
      BY <1>7
    <3> QED
      BY <2>0, <3>1
  <2> QED
    BY <2>1
<1>9. \A f \in Engines : f \in free'[DbOf[f]] <=> f \in free[DbOf[f]] \/ f = e
  BY <1>6, <1>7, Constants
<1>10. \A u \in Threads : e \notin HoldsOf(th'[u])
  BY <1>4, <1>5 DEF Owned
<1>11. \A f \in Engines : f \in free'[DbOf[f]] => \A u \in Threads : f \notin HoldsOf(th'[u])
  BY <1>5, <1>9, <1>10 DEF Owned
<1>12. \A f \in Engines : f \notin free'[DbOf[f]] => \E u \in Threads : f \in HoldsOf(th'[u])
  BY <1>5, <1>9 DEF Owned
<1>13. \A u, v \in Threads : \A f \in HoldsOf(th'[u]) \cap HoldsOf(th'[v]) : u = v
  BY <1>5 DEF Owned
<1> QED
  BY <1>8, <1>11, <1>12, <1>13 DEF Owned

-----------------------------------------------------------------------------
(* Types.                                                                  *)

(* A step changes at most one connection, that its thread has. *)
Touches(t, e, c) ==
  e \in HoldsOf(th[t]) /\ e \in Engines /\ c \in Conns /\ conn' = [conn EXCEPT ![e] = c]

TouchesOne(t) == UNCHANGED conn \/ \E e, c : Touches(t, e, c)

LEMMA EngHeld ==
  ASSUME Types, ThreadsRight, NEW t \in Threads
  PROVE  /\ th[t].eng \in Engines => th[t].eng \in HoldsOf(th[t])
         /\ th[t].frames # <<>> => th[t].tls \in HoldsOf(th[t]) /\ th[t].tls \in Engines /\ th[t].tls \in Engs(th[t])
<1>1. th[t] \in Thread /\ FramesRight(th[t])
  BY DEF Types, ThreadsRight, ThreadRight
<1>2. th[t].frames # <<>> => th[t].tls \in Engs(th[t]) /\ th[t].tls \in Engines
  BY <1>1, TopFrame
<1>3. th[t].frames = <<>> => th[t].tls = None
  BY <1>1, NoFrames
<1>4. th[t].eng \in Engines => th[t].eng # None
  BY Constants
<1>5. CASE th[t].eng = th[t].tls
  BY <1>2, <1>3, <1>4, <1>5 DEF HoldsOf
<1>6. CASE th[t].eng # th[t].tls
  BY <1>2, <1>4, <1>6 DEF HoldsOf
<1> QED
  BY <1>5, <1>6

LEMMA WriteTouches ==
  ASSUME Types, ThreadsRight, NEW t \in Threads, NEW s, NEW r, WritesOne(t, s, r)
  PROVE  \E c : /\ Touches(t, th[t].eng, c)
                /\ AtOnce(t) => c = Fresh
                /\ ~AtOnce(t) => c = [conn[th[t].eng] EXCEPT !.wrote = s]
<1>1. /\ s \in States /\ th[t].eng \in Engines /\ conn[th[t].eng] \in Conns
      /\ AtOnce(t) => conn' = [conn EXCEPT ![th[t].eng] = Fresh]
      /\ ~AtOnce(t) => conn' = [conn EXCEPT ![th[t].eng].wrote = s]
  BY DEF WritesOne, AtStmt
<1>2. th[t].eng \in HoldsOf(th[t])
  BY <1>1, EngHeld
<1>3. CASE AtOnce(t)
  BY <1>1, <1>2, <1>3, RecordTypes DEF Touches
<1>4. CASE ~AtOnce(t)
  <2>1. PICK c : c = [conn[th[t].eng] EXCEPT !.wrote = s]
    OBVIOUS
  <2>2. c \in Conns
    BY <1>1, <2>1 DEF Conns
  <2>3. conn' = [conn EXCEPT ![th[t].eng] = c]
    BY <1>1, <1>4, <2>1
  <2> QED
    BY <1>1, <1>2, <1>4, <2>1, <2>2, <2>3 DEF Touches
<1> QED
  BY <1>3, <1>4

LEMMA BeginTouches ==
  ASSUME Types, ThreadsRight, NEW t \in Threads, NEW r, Begins(t, r)
  PROVE  \E c : Touches(t, th[t].eng, c) /\ c = [conn[th[t].eng] EXCEPT !.open = TRUE]
<1>1. th[t].eng \in Engines /\ conn' = [conn EXCEPT ![th[t].eng].open = TRUE]
  BY DEF Begins
<1>2. th[t].eng \in HoldsOf(th[t]) /\ conn[th[t].eng] \in Conns
  BY <1>1, EngHeld DEF Types
<1>3. PICK c : c = [conn[th[t].eng] EXCEPT !.open = TRUE]
  OBVIOUS
<1>4. c \in Conns
  BY <1>2, <1>3 DEF Conns
<1>5. conn' = [conn EXCEPT ![th[t].eng] = c]
  BY <1>1, <1>3
<1> QED
  BY <1>1, <1>2, <1>3, <1>4, <1>5 DEF Touches

LEMMA FailTouches ==
  ASSUME Types, ThreadsRight, NEW t \in Threads, NEW c, NEW r, FailsOne(t, c, r)
  PROVE  Touches(t, th[t].eng, c)
<1>1. th[t].eng \in Engines /\ c \in Conns /\ conn' = [conn EXCEPT ![th[t].eng] = c]
  BY DEF FailsOne, AtStmt
<1> QED
  BY <1>1, EngHeld DEF Touches

LEMMA RollbackTouches ==
  ASSUME Types, ThreadsRight, NEW t \in Threads, NEW c, NEW r, RollsBack(t, c, r)
  PROVE  Touches(t, th[t].eng, c)
<1>1. th[t].eng \in Engines /\ c \in Conns /\ conn' = [conn EXCEPT ![th[t].eng] = c]
  BY DEF RollsBack, LeavesFields
<1> QED
  BY <1>1, EngHeld DEF Touches

LEMMA EndTouches ==
  ASSUME Types, ThreadsRight, NEW t \in Threads, NEW r
  PROVE  /\ Commits(t, r) => Touches(t, th[t].tls, Fresh)
         /\ Loses(t, r) => Touches(t, th[t].tls, Dead)
<1>1. ASSUME NEW out, Ends(t, out, r) PROVE th[t].tls \in Engines /\ th[t].tls \in HoldsOf(th[t])
  <2>1. r.eng = th[t].tls /\ r.eng \in Engines
    BY <1>1 DEF Ends, Closed
  <2> QED
    BY <1>1, <2>1, CloseHolds
<1> QED
  BY <1>1, RecordTypes DEF Commits, Loses, Touches

LEMMA SetEntry ==
  ASSUME tx \in Seq(Ledger), NEW x, NEW y, x \in DOMAIN tx => y \in Ledger, tx' = [tx EXCEPT ![x] = y]
  PROVE  /\ tx' \in Seq(Ledger) /\ DOMAIN tx' = DOMAIN tx /\ Len(tx') = Len(tx)
         /\ \A i \in DOMAIN tx : tx'[i] = IF i = x THEN y ELSE tx[i]
<1>1. Len(tx) \in Nat /\ DOMAIN tx = 1 .. Len(tx) /\ tx \in [1 .. Len(tx) -> Ledger]
  OBVIOUS
<1>2. tx' \in [1 .. Len(tx) -> Ledger] /\ DOMAIN tx' = DOMAIN tx
  BY <1>1
<1>3. tx' \in Seq(Ledger)
  BY <1>1, <1>2
<1>4. Len(tx') = Len(tx)
  BY <1>1, <1>2, <1>3
<1> QED
  BY <1>1, <1>2, <1>3, <1>4

(* What a statement leaves in the entry of its transaction. *)
Notes(t, ok, y) ==
  /\ th[t].frames = <<>> => tx' = tx
  /\ th[t].frames # <<>> => tx' = [tx EXCEPT ![Top(t).x] = y]
  /\ th[t].frames # <<>> /\ Top(t).x \in DOMAIN tx =>
       /\ y \in Ledger /\ y.out = tx[Top(t).x].out
       /\ y.did = IF ok /\ th[t].want.op = "log" THEN tx[Top(t).x].did \cup {th[t].want.n}
                  ELSE tx[Top(t).x].did
       /\ tx[Top(t).x].swallowed \/ ~ok => y.swallowed
       /\ y.schema <=> tx[Top(t).x].schema \/ (ok /\ th[t].want.op \in OnSchema)

LEMMA NotedDoes ==
  ASSUME Types, NEW t \in Threads, NEW ok \in BOOLEAN, Noted(t, ok), th[t].want.n \in Nat
  PROVE  \E y : Notes(t, ok, y)
<1>1. tx \in Seq(Ledger) /\ \A i \in DOMAIN tx : tx[i] \in Ledger
  BY DEF Types
<1> DEFINE x == Top(t).x
<1>2. CASE th[t].frames = <<>>
  BY <1>2 DEF Noted, Notes
<1>3. CASE th[t].frames # <<>> /\ ~ok
  <2>1. tx' = [tx EXCEPT ![x].swallowed = TRUE]
    BY <1>3 DEF Noted
  <2>2. PICK y : y = [tx[x] EXCEPT !.swallowed = TRUE]
    OBVIOUS
  <2>3. tx' = [tx EXCEPT ![x] = y]
    BY <2>1, <2>2
  <2>4. x \in DOMAIN tx => /\ y \in Ledger /\ y.out = tx[x].out /\ y.did = tx[x].did /\ y.swallowed
                           /\ y.schema = tx[x].schema
    BY <1>1, <2>2 DEF Ledger
  <2> HIDE DEF x
  <2>5. Notes(t, ok, y)
    BY <1>3, <2>3, <2>4 DEF Notes, x
  <2> QED
    BY <2>5
<1>4. CASE th[t].frames # <<>> /\ ok /\ th[t].want.op = "log"
  <2>1. tx' = [tx EXCEPT ![x].did = @ \cup {th[t].want.n}]
    <3>1. tx' = CASE th[t].want.op = "log" -> [tx EXCEPT ![x].did = @ \cup {th[t].want.n}]
                  [] th[t].want.op \in OnSchema -> [tx EXCEPT ![x].schema = TRUE]
                  [] OTHER -> tx
      BY <1>4, Zenon DEF Noted
    <3>2. th[t].want.op \notin OnSchema
      BY <1>4 DEF OnSchema
    <3> QED
      BY <1>4, <3>1, <3>2
  <2>2. PICK y : y = [tx[x] EXCEPT !.did = @ \cup {th[t].want.n}]
    OBVIOUS
  <2>3. tx' = [tx EXCEPT ![x] = y]
    BY <2>1, <2>2
  <2>4. x \in DOMAIN tx => /\ y \in Ledger /\ y.out = tx[x].out /\ y.did = tx[x].did \cup {th[t].want.n}
                           /\ y.swallowed = tx[x].swallowed /\ y.schema = tx[x].schema
    BY <1>1, <2>2 DEF Ledger
  <2>5. th[t].want.op \notin OnSchema
    BY <1>4 DEF OnSchema
  <2> HIDE DEF x
  <2>6. Notes(t, ok, y)
    BY <1>4, <2>3, <2>4, <2>5 DEF Notes, x
  <2> QED
    BY <2>6
<1>5. CASE th[t].frames # <<>> /\ ok /\ th[t].want.op \in OnSchema
  <2>1. tx' = [tx EXCEPT ![x].schema = TRUE]
    BY <1>5 DEF Noted, OnSchema
  <2>2. PICK y : y = [tx[x] EXCEPT !.schema = TRUE]
    OBVIOUS
  <2>3. tx' = [tx EXCEPT ![x] = y]
    BY <2>1, <2>2
  <2>4. x \in DOMAIN tx => /\ y \in Ledger /\ y.out = tx[x].out /\ y.did = tx[x].did
                           /\ y.swallowed = tx[x].swallowed /\ y.schema
    BY <1>1, <2>2 DEF Ledger
  <2>5. th[t].want.op # "log"
    BY <1>5 DEF OnSchema
  <2> HIDE DEF x
  <2>6. Notes(t, ok, y)
    BY <1>5, <2>3, <2>4, <2>5 DEF Notes, x
  <2> QED
    BY <2>6
<1>6. CASE th[t].frames # <<>> /\ ok /\ th[t].want.op # "log" /\ th[t].want.op \notin OnSchema
  <2>1. tx' = tx
    BY <1>6 DEF Noted
  <2>2. tx' = [tx EXCEPT ![x] = tx[x]]
    BY <1>1, <2>1
  <2>3. x \in DOMAIN tx => tx[x] \in Ledger
    BY <1>1
  <2> HIDE DEF x
  <2>4. Notes(t, ok, tx[x])
    BY <1>6, <2>2, <2>3 DEF Notes, x
  <2> QED
    BY <2>4
<1> QED
  BY <1>2, <1>3, <1>4, <1>5, <1>6

(* Most steps leave every thread its connections, and the rest move one.   *)
Gives1(t, r) == GivesBack(t, r) /\ (th' = [th EXCEPT ![t] = r] \/ \E u, v : Wakes(t, r, u, v))

LEMMA Kinds ==
  ASSUME Types, ThreadsRight, NEW t \in Threads, Does(t)
  PROVE  (\E r : Holding(t, r)) \/ (\E e, r : GetsOne(t, e, r)) \/ (\E r : Gives1(t, r))
<1>1. ASSUME NEW r, AppMove(t, r) PROVE Holding(t, r)
  BY <1>1, MoveHolds
<1>2. ASSUME NEW r, Reads1(t, r) PROVE Holding(t, r)
  BY <1>2, EndedHolds DEF Reads1
<1>3. ASSUME NEW s, NEW r, WritesOne(t, s, r) PROVE Holding(t, r)
  BY <1>3, EndedHolds DEF WritesOne
<1>4. ASSUME NEW c, NEW r, FailsOne(t, c, r) PROVE Holding(t, r)
  BY <1>4, EndedHolds DEF FailsOne
<1>5. ASSUME NEW r, NotBegun(t, r) PROVE Holding(t, r)
  BY <1>5, LeaveHolds DEF NotBegun
<1>6. ASSUME NEW c, NEW r, RollsBack(t, c, r) PROVE Holding(t, r)
  BY <1>6, LeaveHolds DEF RollsBack
<1>7. ASSUME NEW r, Commits(t, r) PROVE Holding(t, r)
  BY <1>7, CloseHolds DEF Commits
<1>8. ASSUME NEW r, Throws(t, r) PROVE Holding(t, r)
  BY <1>8, CloseHolds DEF Throws
<1>9. ASSUME NEW r, Loses(t, r) PROVE Holding(t, r)
  BY <1>9, CloseHolds DEF Loses
<1>10. ASSUME NEW r, Begins(t, r) PROVE Holding(t, r)
  BY <1>10, BeginHolds
<1> QED
  BY <1>1, <1>2, <1>3, <1>4, <1>5, <1>6, <1>7, <1>8, <1>9, <1>10, SleepHolds, Zenon DEF Does, Gives1

LEMMA ThreadsAfter ==
  ASSUME Types, ThreadsRight, NEW t \in Threads, Does(t)
  PROVE  th' \in [Threads -> Thread] /\ ThreadsRight'
<1>1. ASSUME NEW r, Steps(t, r) PROVE th' \in [Threads -> Thread] /\ ThreadsRight'
  BY <1>1, OneThread DEF After
<1>2. ASSUME NEW r, Gives1(t, r) PROVE th' \in [Threads -> Thread] /\ ThreadsRight'
  <2>1. CASE th' = [th EXCEPT ![t] = r]
    BY <1>1, <1>2, <2>1 DEF Gives1, GivesBack, Steps
  <2>2. CASE \E u, v : Wakes(t, r, u, v)
    BY <1>2, <2>2, TwoThreads DEF Gives1, AfterBoth
  <2> QED
    BY <1>2, <2>1, <2>2 DEF Gives1
<1> QED
  BY <1>1, <1>2, Kinds, Zenon DEF Holding, GetsOne

LEMMA OwnedAfter ==
  ASSUME Types, ThreadsRight, Owned, NEW t \in Threads, Does(t)
  PROVE  Owned'
BY Kinds, OwnedHolding, OwnedTaken, OwnedGiven, Zenon DEF Gives1

LEMMA ConnAfter ==
  ASSUME Types, ThreadsRight, NEW t \in Threads, Does(t)
  PROVE  TouchesOne(t)
<1>1. ASSUME NEW s, NEW r, WritesOne(t, s, r) PROVE TouchesOne(t)
  BY <1>1, WriteTouches, Zenon DEF TouchesOne
<1>2. ASSUME NEW r, Begins(t, r) PROVE TouchesOne(t)
  BY <1>2, BeginTouches, Zenon DEF TouchesOne
<1>3. ASSUME NEW c, NEW r, FailsOne(t, c, r) PROVE TouchesOne(t)
  BY <1>3, FailTouches, Zenon DEF TouchesOne
<1>4. ASSUME NEW c, NEW r, RollsBack(t, c, r) PROVE TouchesOne(t)
  BY <1>4, RollbackTouches, Zenon DEF TouchesOne
<1>5. ASSUME NEW r, Commits(t, r) PROVE TouchesOne(t)
  BY <1>5, EndTouches, Zenon DEF TouchesOne
<1>6. ASSUME NEW r, Loses(t, r) PROVE TouchesOne(t)
  BY <1>6, EndTouches, Zenon DEF TouchesOne
<1>7. ASSUME NEW r, AppMove(t, r) \/ Sleeps(t, r) \/ GivesBack(t, r) \/ Reads1(t, r) \/ NotBegun(t, r) \/ Throws(t, r)
      PROVE  UNCHANGED conn
  BY <1>7 DEF AppMove, Sleeps, GivesBack, Reads1, NotBegun, Throws
<1>8. ASSUME NEW e, NEW r, GetsOne(t, e, r) PROVE UNCHANGED conn
  BY <1>8 DEF GetsOne
<1>9. UNCHANGED conn => TouchesOne(t)
  BY DEF TouchesOne
<1> QED
  BY <1>1, <1>2, <1>3, <1>4, <1>5, <1>6, <1>7, <1>8, <1>9, Zenon DEF Does

(* The frames and the entries of transactions: noted, opened, or closed.   *)
Quiet(t) ==
  /\ \A u \in Threads : th'[u].frames = th[u].frames /\ th'[u].tls = th[u].tls
  /\ tx' = tx \/ \E ok, y : ok \in BOOLEAN /\ Notes(t, ok, y)

LEMMA EntriesAfter ==
  ASSUME Types, ThreadsRight, NEW t \in Threads, Does(t)
  PROVE  Quiet(t) \/ (\E r : Begins(t, r)) \/ (\E out, r : out \in {"returned", "threw", "unknown"} /\ Ends(t, out, r))
<1>1. ASSUME NEW r, Steps(t, r), r.frames = th[t].frames, r.tls = th[t].tls
      PROVE  \A u \in Threads : th'[u].frames = th[u].frames /\ th'[u].tls = th[u].tls
  <2>1. After(t, r)
    BY <1>1, OneThread
  <2> QED
    BY <1>1, <2>1 DEF After
<1>2. ASSUME NEW r, AppMove(t, r) \/ Sleeps(t, r) \/ Reads1(t, r) \/ NotBegun(t, r) PROVE Quiet(t)
  <2>1. Steps(t, r) /\ r.frames = th[t].frames /\ r.tls = th[t].tls /\ tx' = tx
    BY <1>2 DEF AppMove, Sleeps, Reads1, NotBegun, Steps, Turned, EndedRight, LeavesFields
  <2> QED
    BY <1>1, <2>1 DEF Quiet
<1>3. ASSUME NEW e, NEW r, GetsOne(t, e, r) \/ RollsBack(t, e, r) PROVE Quiet(t)
  <2>1. Steps(t, r) /\ r.frames = th[t].frames /\ r.tls = th[t].tls /\ tx' = tx
    BY <1>3 DEF GetsOne, RollsBack, Took, LeavesFields
  <2> QED
    BY <1>1, <2>1 DEF Quiet
<1>4. ASSUME NEW s, NEW r, WritesOne(t, s, r) \/ FailsOne(t, s, r) PROVE Quiet(t)
  <2>1. /\ Steps(t, r) /\ r.frames = th[t].frames /\ r.tls = th[t].tls /\ th[t].want.n \in Nat
        /\ Noted(t, TRUE) \/ Noted(t, FALSE)
    BY <1>4 DEF WritesOne, FailsOne, EndedRight, AtStmt, Stmts
  <2>2. PICK ok \in BOOLEAN : Noted(t, ok)
    BY <2>1
  <2>3. \E y : Notes(t, ok, y)
    BY <2>1, <2>2, NotedDoes
  <2> QED
    BY <1>1, <2>1, <2>3 DEF Quiet
<1>5. ASSUME NEW r, Gives1(t, r) PROVE Quiet(t)
  <2>1. GivesBack(t, r) /\ r.frames = th[t].frames /\ r.tls = th[t].tls /\ tx' = tx /\ r \in Thread /\ ThreadRight(r)
    BY <1>5 DEF Gives1, GivesBack, Gave
  <2>2. CASE th' = [th EXCEPT ![t] = r]
    <3>1. Steps(t, r)
      BY <2>1, <2>2 DEF Steps
    <3> QED
      BY <1>1, <2>1, <3>1 DEF Quiet
  <2>3. CASE \E u, v : Wakes(t, r, u, v)
    <3>1. PICK u, v : Wakes(t, r, u, v)
      BY <2>3
    <3>2. AfterBoth(t, r, u, v)
      BY <2>1, <3>1, TwoThreads
    <3>3. v.frames = th[u].frames /\ v.tls = th[u].tls /\ u \in Threads
      BY <3>1 DEF Wakes, Turned
    <3>4. \A w \in Threads : th'[w].frames = th[w].frames /\ th'[w].tls = th[w].tls
      BY <2>1, <3>2, <3>3 DEF AfterBoth
    <3> QED
      BY <2>1, <3>4 DEF Quiet
  <2> QED
    BY <1>5, <2>2, <2>3 DEF Gives1
<1>6. ASSUME NEW r, Commits(t, r) \/ Throws(t, r) \/ Loses(t, r)
      PROVE  \E out, x : out \in {"returned", "threw", "unknown"} /\ Ends(t, out, x)
  BY <1>6 DEF Commits, Throws, Loses
<1> QED
  BY <1>2, <1>3, <1>4, <1>5, <1>6, Zenon DEF Does, Gives1

LEMMA TypesAfter ==
  ASSUME Types, ThreadsRight, NEW t \in Threads, Does(t)
  PROVE  Types'
<1>1. th' \in [Threads -> Thread]
  BY ThreadsAfter
<1>2. conn' \in [Engines -> Conns]
  <2>1. CASE UNCHANGED conn
    BY <2>1 DEF Types
  <2>2. CASE \E e, c : Touches(t, e, c)
    BY <2>2 DEF Touches, Types
  <2> QED
    BY <2>1, <2>2, ConnAfter DEF TouchesOne
<1>3. tx' \in Seq(Ledger)
  <2>1. tx \in Seq(Ledger) /\ \A i \in DOMAIN tx : tx[i] \in Ledger
    BY DEF Types
  <2>2. CASE Quiet(t)
    <3>1. CASE tx' = tx
      BY <2>1, <3>1
    <3>2. CASE \E ok, y : ok \in BOOLEAN /\ Notes(t, ok, y)
      <4>1. PICK ok, y : ok \in BOOLEAN /\ Notes(t, ok, y)
        BY <3>2
      <4>2. CASE th[t].frames = <<>>
        BY <2>1, <4>1, <4>2 DEF Notes
      <4>3. CASE th[t].frames # <<>>
        <5>1. /\ tx' = [tx EXCEPT ![Top(t).x] = y]
              /\ Top(t).x \in DOMAIN tx => y \in Ledger
          BY <4>1, <4>3 DEF Notes
        <5> QED
          BY <2>1, <5>1, SetEntry
      <4> QED
        BY <4>2, <4>3
    <3> QED
      BY <2>2, <3>1, <3>2 DEF Quiet
  <2>3. CASE \E r : Begins(t, r)
    <3>1. tx' = Append(tx, [out |-> "open", did |-> {}, swallowed |-> FALSE, schema |-> FALSE])
      BY <2>3 DEF Begins
    <3>2. [out |-> "open", did |-> {}, swallowed |-> FALSE, schema |-> FALSE] \in Ledger
      BY DEF Ledger
    <3> QED
      BY <2>1, <3>1, <3>2
  <2>4. CASE \E out, r : out \in {"returned", "threw", "unknown"} /\ Ends(t, out, r)
    <3>1. PICK out \in {"returned", "threw", "unknown"} : tx' = [tx EXCEPT ![Top(t).x].out = out]
      BY <2>4 DEF Ends
    <3>2. PICK x, y : x = Top(t).x /\ y = [tx[x] EXCEPT !.out = out]
      OBVIOUS
    <3>3. tx' = [tx EXCEPT ![x] = y]
      BY <3>1, <3>2
    <3>4. x \in DOMAIN tx => y \in Ledger
      BY <2>1, <3>2 DEF Ledger
    <3> QED
      BY <2>1, <3>3, <3>4, SetEntry
  <2> QED
    BY <2>2, <2>3, <2>4, EntriesAfter
<1>4. /\ store' \in [Dbs -> States] /\ free' \in [Dbs -> SUBSET Engines]
      /\ calls' \in 0 .. MaxCalls /\ faults' \in 0 .. MaxFaults
  <2>0. /\ store \in [Dbs -> States] /\ free \in [Dbs -> SUBSET Engines]
        /\ calls \in 0 .. MaxCalls /\ faults \in 0 .. MaxFaults
    BY DEF Types
  <2> DEFINE G == /\ store' \in [Dbs -> States] /\ free' \in [Dbs -> SUBSET Engines]
                  /\ calls' \in 0 .. MaxCalls /\ faults' \in 0 .. MaxFaults
  <2>1. ASSUME NEW r, AppMove(t, r) \/ Sleeps(t, r) \/ Reads1(t, r) \/ NotBegun(t, r) \/ Begins(t, r) \/ Throws(t, r)
        PROVE  G
    BY <2>0, <2>1 DEF AppMove, Sleeps, Reads1, NotBegun, Begins, Throws, Ends
  <2>2. ASSUME NEW c, NEW r, FailsOne(t, c, r) \/ RollsBack(t, c, r) PROVE G
    BY <2>0, <2>2 DEF FailsOne, RollsBack
  <2>3. ASSUME NEW e, NEW r, GetsOne(t, e, r) PROVE G
    BY <2>0, <2>3 DEF GetsOne
  <2>4. ASSUME NEW r, GivesBack(t, r) PROVE G
    <3>1. th[t].eng \in Engines /\ free' = [free EXCEPT ![DbOf[th[t].eng]] = @ \cup {th[t].eng}]
          /\ UNCHANGED <<store, calls, faults>>
      BY <2>4 DEF GivesBack, Gave
    <3> QED
      BY <2>0, <3>1
  <2>5. ASSUME NEW s, NEW r, WritesOne(t, s, r) PROVE G
    <3>1. /\ s \in States /\ UNCHANGED <<free, calls, faults>>
          /\ UNCHANGED store \/ store' = [store EXCEPT ![DbOf[th[t].eng]] = s]
      BY <2>5 DEF WritesOne
    <3> QED
      BY <2>0, <3>1
  <2>6. ASSUME NEW r, Commits(t, r) \/ Loses(t, r) PROVE G
    <3>1. /\ UNCHANGED <<free, calls>> /\ faults' \in 0 .. MaxFaults /\ th[t].tls \in Engines
          /\ \/ UNCHANGED store
             \/ /\ conn[th[t].tls].wrote # None
                /\ store' = [store EXCEPT ![DbOf[th[t].tls]] = conn[th[t].tls].wrote]
      BY <2>6 DEF Commits, Loses, Ends, Closed
    <3>2. conn[th[t].tls].wrote \in States \cup {None}
      BY <3>1 DEF Types, Conns
    <3> QED
      BY <2>0, <3>1, <3>2
  <2> HIDE DEF G
  <2>7. G
    BY <2>1, <2>2, <2>3, <2>4, <2>5, <2>6, Zenon DEF Does
  <2> QED
    BY <2>7 DEF G
<1> QED
  BY <1>1, <1>2, <1>3, <1>4 DEF Types

(* The entry of the innermost transaction. *)
LEMMA TopEntry ==
  ASSUME Types, ThreadsRight, Entered, NEW t \in Threads, th[t].frames # <<>>
  PROVE  /\ Top(t) = th[t].frames[Len(th[t].frames)] /\ Len(th[t].frames) \in DOMAIN th[t].frames
         /\ Top(t).x \in DOMAIN tx /\ tx[Top(t).x].out = "open" /\ tx[Top(t).x] \in Ledger
         /\ Top(t) \in Frames /\ Top(t).eng = th[t].tls /\ th[t].tls \in Engines
<1>1. th[t] \in Thread /\ FramesRight(th[t])
  BY DEF Types, ThreadsRight, ThreadRight
<1>2. /\ Len(th[t].frames) \in DOMAIN th[t].frames
      /\ th[t].frames[Len(th[t].frames)] \in Frames /\ th[t].tls = th[t].frames[Len(th[t].frames)].eng
      /\ th[t].tls \in Engines
  BY <1>1, TopFrame
<1>3. Top(t) = th[t].frames[Len(th[t].frames)]
  BY DEF Top, Last
<1>4. Top(t).x \in DOMAIN tx /\ tx[Top(t).x].out = "open"
  BY <1>2, <1>3 DEF Entered
<1>5. tx[Top(t).x] \in Ledger
  BY <1>4 DEF Types
<1> QED
  BY <1>2, <1>3, <1>4, <1>5

(* What a quiet step leaves of the entries. *)
LEMMA QuietEntries ==
  ASSUME Types, ThreadsRight, Entered, NEW t \in Threads, Quiet(t)
  PROVE  DOMAIN tx' = DOMAIN tx /\ \A i \in DOMAIN tx : tx'[i].out = tx[i].out
<1>1. tx \in Seq(Ledger)
  BY DEF Types
<1>2. CASE tx' = tx
  BY <1>2
<1>3. CASE \E ok, y : ok \in BOOLEAN /\ Notes(t, ok, y)
  <2>1. PICK ok, y : ok \in BOOLEAN /\ Notes(t, ok, y)
    BY <1>3
  <2>2. CASE th[t].frames = <<>>
    BY <2>1, <2>2 DEF Notes
  <2>3. CASE th[t].frames # <<>>
    <3>1. Top(t).x \in DOMAIN tx
      BY <2>3, TopEntry
    <3>2. tx' = [tx EXCEPT ![Top(t).x] = y] /\ y \in Ledger /\ y.out = tx[Top(t).x].out
      BY <2>1, <2>3, <3>1 DEF Notes
    <3> QED
      BY <1>1, <3>2, SetEntry
  <2> QED
    BY <2>2, <2>3
<1> QED
  BY <1>2, <1>3 DEF Quiet

LEMMA EnteredAfter ==
  ASSUME Types, ThreadsRight, Entered, NEW t \in Threads, Does(t)
  PROVE  Entered'
<1>1. tx \in Seq(Ledger) /\ \A u \in Threads : th[u].frames \in Seq(Frames)
  BY DEF Types, Thread
<1>2. CASE Quiet(t)
  <2>1. DOMAIN tx' = DOMAIN tx /\ \A i \in DOMAIN tx : tx'[i].out = tx[i].out
    BY <1>2, QuietEntries
  <2>2. \A u \in Threads : th'[u].frames = th[u].frames
    BY <1>2 DEF Quiet
  <2> QED
    BY <2>1, <2>2 DEF Entered
<1>3. CASE \E r : Begins(t, r)
  <2>1. PICK r : Begins(t, r)
    BY <1>3
  <2>2. PICK y : y = [out |-> "open", did |-> {}, swallowed |-> FALSE, schema |-> FALSE]
    OBVIOUS
  <2>3. PICK n \in Nat : n = Len(tx) + 1 /\ n = Len(tx')
    BY <1>1, <2>1 DEF Begins
  <2>4. /\ DOMAIN tx = 1 .. n - 1 /\ DOMAIN tx' = 1 .. n /\ tx'[n].out = "open"
        /\ \A i \in DOMAIN tx : tx'[i] = tx[i]
    <3>1. tx' = Append(tx, y) /\ y.out = "open" /\ y \in Ledger
      BY <2>1, <2>2 DEF Begins, Ledger
    <3> QED
      BY <1>1, <2>3, <3>1
  <2>5. PICK f : f = [eng |-> th[t].eng, prev |-> th[t].tls, x |-> n]
    OBVIOUS
  <2>6. Steps(t, r) /\ r.frames = Append(th[t].frames, f) /\ f.x = n
    BY <2>1, <2>3, <2>5 DEF Begins, Opened
  <2>7. After(t, r)
    BY <2>6, OneThread
  <2>8. PICK m \in Nat : m = Len(th[t].frames) + 1 /\ DOMAIN th[t].frames = 1 .. m - 1
    BY <1>1
  <2>9. /\ DOMAIN th'[t].frames = 1 .. m /\ th'[t].frames[m].x = n
        /\ \A k \in 1 .. m - 1 : th'[t].frames[k] = th[t].frames[k]
        /\ \A u \in Threads \ {t} : th'[u].frames = th[u].frames
    <3>1. th'[t].frames = Append(th[t].frames, f) /\ \A u \in Threads \ {t} : th'[u].frames = th[u].frames
      BY <2>6, <2>7 DEF After
    <3> QED
      BY <1>1, <2>6, <2>8, <3>1
  <2>10. \A u \in Threads : \A k \in DOMAIN th[u].frames : th[u].frames[k].x \in 1 .. n - 1
    BY <2>4 DEF Entered
  <2>11. ASSUME NEW u \in Threads, NEW k \in DOMAIN th'[u].frames
         PROVE  \/ u = t /\ k = m /\ th'[u].frames[k].x = n
                \/ k \in DOMAIN th[u].frames /\ th'[u].frames[k] = th[u].frames[k]
    <3>1. CASE u = t
      <4>1. k \in 1 .. m
        BY <2>9, <3>1
      <4>2. k = m \/ k \in 1 .. m - 1
        BY <4>1
      <4>3. k = m => u = t /\ th'[u].frames[k].x = n
        BY <2>9, <3>1
      <4>4. k \in 1 .. m - 1 => k \in DOMAIN th[u].frames /\ th'[u].frames[k] = th[u].frames[k]
        BY <2>8, <2>9, <3>1
      <4>5. CASE k = m
        BY <3>1, <4>3, <4>5
      <4>6. CASE k \in 1 .. m - 1
        BY <4>4, <4>6
      <4> QED
        BY <4>2, <4>5, <4>6
    <3>2. CASE u # t
      BY <2>9, <3>2
    <3> QED
      BY <3>1, <3>2
  <2>12. \A u \in Threads : \A k \in DOMAIN th'[u].frames :
           th'[u].frames[k].x \in DOMAIN tx' /\ tx'[th'[u].frames[k].x].out = "open"
    <3>1. n \in 1 .. n /\ \A i \in 1 .. n - 1 : i \in 1 .. n
      BY <2>3
    <3>2. ASSUME NEW u \in Threads, NEW k \in DOMAIN th'[u].frames
          PROVE  th'[u].frames[k].x \in DOMAIN tx' /\ tx'[th'[u].frames[k].x].out = "open"
      <4>1. CASE th'[u].frames[k].x = n
        BY <2>4, <3>1, <4>1
      <4>2. CASE k \in DOMAIN th[u].frames /\ th'[u].frames[k] = th[u].frames[k]
        <5>1. th[u].frames[k].x \in DOMAIN tx /\ tx[th[u].frames[k].x].out = "open"
          BY <4>2 DEF Entered
        <5> QED
          BY <2>4, <3>1, <4>2, <5>1
      <4> QED
        BY <2>11, <4>1, <4>2
    <3> QED
      BY <3>2
  <2>13. n \notin 1 .. n - 1
    BY <2>3
  <2>14. \A u, v \in Threads : \A j \in DOMAIN th'[u].frames, k \in DOMAIN th'[v].frames :
           th'[u].frames[j].x = th'[v].frames[k].x => u = v /\ j = k
    BY <2>10, <2>11, <2>13 DEF Entered
  <2> QED
    BY <2>12, <2>14 DEF Entered
<1>4. CASE \E out, r : out \in {"returned", "threw", "unknown"} /\ Ends(t, out, r)
  <2>1. PICK out, r : out \in {"returned", "threw", "unknown"} /\ Ends(t, out, r)
    BY <1>4
  <2>2. /\ Steps(t, r) /\ Top(t) = th[t].frames[Len(th[t].frames)]
        /\ \A k \in DOMAIN r.frames : k \in DOMAIN th[t].frames /\ k # Len(th[t].frames)
                                      /\ r.frames[k] = th[t].frames[k]
        /\ tx' = [tx EXCEPT ![Top(t).x].out = out]
    BY <2>1 DEF Ends, Closed
  <2>3. After(t, r)
    BY <2>2, OneThread
  <2>4. \A u \in Threads : \A k \in DOMAIN th'[u].frames :
          /\ k \in DOMAIN th[u].frames /\ th'[u].frames[k] = th[u].frames[k]
          /\ u = t => k # Len(th[t].frames)
    BY <2>2, <2>3 DEF After
  <2>5. PICK x, y : x = Top(t).x /\ y = [tx[x] EXCEPT !.out = out]
    OBVIOUS
  <2>6. tx' = [tx EXCEPT ![x] = y] /\ (x \in DOMAIN tx => y \in Ledger)
    <3>1. tx' = [tx EXCEPT ![x] = y]
      BY <2>2, <2>5
    <3>2. \A i \in DOMAIN tx : tx[i] \in Ledger
      BY <1>1
    <3>3. x \in DOMAIN tx => y \in Ledger
      BY <2>1, <2>5, <3>2 DEF Ledger
    <3> QED
      BY <3>1, <3>3
  <2>7. DOMAIN tx' = DOMAIN tx /\ \A i \in DOMAIN tx : i # x => tx'[i] = tx[i]
    BY <1>1, <2>6, SetEntry
  <2>8. th[t].frames # <<>> /\ Len(th[t].frames) \in DOMAIN th[t].frames
    <3>1. Len(r.frames) = Len(th[t].frames) - 1 /\ r \in Thread
      BY <2>1 DEF Ends, Closed
    <3>2. Len(r.frames) \in Nat
      BY <3>1 DEF Thread
    <3> QED
      BY <1>1, <3>1, <3>2
  <2>9. \A u \in Threads : \A k \in DOMAIN th'[u].frames : th[u].frames[k].x # x
    <3>1. x = th[t].frames[Len(th[t].frames)].x
      BY <2>2, <2>5
    <3>2. ASSUME NEW u \in Threads, NEW k \in DOMAIN th'[u].frames PROVE th[u].frames[k].x # x
      <4>1. k \in DOMAIN th[u].frames /\ (u = t => k # Len(th[t].frames))
        BY <2>4
      <4>2. th[u].frames[k].x = th[t].frames[Len(th[t].frames)].x => u = t /\ k = Len(th[t].frames)
        BY <2>8, <4>1 DEF Entered
      <4> QED
        BY <3>1, <4>1, <4>2
    <3> QED
      BY <3>2
  <2>10. \A u \in Threads : \A k \in DOMAIN th'[u].frames :
           th'[u].frames[k].x \in DOMAIN tx' /\ tx'[th'[u].frames[k].x].out = "open"
    BY <2>4, <2>7, <2>9 DEF Entered
  <2>11. \A u, v \in Threads : \A j \in DOMAIN th'[u].frames, k \in DOMAIN th'[v].frames :
           th'[u].frames[j].x = th'[v].frames[k].x => u = v /\ j = k
    BY <2>4 DEF Entered
  <2> QED
    BY <2>10, <2>11 DEF Entered
<1> QED
  BY <1>2, <1>3, <1>4, EntriesAfter

-----------------------------------------------------------------------------
(* Connections outside a transaction are clean.                            *)

(* A thread has its connection for a statement or to give back.            *)
Alone(s) == s.eng \in Engines \ Engs(s) /\ s.pc # "rollback"

CleanConn(c) == c \in {Fresh, Dead}

LEMMA CleanWhen ==
  Clean <=> /\ \A e \in Engines : conn[e].dead => conn[e] = Dead
            /\ \A e \in Engines : e \in free[DbOf[e]] => CleanConn(conn[e])
            /\ \A t \in Threads : Alone(th[t]) => CleanConn(conn[th[t].eng])
BY DEF Clean, Alone, CleanConn

(* Nobody else has the connection that a step changes.                     *)
LEMMA OthersConns ==
  ASSUME Types, Owned, NEW t \in Threads, NEW e, NEW c, Touches(t, e, c)
  PROVE  /\ conn'[e] = c /\ \A f \in Engines \ {e} : conn'[f] = conn[f]
         /\ e \in Engines /\ e \notin free[DbOf[e]]
         /\ \A u \in Threads \ {t} : e \notin HoldsOf(th[u])
<1>1. e \in HoldsOf(th[t]) /\ e \in Engines /\ conn' = [conn EXCEPT ![e] = c]
  BY DEF Touches
<1>2. conn'[e] = c /\ \A f \in Engines \ {e} : conn'[f] = conn[f]
  BY <1>1 DEF Types
<1> QED
  BY <1>1, <1>2, MineOnly

(* A step of one thread that keeps the pool and leaves its connection      *)
(* clean, or no longer alone.                                              *)
LEMMA CleanKept ==
  ASSUME Types, ThreadsRight, Owned, Clean, NEW t \in Threads, NEW r, Steps(t, r), UNCHANGED free,
         NEW e, NEW c, UNCHANGED conn \/ Touches(t, e, c),
         Touches(t, e, c) => (c.dead => c = Dead),
         Alone(r) => CleanConn(conn'[r.eng])
  PROVE  Clean'
<1>1. After(t, r) /\ free' = free
  BY OneThread
<1>2. CASE UNCHANGED conn
  <2>1. \A u \in Threads \ {t} : th'[u] = th[u]
    BY <1>1 DEF After
  <2>2. \A u \in Threads : Alone(th'[u]) => CleanConn(conn'[th'[u].eng])
    BY <1>1, <1>2, <2>1, CleanWhen DEF After
  <2> QED
    BY <1>1, <1>2, <2>2 DEF Clean, Alone, CleanConn
<1>3. CASE Touches(t, e, c)
  <2>1. /\ conn'[e] = c /\ \A f \in Engines \ {e} : conn'[f] = conn[f]
        /\ e \in Engines /\ e \notin free[DbOf[e]]
        /\ \A u \in Threads \ {t} : e \notin HoldsOf(th[u])
    BY <1>3, OthersConns
  <2>2. \A u \in Threads \ {t} : th'[u] = th[u]
    BY <1>1 DEF After
  <2>3. ASSUME NEW u \in Threads \ {t}, Alone(th[u]) PROVE CleanConn(conn'[th[u].eng])
    <3>1. th[u].eng \in Engines /\ th[u].eng \in HoldsOf(th[u])
      BY <2>3, EngHeld DEF Alone
    <3>2. conn'[th[u].eng] = conn[th[u].eng]
      BY <2>1, <3>1
    <3> QED
      BY <2>3, <3>2, CleanWhen
  <2>4. \A u \in Threads : Alone(th'[u]) => CleanConn(conn'[th'[u].eng])
    BY <1>1, <2>2, <2>3 DEF After
  <2>5. \A f \in Engines : conn'[f].dead => conn'[f] = Dead
    BY <1>3, <2>1 DEF Clean
  <2>6. \A f \in Engines : f \in free'[DbOf[f]] => CleanConn(conn'[f])
    BY <1>1, <2>1 DEF Clean, CleanConn
  <2> QED
    BY <2>4, <2>5, <2>6 DEF Clean, Alone, CleanConn
<1> QED
  BY <1>2, <1>3

LEMMA FailedIs ==
  ASSUME Types, NEW e \in Engines
  PROVE  /\ Failed(e).dead = conn[e].dead /\ Failed(e).open = conn[e].open /\ Failed(e).wrote = conn[e].wrote
         /\ Failed(e).aborted <=> conn[e].open /\ dialect = "Postgres"
         /\ CleanConn(conn[e]) => Failed(e) = conn[e]
<1>1. conn[e] \in Conns
  BY DEF Types
<1>2. PICK c : c = conn[e] /\ c \in Conns
  BY <1>1
<1>3. CASE c.open /\ dialect = "Postgres"
  <2>1. Failed(e) = [c EXCEPT !.aborted = TRUE]
    BY <1>2, <1>3 DEF Failed
  <2>2. c # Fresh /\ c # Dead
    BY <1>3 DEF Fresh, Dead
  <2> QED
    BY <1>2, <1>3, <2>1, <2>2 DEF Conns, CleanConn
<1>4. CASE ~(c.open /\ dialect = "Postgres")
  <2>1. Failed(e) = [c EXCEPT !.aborted = FALSE]
    BY <1>2, <1>4 DEF Failed
  <2>2. c = Fresh \/ c = Dead => [c EXCEPT !.aborted = FALSE] = c
    BY DEF Fresh, Dead
  <2> QED
    BY <1>2, <1>4, <2>1, <2>2 DEF Conns, CleanConn
<1> QED
  BY <1>3, <1>4

LEMMA AloneClean ==
  ASSUME Types, ThreadsRight, Clean, NEW t \in Threads, Alone(th[t])
  PROVE  CleanConn(conn[th[t].eng])
BY CleanWhen

LEMMA StmtAlone ==
  ASSUME Types, ThreadsRight, Clean, NEW t \in Threads, AtStmt(t), th[t].frames = <<>>
  PROVE  Alone(th[t]) /\ CleanConn(conn[th[t].eng])
<1>1. Alone(th[t])
  BY DEF AtStmt, Alone, Engs
<1> QED
  BY <1>1, AloneClean

LEMMA CleanAfter ==
  ASSUME Types, ThreadsRight, Owned, Clean, NEW t \in Threads, Does(t)
  PROVE  Clean'
<1>0. Fresh.dead = FALSE /\ Fresh.open = FALSE /\ Dead.dead = TRUE /\ Fresh # Dead
  BY DEF Fresh, Dead
<1>1. ASSUME NEW r, Steps(t, r), UNCHANGED <<free, conn>>, ~Alone(r) PROVE Clean'
  <2>1. \A e, c : Touches(t, e, c) => (c.dead => c = Dead)
    <3>1. ASSUME NEW e, NEW c, Touches(t, e, c) PROVE c.dead => c = Dead
      <4>1. conn[e] = c /\ e \in Engines
        BY <1>1, <3>1 DEF Touches, Types
      <4> QED
        BY <4>1 DEF Clean
    <3> QED
      BY <3>1
  <2> QED
    BY <1>1, <2>1, CleanKept
<1>2. ASSUME NEW r, AppMove(t, r) PROVE Clean'
  <2>1. Steps(t, r) /\ UNCHANGED <<free, conn>> /\ FramesRight(r) /\ r.eng \in {None, r.tls} /\ r \in Thread
    BY <1>2 DEF AppMove, Steps, ThreadRight
  <2>2. r.eng \notin Engines \ Engs(r)
    BY <2>1, TopFrame, NoFrames, Constants
  <2> QED
    BY <1>1, <2>1, <2>2 DEF Alone
<1>3. ASSUME NEW r, Sleeps(t, r) \/ Throws(t, r) PROVE Clean'
  <2>1. Steps(t, r) /\ UNCHANGED <<free, conn>> /\ (r.eng = None \/ r.pc = "rollback")
    BY <1>3 DEF Sleeps, Throws, Ends, Turned
  <2> QED
    BY <1>1, <2>1, Constants DEF Alone
<1>4. ASSUME NEW r, Steps(t, r), UNCHANGED <<free, conn>>, CleanConn(conn[r.eng]) PROVE Clean'
  <2>1. \A e, c : Touches(t, e, c) => (c.dead => c = Dead)
    <3>1. ASSUME NEW e, NEW c, Touches(t, e, c) PROVE c.dead => c = Dead
      <4>1. conn[e] = c /\ e \in Engines
        BY <1>4, <3>1 DEF Touches, Types
      <4> QED
        BY <4>1 DEF Clean
    <3> QED
      BY <3>1
  <2> QED
    BY <1>4, <2>1, CleanKept
<1>5. ASSUME NEW r, Reads1(t, r) PROVE Clean'
  <2>1. /\ Steps(t, r) /\ UNCHANGED <<free, conn>> /\ AtStmt(t)
        /\ th[t].frames # <<>> => r.eng = None
        /\ th[t].frames = <<>> => r.eng = th[t].eng
    BY <1>5 DEF Reads1, EndedRight
  <2>2. CASE th[t].frames = <<>>
    BY <1>4, <2>1, <2>2, StmtAlone
  <2>3. CASE th[t].frames # <<>>
    BY <1>1, <2>1, <2>3, Constants DEF Alone
  <2> QED
    BY <2>2, <2>3
<1>6. ASSUME NEW r, NotBegun(t, r) PROVE Clean'
  <2>1. /\ Steps(t, r) /\ UNCHANGED <<free, conn>> /\ r.eng = th[t].eng /\ Engs(r) = Engs(th[t])
        /\ r.eng \in Engines /\ r.eng \notin Engs(r) /\ th[t].pc = "begin"
    BY <1>6 DEF NotBegun, LeavesFields
  <2>2. Alone(th[t])
    BY <2>1 DEF Alone
  <2> QED
    BY <1>4, <2>1, <2>2, AloneClean
<1>7. ASSUME NEW r, NEW e, NEW c, Steps(t, r), UNCHANGED free, Touches(t, e, c), c.dead => c = Dead,
             (r.eng = e /\ CleanConn(c)) \/ ~Alone(r)
      PROVE  Clean'
  <2>1. conn'[e] = c
    BY <1>7 DEF Touches, Types
  <2> QED
    BY <1>7, <2>1, CleanKept
<1>8. ASSUME NEW s, NEW r, WritesOne(t, s, r) PROVE Clean'
  <2>1. /\ Steps(t, r) /\ free' = free /\ AtStmt(t) /\ ~conn[th[t].eng].dead
        /\ th[t].frames # <<>> => r.eng = None
        /\ th[t].frames = <<>> => r.eng = th[t].eng
        /\ th[t].eng \in Engines /\ conn[th[t].eng] \in Conns
    BY <1>8 DEF WritesOne, EndedRight, AtStmt
  <2>2. PICK c : /\ Touches(t, th[t].eng, c)
                 /\ AtOnce(t) => c = Fresh
                 /\ ~AtOnce(t) => c = [conn[th[t].eng] EXCEPT !.wrote = s]
    BY <1>8, WriteTouches
  <2>3. ~c.dead
    BY <1>0, <2>1, <2>2 DEF Conns
  <2>4. CASE th[t].frames = <<>>
    <3>1. conn[th[t].eng] = Fresh
      BY <1>0, <2>1, <2>4, StmtAlone DEF CleanConn
    <3>2. AtOnce(t)
      BY <1>0, <3>1 DEF AtOnce
    <3> QED
      BY <1>7, <2>1, <2>2, <2>3, <2>4, <3>2 DEF CleanConn
  <2>5. CASE th[t].frames # <<>>
    <3>1. ~Alone(r)
      BY <2>1, <2>5, Constants DEF Alone
    <3> QED
      BY <1>7, <2>1, <2>2, <2>3, <3>1
  <2> QED
    BY <2>4, <2>5
<1>9. ASSUME NEW c, NEW r, FailsOne(t, c, r) PROVE Clean'
  <2>1. /\ Steps(t, r) /\ free' = free /\ AtStmt(t) /\ c \in {Failed(th[t].eng), Dead}
        /\ th[t].frames # <<>> => r.eng = None
        /\ th[t].frames = <<>> => r.eng = th[t].eng
        /\ th[t].eng \in Engines
    BY <1>9 DEF FailsOne, EndedRight, AtStmt
  <2>2. Touches(t, th[t].eng, c)
    BY <1>9, FailTouches
  <2>3. c.dead => c = Dead
    <3>1. conn[th[t].eng].dead => conn[th[t].eng] = Dead /\ CleanConn(Dead)
      BY <2>1 DEF Clean, CleanConn
    <3> QED
      BY <2>1, <3>1, FailedIs
  <2>4. CASE th[t].frames = <<>>
    <3>1. CleanConn(conn[th[t].eng])
      BY <2>1, <2>4, StmtAlone
    <3>2. CleanConn(c)
      BY <2>1, <3>1, FailedIs DEF CleanConn
    <3> QED
      BY <1>7, <2>1, <2>2, <2>3, <2>4, <3>2
  <2>5. CASE th[t].frames # <<>>
    <3>1. ~Alone(r)
      BY <2>1, <2>5, Constants DEF Alone
    <3> QED
      BY <1>7, <2>1, <2>2, <2>3, <3>1
  <2> QED
    BY <2>4, <2>5
<1>10. ASSUME NEW r, Begins(t, r) PROVE Clean'
  <2>1. Steps(t, r) /\ free' = free /\ r.eng = None /\ ~conn[th[t].eng].dead /\ th[t].eng \in Engines
    BY <1>10 DEF Begins, Opened
  <2>2. PICK c : Touches(t, th[t].eng, c) /\ c = [conn[th[t].eng] EXCEPT !.open = TRUE]
    BY <1>10, BeginTouches
  <2>3. ~c.dead
    BY <2>1, <2>2 DEF Types, Conns
  <2>4. ~Alone(r)
    BY <2>1, Constants DEF Alone
  <2> QED
    BY <1>7, <2>1, <2>2, <2>3, <2>4
<1>11. ASSUME NEW c, NEW r, RollsBack(t, c, r) PROVE Clean'
  <2>1. /\ Steps(t, r) /\ free' = free /\ r.eng = th[t].eng /\ r.eng \in Engines
        /\ c = IF conn[th[t].eng].dead THEN conn[th[t].eng] ELSE Fresh
    BY <1>11 DEF RollsBack, LeavesFields
  <2>2. Touches(t, th[t].eng, c)
    BY <1>11, RollbackTouches
  <2>3. conn[th[t].eng].dead => conn[th[t].eng] = Dead
    BY <2>1 DEF Clean
  <2>4. CleanConn(c) /\ (c.dead => c = Dead)
    BY <1>0, <2>1, <2>3 DEF CleanConn
  <2> QED
    BY <1>7, <2>1, <2>2, <2>4
<1>12. ASSUME NEW r, Commits(t, r) \/ Loses(t, r) PROVE Clean'
  <2>1. /\ Steps(t, r) /\ free' = free /\ r.eng = th[t].tls
        /\ Commits(t, r) => Touches(t, th[t].tls, Fresh)
        /\ Loses(t, r) => Touches(t, th[t].tls, Dead)
    BY <1>12, EndTouches DEF Commits, Loses, Ends, Closed
  <2> QED
    BY <1>0, <1>7, <1>12, <2>1 DEF CleanConn
<1>13. ASSUME NEW e, NEW r, GetsOne(t, e, r) PROVE Clean'
  <2>1. /\ Steps(t, r) /\ r.eng = e /\ th[t].want.db \in Dbs /\ e \in free[th[t].want.db] /\ UNCHANGED conn
        /\ free' = [free EXCEPT ![th[t].want.db] = @ \ {e}]
    BY <1>13 DEF GetsOne, Took
  <2>2. e \in Engines /\ DbOf[e] = th[t].want.db
    BY <2>1 DEF Owned
  <2>3. CleanConn(conn[e])
    BY <2>1, <2>2, CleanWhen
  <2>4. After(t, r)
    BY <2>1, OneThread
  <2>5. \A u \in Threads : Alone(th'[u]) => CleanConn(conn'[th'[u].eng])
    BY <2>1, <2>3, <2>4, CleanWhen DEF After
  <2>6. \A d \in Dbs : free'[d] \subseteq free[d]
    BY <2>1 DEF Types
  <2>7. \A f \in Engines : f \in free'[DbOf[f]] => CleanConn(conn'[f])
    BY <2>1, <2>6, CleanWhen, Constants
  <2> QED
    BY <2>1, <2>5, <2>7 DEF Clean, Alone, CleanConn
<1>14. ASSUME NEW r, Gives1(t, r) PROVE Clean'
  <2>1. /\ GivesBack(t, r) /\ r \in Thread /\ ThreadRight(r) /\ r.eng = None /\ UNCHANGED conn
        /\ th[t].eng \in Engines /\ th[t].eng \notin Engs(th[t]) /\ th[t].pc = "release"
        /\ free' = [free EXCEPT ![DbOf[th[t].eng]] = @ \cup {th[t].eng}]
    BY <1>14 DEF Gives1, GivesBack, Gave
  <2>2. CleanConn(conn[th[t].eng])
    <3>1. Alone(th[t])
      BY <2>1 DEF Alone
    <3> QED
      BY <3>1, AloneClean
  <2>3. \A u \in Threads : Alone(th'[u]) => CleanConn(conn'[th'[u].eng])
    <3>1. CASE th' = [th EXCEPT ![t] = r]
      <4>1. After(t, r)
        BY <2>1, <3>1, OneThread DEF Steps
      <4>2. ~Alone(r)
        BY <2>1, Constants DEF Alone
      <4> QED
        BY <2>1, <4>1, <4>2, CleanWhen DEF After
    <3>2. CASE \E u, v : Wakes(t, r, u, v)
      <4>1. PICK u, v : Wakes(t, r, u, v)
        BY <3>2
      <4>2. AfterBoth(t, r, u, v)
        BY <2>1, <4>1, TwoThreads
      <4>3. ~Alone(r) /\ ~Alone(v)
        BY <2>1, <4>1, Constants DEF Alone, Wakes, Turned
      <4> QED
        BY <2>1, <4>2, <4>3, CleanWhen DEF AfterBoth
    <3> QED
      BY <1>14, <3>1, <3>2 DEF Gives1
  <2>4. \A d \in Dbs : free'[d] \subseteq free[d] \cup {th[t].eng}
    BY <2>1 DEF Types
  <2>5. \A f \in Engines : f \in free'[DbOf[f]] => CleanConn(conn'[f])
    BY <2>1, <2>2, <2>4, CleanWhen, Constants
  <2> QED
    BY <2>1, <2>3, <2>5 DEF Clean, Alone, CleanConn
<1> QED
  BY <1>2, <1>3, <1>5, <1>6, <1>8, <1>9, <1>10, <1>11, <1>12, <1>13, <1>14, Zenon DEF Does, Gives1

-----------------------------------------------------------------------------
(* Every state of the system is of these types, with every connection in   *)
(* one place.                                                              *)

Base == Types /\ ThreadsRight /\ Owned /\ Entered /\ Clean

NewThread ==
  [pc |-> "app", want |-> NoStmt, eng |-> None, tls |-> None, frames |-> <<>>,
   err |-> FALSE, res |-> {}, prog |-> NoProg, rec |-> NoRec, known |-> {}]

LEMMA NewThreads ==
  NewThread \in Thread /\ ThreadRight(NewThread) /\ HoldsOf(NewThread) = {}
<1>1. /\ NewThread.pc = "app" /\ NewThread.want = NoStmt /\ NewThread.eng = None /\ NewThread.tls = None
      /\ NewThread.frames = <<>> /\ NewThread.err = FALSE /\ NewThread.res = {} /\ NewThread.prog = NoProg
      /\ NewThread.rec = NoRec
  BY DEF NewThread
<1>2. NewThread \in Thread
  <2>1. {} \in Results /\ {} \in SUBSET Nat /\ <<>> \in Seq(Frames) /\ "app" \in Places
    BY DEF Results, Places
  <2> QED
    BY <2>1, RecordTypes DEF Thread, NewThread
<1>3. FramesRight(NewThread)
  BY <1>1 DEF FramesRight
<1>4. EngineRight(NewThread)
  BY <1>1, NoProgIs DEF EngineRight
<1>5. PlanRight(NewThread)
  <2>1. RecRight(NoRec)
    BY DEF RecRight, NoRec
  <2> QED
    BY <1>1, <2>1, NoProgIs DEF PlanRight
<1>6. \A W : ~Heads(NewThread, W)
  BY <1>1, NoProgIs DEF Heads
<1>7. TxRight(NewThread)
  BY <1>1, <1>6, NoProgIs DEF TxRight
<1>8. ResultRight(NewThread)
  BY <1>1, <1>6 DEF ResultRight
<1>9. HoldsOf(NewThread) = {}
  BY <1>1 DEF HoldsOf, Engs
<1> QED
  BY <1>2, <1>3, <1>4, <1>5, <1>7, <1>8, <1>9 DEF ThreadRight

LEMMA BaseInit == Init => Base
<1> SUFFICES ASSUME Init PROVE Base
  OBVIOUS
<1>1. /\ store = [d \in Dbs |-> Empty] /\ conn = [e \in Engines |-> Fresh]
      /\ free = [d \in Dbs |-> {e \in Engines : DbOf[e] = d}]
      /\ calls = 0 /\ faults = 0 /\ tx = <<>>
  BY DEF Init
<1>2. th = [t \in Threads |-> NewThread]
  BY DEF Init, NewThread
<1>3. \A t \in Threads : th[t] = NewThread
  BY <1>2
<1>4. Types
  BY <1>1, <1>2, NewThreads, RecordTypes, Constants DEF Types
<1>5. ThreadsRight
  BY <1>3, NewThreads DEF ThreadsRight
<1>6. \A e \in Engines : DbOf[e] \in Dbs /\ e \in free[DbOf[e]] /\ conn[e] = Fresh
  BY <1>1, Constants
<1>7. Owned
  BY <1>1, <1>3, <1>6, NewThreads DEF Owned
<1>8. \A t \in Threads : th[t].frames = <<>> /\ th[t].eng = None
  BY <1>3 DEF NewThread
<1>9. Entered
  BY <1>8 DEF Entered
<1>10. Clean
  <2>1. Fresh.dead = FALSE
    BY DEF Fresh
  <2> QED
    BY <1>6, <1>8, <2>1, Constants DEF Clean
<1> QED
  BY <1>4, <1>5, <1>7, <1>9, <1>10 DEF Base

LEMMA BaseNext == Base /\ [Next]_vars => Base'
<1> SUFFICES ASSUME Base, [Next]_vars PROVE Base'
  OBVIOUS
<1>1. Types /\ ThreadsRight /\ Owned /\ Entered /\ Clean
  BY DEF Base
<1>2. CASE Next
  <2>1. PICK t \in Threads : Does(t)
    BY <1>1, <1>2, EveryStep
  <2> QED
    BY <1>1, <2>1, ThreadsAfter, TypesAfter, OwnedAfter, EnteredAfter, CleanAfter DEF Base
<1>3. CASE UNCHANGED vars
  BY <1>1, <1>3 DEF Base, vars, Types, ThreadsRight, Owned, Entered, Clean
<1> QED
  BY <1>2, <1>3

(* In every state the threads, connections and transactions of database.cpp *)
(* and pool.h stand as described above.                                    *)
THEOREM BaseHolds == Spec => []Base
BY BaseInit, BaseNext, PTL DEF Spec

(* Every connection is in its pool or one thread's, which is what          *)
(* Pool::acquire and release_ (pool.h) promise their leases; a thread's    *)
(* statements go to its innermost transaction, as TransactionScope         *)
(* (database.cpp) sets it; and what is in the pool is out of every         *)
(* transaction: for any threads, pools and calls.                          *)
THEOREM TypeCorrect == Spec => []TypeOK
<1>1. Base => TypeOK
  <2> SUFFICES ASSUME Base PROVE TypeOK
    OBVIOUS
  <2>1. Types /\ ThreadsRight /\ Owned /\ Clean
    BY DEF Base
  <2>2. \A t \in Threads : Holds(t) = HoldsOf(th[t])
    BY DEF Holds, HoldsOf, Engs
  <2>3. \A e \in Engines :
          Cardinality({t \in Threads : e \in Holds(t)}) = IF e \in free[DbOf[e]] THEN 0 ELSE 1
    <3> SUFFICES ASSUME NEW e \in Engines
                 PROVE  Cardinality({t \in Threads : e \in Holds(t)}) = IF e \in free[DbOf[e]] THEN 0 ELSE 1
      OBVIOUS
    <3>1. CASE e \in free[DbOf[e]]
      <4>1. {t \in Threads : e \in Holds(t)} = {}
        BY <2>1, <2>2, <3>1 DEF Owned
      <4> QED
        BY <3>1, <4>1, FS_EmptySet
    <3>2. CASE e \notin free[DbOf[e]]
      <4>1. PICK t \in Threads : e \in HoldsOf(th[t])
        BY <2>1, <3>2 DEF Owned
      <4>2. \A u \in Threads : e \in HoldsOf(th[u]) => u = t
        BY <2>1, <4>1 DEF Owned
      <4>3. {u \in Threads : e \in Holds(u)} = {t}
        BY <2>2, <4>1, <4>2
      <4>4. Cardinality({t}) = 1
        BY FS_Singleton
      <4> QED
        BY <3>2, <4>3, <4>4
    <3> QED
      BY <3>1, <3>2
  <2>4. \A t \in Threads : th[t].tls = IF th[t].frames = <<>> THEN None ELSE Top(t).eng
    BY <2>1 DEF ThreadsRight, ThreadRight, FramesRight, Top, Last
  <2> QED
    BY <2>1, <2>3, <2>4 DEF TypeOK, Owned, Clean, Dead, Types
<1> QED
  BY <1>1, BaseHolds, PTL

-----------------------------------------------------------------------------
(* Who sleeps is woken.                                                    *)

LEMMA Counted ==
  ASSUME Types
  PROVE  \A d \in Dbs : /\ IsFiniteSet(free[d]) /\ IsFiniteSet(Woken(d))
                        /\ Cardinality(free[d]) \in Nat /\ Cardinality(Woken(d)) \in Nat
<1> SUFFICES ASSUME NEW d \in Dbs
             PROVE  /\ IsFiniteSet(free[d]) /\ IsFiniteSet(Woken(d))
                    /\ Cardinality(free[d]) \in Nat /\ Cardinality(Woken(d)) \in Nat
  OBVIOUS
<1>1. IsFiniteSet(Engines) /\ IsFiniteSet(Threads)
  BY DatabaseAssumption DEF DatabaseAssumption
<1>2. free[d] \subseteq Engines /\ Woken(d) \subseteq Threads
  BY DEF Types, Woken
<1>3. IsFiniteSet(free[d]) /\ IsFiniteSet(Woken(d))
  BY <1>1, <1>2, FS_Subset
<1> QED
  BY <1>3, FS_CardinalityType

(* A step of a thread that neither slept nor was about to take a           *)
(* connection, and does not sleep now.                                     *)
LEMMA ServedKept ==
  ASSUME Types, ThreadsRight, Types', Served, NEW t \in Threads, NEW r, Steps(t, r), UNCHANGED free,
         th[t].pc \notin {"acquire", "asleep"}, r.pc # "asleep"
  PROVE  Served'
<1>1. After(t, r) /\ free' = free
  BY OneThread
<1> SUFFICES ASSUME NEW d \in Dbs, Asleep(d)' # {}
             PROVE  Cardinality(free'[d]) <= Cardinality(Woken(d)')
  BY DEF Served
<1>2. \A u \in Threads : u # t => th'[u] = th[u]
  BY <1>1 DEF After
<1>3. Asleep(d)' \subseteq Asleep(d)
  BY <1>1, <1>2 DEF Asleep, After
<1>4. Woken(d) \subseteq Woken(d)'
  BY <1>1, <1>2 DEF Woken, After
<1>5. Cardinality(free[d]) <= Cardinality(Woken(d))
  BY <1>3 DEF Served
<1>6. IsFiniteSet(Woken(d)') /\ Cardinality(Woken(d)') \in Nat
  <2>1. IsFiniteSet(Threads)
    BY DatabaseAssumption DEF DatabaseAssumption
  <2>2. Woken(d)' \subseteq Threads
    BY DEF Woken
  <2> QED
    BY <2>1, <2>2, FS_Subset, FS_CardinalityType
<1>7. Cardinality(Woken(d)) <= Cardinality(Woken(d)')
  BY <1>4, <1>6, FS_Subset
<1> QED
  BY <1>1, <1>5, <1>6, <1>7, Counted

LEMMA ServedSleeping ==
  ASSUME Types, ThreadsRight, Served, NEW t \in Threads, NEW r, Sleeps(t, r)
  PROVE  Served'
<1>1. /\ Steps(t, r) /\ th[t].pc = "acquire" /\ r.want = th[t].want /\ th[t].want.db \in Dbs
      /\ free[th[t].want.db] = {} /\ free' = free /\ r.pc = "asleep"
  BY DEF Sleeps, Turned
<1>2. After(t, r)
  BY <1>1, OneThread
<1> SUFFICES ASSUME NEW d \in Dbs, Asleep(d)' # {}
             PROVE  Cardinality(free'[d]) <= Cardinality(Woken(d)')
  BY DEF Served
<1>3. CASE d = th[t].want.db
  <2>1. Cardinality(free'[d]) = 0
    BY <1>1, <1>3, FS_EmptySet
  <2>2. Cardinality(Woken(d)') \in Nat
    <3>1. IsFiniteSet(Threads)
      BY DatabaseAssumption DEF DatabaseAssumption
    <3>2. Woken(d)' \subseteq Threads
      BY DEF Woken
    <3> QED
      BY <3>1, <3>2, FS_Subset, FS_CardinalityType
  <2> QED
    BY <2>1, <2>2
<1>4. CASE d # th[t].want.db
  <2>1. Asleep(d)' = Asleep(d) /\ Woken(d)' = Woken(d)
    BY <1>1, <1>2, <1>4 DEF Asleep, Woken, After
  <2> QED
    BY <1>1, <2>1 DEF Served
<1> QED
  BY <1>3, <1>4

LEMMA ServedTaking ==
  ASSUME Types, ThreadsRight, Owned, Served, NEW t \in Threads, NEW e, NEW r, GetsOne(t, e, r)
  PROVE  Served'
<1>1. /\ Steps(t, r) /\ th[t].pc = "acquire" /\ r.want = th[t].want /\ th[t].want.db \in Dbs
      /\ e \in free[th[t].want.db] /\ free' = [free EXCEPT ![th[t].want.db] = @ \ {e}]
      /\ r.pc \in {"begin", "stmt"}
  BY DEF GetsOne, Took
<1>2. After(t, r)
  BY <1>1, OneThread
<1> SUFFICES ASSUME NEW d \in Dbs, Asleep(d)' # {}
             PROVE  Cardinality(free'[d]) <= Cardinality(Woken(d)')
  BY DEF Served
<1>3. Asleep(d)' = Asleep(d)
  BY <1>1, <1>2 DEF Asleep, After
<1>4. Cardinality(free[d]) <= Cardinality(Woken(d))
  BY <1>3 DEF Served
<1>5. CASE d = th[t].want.db
  <2>1. free'[d] = free[d] \ {e} /\ e \in free[d]
    BY <1>1, <1>5 DEF Types
  <2>2. Woken(d)' = Woken(d) \ {t} /\ t \in Woken(d)
    BY <1>1, <1>2, <1>5 DEF Woken, After
  <2>3. Cardinality(free'[d]) = Cardinality(free[d]) - 1
    <3>1. IsFiniteSet(free[d])
      BY Counted
    <3> QED
      BY <2>1, <3>1, FS_RemoveElement
  <2>4. Cardinality(Woken(d)') = Cardinality(Woken(d)) - 1
    <3>1. IsFiniteSet(Woken(d))
      BY Counted
    <3> QED
      BY <2>2, <3>1, FS_RemoveElement
  <2> QED
    BY <1>4, <2>3, <2>4, Counted
<1>6. CASE d # th[t].want.db
  <2>1. Woken(d)' = Woken(d) /\ free'[d] = free[d]
    BY <1>1, <1>2, <1>6 DEF Woken, After, Types
  <2> QED
    BY <1>4, <2>1
<1> QED
  BY <1>5, <1>6

LEMMA ServedGiving ==
  ASSUME Types, ThreadsRight, Owned, Served, NEW t \in Threads, NEW r, GivesBack(t, r),
         \/ th' = [th EXCEPT ![t] = r] /\ Asleep(DbOf[th[t].eng]) = {}
         \/ \E u, v : Wakes(t, r, u, v)
  PROVE  Served'
<1>1. /\ r \in Thread /\ ThreadRight(r) /\ r.pc = "app" /\ th[t].pc = "release" /\ th[t].eng \in Engines
      /\ free' = [free EXCEPT ![DbOf[th[t].eng]] = @ \cup {th[t].eng}]
  BY DEF GivesBack, Gave
<1>2. DbOf[th[t].eng] \in Dbs
  BY <1>1, Constants
<1> SUFFICES ASSUME NEW d \in Dbs, Asleep(d)' # {}
             PROVE  Cardinality(free'[d]) <= Cardinality(Woken(d)')
  BY DEF Served
<1>3. CASE th' = [th EXCEPT ![t] = r] /\ Asleep(DbOf[th[t].eng]) = {}
  <2>1. After(t, r)
    BY <1>1, <1>3, OneThread DEF Steps
  <2>2. Asleep(d)' = Asleep(d) /\ Woken(d)' = Woken(d)
    BY <1>1, <2>1 DEF Asleep, Woken, After
  <2>3. d # DbOf[th[t].eng]
    BY <1>3, <2>2
  <2>4. free'[d] = free[d]
    BY <1>1, <2>3 DEF Types
  <2> QED
    BY <2>2, <2>4 DEF Served
<1>4. CASE \E u, v : Wakes(t, r, u, v)
  <2>1. PICK u, v : Wakes(t, r, u, v)
    BY <1>4
  <2>2. AfterBoth(t, r, u, v)
    BY <2>1, TwoThreads
  <2>3. /\ u \in Threads /\ u # t /\ th[u].pc = "asleep" /\ th[u].want.db = DbOf[th[t].eng]
        /\ v.pc = "acquire" /\ v.want = th[u].want
    BY <2>1 DEF Wakes, Turned
  <2>4. Asleep(d)' \subseteq Asleep(d)
    BY <1>1, <2>2, <2>3 DEF Asleep, AfterBoth
  <2>5. Cardinality(free[d]) <= Cardinality(Woken(d))
    BY <2>4 DEF Served
  <2>6. CASE d = DbOf[th[t].eng]
    <3>1. free'[d] = free[d] \cup {th[t].eng}
      BY <1>1, <2>6 DEF Types
    <3>2. Woken(d)' = Woken(d) \cup {u} /\ u \notin Woken(d)
      BY <1>1, <2>2, <2>3, <2>6 DEF Woken, AfterBoth
    <3>3. Cardinality(free'[d]) <= Cardinality(free[d]) + 1
      <4>1. Cardinality(free[d] \cup {th[t].eng}) = Cardinality(free[d])
            \/ Cardinality(free[d] \cup {th[t].eng}) = Cardinality(free[d]) + 1
        BY Counted, FS_AddElement
      <4> QED
        BY <3>1, <4>1, Counted
    <3>4. Cardinality(Woken(d)') = Cardinality(Woken(d)) + 1
      BY <3>2, Counted, FS_AddElement
    <3>5. Cardinality(free'[d]) \in Nat
      BY <3>1, Counted, FS_AddElement, FS_CardinalityType
    <3> QED
      BY <2>5, <3>3, <3>4, <3>5, Counted
  <2>7. CASE d # DbOf[th[t].eng]
    <3>1. free'[d] = free[d] /\ Woken(d)' = Woken(d)
      BY <1>1, <2>2, <2>3, <2>7 DEF Woken, AfterBoth, Types
    <3> QED
      BY <2>5, <3>1
  <2> QED
    BY <2>6, <2>7
<1> QED
  BY <1>3, <1>4

LEMMA ServedAfter ==
  ASSUME Types, ThreadsRight, Owned, Types', Served, NEW t \in Threads, Does(t)
  PROVE  Served'
<1>1. ASSUME NEW r, AppMove(t, r) \/ Reads1(t, r) \/ Begins(t, r) \/ NotBegun(t, r) PROVE Served'
  <2>1. Steps(t, r) /\ UNCHANGED free /\ th[t].pc \notin {"acquire", "asleep"} /\ r.pc # "asleep"
    BY <1>1 DEF AppMove, Reads1, Begins, NotBegun, Steps, AtStmt, EndedRight, Opened, LeavesFields
  <2> QED
    BY <2>1, ServedKept
<1>2. ASSUME NEW s, NEW r, WritesOne(t, s, r) \/ FailsOne(t, s, r) \/ RollsBack(t, s, r) PROVE Served'
  <2>1. Steps(t, r) /\ UNCHANGED free /\ th[t].pc \notin {"acquire", "asleep"} /\ r.pc # "asleep"
    BY <1>2 DEF WritesOne, FailsOne, RollsBack, AtStmt, EndedRight, LeavesFields
  <2> QED
    BY <2>1, ServedKept
<1>3. ASSUME NEW r, Commits(t, r) \/ Throws(t, r) \/ Loses(t, r) PROVE Served'
  <2>1. Steps(t, r) /\ UNCHANGED free /\ th[t].pc \notin {"acquire", "asleep"} /\ r.pc # "asleep"
    BY <1>3 DEF Commits, Throws, Loses, Ends
  <2> QED
    BY <2>1, ServedKept
<1> QED
  BY <1>1, <1>2, <1>3, ServedSleeping, ServedTaking, ServedGiving, Zenon DEF Does

(* For each free connection of a database a thread is awake to take it,    *)
(* while anybody sleeps: notify_one (pool.h, release_) wakes one for each. *)
THEOREM ServedHolds == Spec => []Served
<1>1. Init => Served
  <2>1. Init => \A t \in Threads : th[t].pc = "app"
    BY DEF Init
  <2> QED
    BY <2>1 DEF Served, Asleep
<1>2. Base /\ Base' /\ Served /\ [Next]_vars => Served'
  <2> SUFFICES ASSUME Base, Base', Served, [Next]_vars PROVE Served'
    OBVIOUS
  <2>1. Types /\ ThreadsRight /\ Owned /\ Types'
    BY DEF Base
  <2>2. CASE Next
    BY <2>1, <2>2, EveryStep, ServedAfter
  <2>3. CASE UNCHANGED vars
    BY <2>3 DEF Served, vars, Asleep, Woken
  <2> QED
    BY <2>2, <2>3
<1> QED
  BY <1>1, <1>2, BaseHolds, PTL DEF Spec

(* A thread sleeps for a connection only while none is free or another     *)
(* thread is about to take the one that is: a release (pool.h, notify_one) *)
(* is never lost, for any number of threads and connections.               *)
THEOREM Waiters == Spec => []WaitersServed
<1>1. Base /\ Served => WaitersServed
  <2> SUFFICES ASSUME Base, Served, NEW d \in Dbs, free[d] # {}, Asleep(d) # {}
               PROVE  \E t \in Threads : th[t].pc = "acquire" /\ th[t].want.db = d
    BY DEF WaitersServed
  <2>1. Types
    BY DEF Base
  <2>2. Cardinality(free[d]) # 0
    BY <2>1, Counted, FS_EmptySet
  <2>3. Cardinality(Woken(d)) # 0
    BY <2>1, <2>2, Counted DEF Served
  <2>4. Woken(d) # {}
    BY <2>3, FS_EmptySet
  <2> QED
    BY <2>4 DEF Woken
<1> QED
  BY <1>1, BaseHolds, ServedHolds, PTL

-----------------------------------------------------------------------------
(* Rows hold what was meant to be saved.                                   *)

(* What is committed or written is what was, or comes of one statement.    *)
Flow(t) ==
  /\ \A d \in Dbs : \/ store'[d] = store[d]
                    \/ \E e \in Engines : conn[e].wrote # None /\ store'[d] = conn[e].wrote
                    \/ \E s, r : WritesOne(t, s, r) /\ store'[d] = s
  /\ \A e \in Engines : \/ conn'[e].wrote \in {None, conn[e].wrote}
                        \/ \E s, r : WritesOne(t, s, r) /\ conn'[e].wrote = s

LEMMA FlowOf ==
  ASSUME Types, ThreadsRight, NEW t \in Threads, Does(t)
  PROVE  Flow(t)
<1>0. Fresh.wrote = None /\ Dead.wrote = None
  BY DEF Fresh, Dead
<1>1. ASSUME UNCHANGED <<store, conn>> PROVE Flow(t)
  BY <1>1 DEF Flow
<1>2. ASSUME NEW r, AppMove(t, r) \/ Sleeps(t, r) \/ GivesBack(t, r) \/ Reads1(t, r) \/ NotBegun(t, r) \/ Throws(t, r)
      PROVE  UNCHANGED <<store, conn>>
  BY <1>2 DEF AppMove, Sleeps, GivesBack, Reads1, NotBegun, Throws
<1>3. ASSUME NEW e, NEW r, GetsOne(t, e, r) PROVE UNCHANGED <<store, conn>>
  BY <1>3 DEF GetsOne
<1>4. ASSUME NEW e, NEW c, Touches(t, e, c), c.wrote \in {None, conn[e].wrote} \/ \E s, r : WritesOne(t, s, r) /\ c.wrote = s
      PROVE  \A f \in Engines : \/ conn'[f].wrote \in {None, conn[f].wrote}
                                \/ \E s, r : WritesOne(t, s, r) /\ conn'[f].wrote = s
  <2>1. conn'[e] = c /\ \A f \in Engines \ {e} : conn'[f] = conn[f]
    BY <1>4 DEF Touches, Types
  <2> QED
    BY <1>4, <2>1
<1>5. ASSUME NEW s, NEW r, WritesOne(t, s, r) PROVE Flow(t)
  <2>1. PICK c : /\ Touches(t, th[t].eng, c)
                 /\ AtOnce(t) => c = Fresh
                 /\ ~AtOnce(t) => c = [conn[th[t].eng] EXCEPT !.wrote = s]
    BY <1>5, WriteTouches
  <2>2. UNCHANGED store \/ store' = [store EXCEPT ![DbOf[th[t].eng]] = s]
    BY <1>5 DEF WritesOne
  <2>3. conn[th[t].eng] \in Conns
    BY <1>5 DEF WritesOne, AtStmt
  <2>4. c.wrote = None \/ c.wrote = s
    BY <1>0, <2>1, <2>3 DEF Conns
  <2>5. \A f \in Engines : conn'[f].wrote \in {None, conn[f].wrote} \/ \E w, x : WritesOne(t, w, x) /\ conn'[f].wrote = w
    BY <1>4, <1>5, <2>1, <2>4
  <2>6. \A d \in Dbs : store'[d] = store[d] \/ store'[d] = s
    BY <2>2 DEF Types
  <2> QED
    BY <1>5, <2>5, <2>6 DEF Flow
<1>6. ASSUME NEW e, NEW c, Touches(t, e, c), c.wrote \in {None, conn[e].wrote}, UNCHANGED store PROVE Flow(t)
  BY <1>4, <1>6 DEF Flow
<1>7. ASSUME NEW c, NEW r, FailsOne(t, c, r) PROVE Flow(t)
  <2>1. th[t].eng \in Engines /\ c \in {Failed(th[t].eng), Dead} /\ UNCHANGED store
    BY <1>7 DEF FailsOne, AtStmt
  <2>2. c.wrote \in {None, conn[th[t].eng].wrote}
    BY <1>0, <2>1, FailedIs
  <2> QED
    BY <1>6, <1>7, <2>1, <2>2, FailTouches
<1>8. ASSUME NEW r, Begins(t, r) PROVE Flow(t)
  <2>1. PICK c : Touches(t, th[t].eng, c) /\ c = [conn[th[t].eng] EXCEPT !.open = TRUE]
    BY <1>8, BeginTouches
  <2>2. UNCHANGED store /\ th[t].eng \in Engines
    BY <1>8 DEF Begins
  <2>3. c.wrote = conn[th[t].eng].wrote
    BY <2>1, <2>2 DEF Types, Conns
  <2> QED
    BY <1>6, <2>1, <2>2, <2>3
<1>9. ASSUME NEW c, NEW r, RollsBack(t, c, r) PROVE Flow(t)
  <2>1. UNCHANGED store /\ c.wrote \in {None, conn[th[t].eng].wrote}
    BY <1>0, <1>9 DEF RollsBack
  <2> QED
    BY <1>6, <1>9, <2>1, RollbackTouches
<1>10. ASSUME NEW r, Commits(t, r) \/ Loses(t, r) PROVE Flow(t)
  <2>1. PICK c : Touches(t, th[t].tls, c) /\ c.wrote = None
    BY <1>0, <1>10, EndTouches
  <2>2. \/ UNCHANGED store
        \/ /\ conn[th[t].tls].wrote # None
           /\ store' = [store EXCEPT ![DbOf[th[t].tls]] = conn[th[t].tls].wrote]
    BY <1>10 DEF Commits, Loses
  <2>3. th[t].tls \in Engines
    BY <2>1 DEF Touches
  <2>4. \A d \in Dbs : \/ store'[d] = store[d]
                       \/ conn[th[t].tls].wrote # None /\ store'[d] = conn[th[t].tls].wrote
    BY <2>2 DEF Types
  <2> QED
    BY <1>4, <2>1, <2>3, <2>4 DEF Flow
<1> QED
  BY <1>1, <1>2, <1>3, <1>5, <1>7, <1>8, <1>9, <1>10, Zenon DEF Does

LEMMA WrittenHonest ==
  ASSUME NEW q \in Stmts, NEW s \in States, Honest(s), q.op \in StmtOps \ Reads, WantRight(q)
  PROVE  Honest(Written(q, s))
<1>1. /\ s.rows \subseteq Rows /\ \A r \in s.rows : HonestRow(r)
  BY DEF States, Honest
<1>2. q.op \in {"log", "insert", "update", "delete", "table", "up", "down", "record", "unrecord"}
  BY DEF StmtOps, Reads
<1>3. CASE q.op = "insert"
  <2>1. PICK row : row = [id |-> q.n, key |-> q.key, val |-> q.val, meant |-> q.val]
    OBVIOUS
  <2>2. HonestRow(row)
    BY <2>1 DEF HonestRow
  <2>3. Written(q, s) = [s EXCEPT !.rows = s.rows \cup {row}]
    BY <1>3, <2>1 DEF Written
  <2>4. Written(q, s).rows = s.rows \cup {row}
    BY <2>3 DEF States
  <2> QED
    BY <1>1, <2>2, <2>4 DEF Honest
<1>4. CASE q.op = "update"
  <2> DEFINE new(r) == IF Matches(r, q)
                       THEN [r EXCEPT !.val = Assign(r.val, q.cols, q.val),
                                      !.meant = Assign(r.meant, q.meant, q.val)]
                       ELSE r
  <2>1. ASSUME NEW r \in Rows, HonestRow(r) PROVE HonestRow(new(r))
    <3> SUFFICES ASSUME Matches(r, q) PROVE HonestRow(new(r))
      BY <2>1
    <3>1. PICK w : w = Assign(r.val, q.cols, q.val)
      OBVIOUS
    <3>2. PICK v : v = Assign(r.meant, q.meant, q.val)
      OBVIOUS
    <3>3. new(r) = [r EXCEPT !.val = w, !.meant = v]
      BY <3>1, <3>2
    <3>4. new(r).val = w /\ new(r).meant = v /\ new(r).id = r.id
      BY <3>3 DEF Rows
    <3>5. q.id # 0 => r.id = q.id
      BY DEF Matches
    <3>6. \A c \in Columns : /\ w[c] = IF c \in q.cols THEN q.val[c] ELSE r.val[c]
                             /\ v[c] = IF c \in q.meant THEN q.val[c] ELSE r.meant[c]
      BY <3>1, <3>2 DEF Assign
    <3>7. \A c \in Columns : w[c] # v[c] => c \in CreateSets /\ w[c] = r.id
      BY <1>4, <2>1, <3>5, <3>6 DEF HonestRow, WantRight
    <3> HIDE DEF new
    <3> QED
      BY <3>4, <3>7 DEF HonestRow
  <2>2. Written(q, s) = [s EXCEPT !.rows = {new(r) : r \in s.rows}]
    BY <1>4, Zenon DEF Written
  <2> HIDE DEF new
  <2>3. Written(q, s).rows = {new(r) : r \in s.rows}
    BY <2>2 DEF States
  <2> QED
    BY <1>1, <2>1, <2>3 DEF Honest
<1>5. CASE q.op = "delete"
  <2>1. Written(q, s) = [s EXCEPT !.rows = {r \in s.rows : ~Matches(r, q)}]
    BY <1>5 DEF Written
  <2>2. Written(q, s).rows = {r \in s.rows : ~Matches(r, q)}
    BY <2>1 DEF States
  <2> QED
    BY <1>1, <2>2 DEF Honest
<1>6. CASE q.op \in {"log", "table", "up", "down", "record", "unrecord"}
  <2>1. /\ q.op = "log" => Written(q, s) = [s EXCEPT !.log = s.log \cup {q.n}]
        /\ q.op = "table" => Written(q, s) = s
    BY DEF Written
  <2>2. /\ q.op = "up" => \E w : Written(q, s) = [s EXCEPT !.ran = w]
        /\ q.op = "down" => \E w : Written(q, s) = [s EXCEPT !.undone = w]
    BY DEF Written
  <2>3. /\ q.op = "record" => Written(q, s) = [s EXCEPT !.recorded = @ \cup {q.n}]
        /\ q.op = "unrecord" => \E w : Written(q, s) = [s EXCEPT !.recorded = s.recorded \ {q.n}, !.taken = w]
    BY DEF Written
  <2>4. Written(q, s).rows = s.rows
    BY <1>6, <2>1, <2>2, <2>3 DEF States
  <2> QED
    BY <1>1, <2>4 DEF Honest
<1> QED
  BY <1>2, <1>3, <1>4, <1>5, <1>6

LEMMA WantsAfter ==
  ASSUME Types, ThreadsRight, Stamped, NEW t \in Threads, Does(t),
         \A u \in Threads : WantRight(th[u].want)
  PROVE  \A u \in Threads : WantRight(th'[u].want)
<1> DEFINE G == \A u \in Threads : WantRight(th'[u].want)
<1>1. ASSUME NEW r, Steps(t, r), WantRight(r.want) PROVE G
  <2>1. After(t, r)
    BY <1>1, OneThread
  <2> QED
    BY <1>1, <2>1 DEF After
<1>2. ASSUME NEW r, AppMove(t, r) \/ Sleeps(t, r) \/ Reads1(t, r) \/ NotBegun(t, r) \/ Begins(t, r)
      PROVE  G
  <2>1. Steps(t, r) /\ WantRight(r.want)
    BY <1>2 DEF AppMove, Sleeps, Reads1, NotBegun, Begins, Steps, Turned, EndedRight, LeavesFields, Opened
  <2> QED
    BY <1>1, <2>1
<1>3. ASSUME NEW s, NEW r, WritesOne(t, s, r) \/ FailsOne(t, s, r) \/ RollsBack(t, s, r) \/ GetsOne(t, s, r)
      PROVE  G
  <2>1. Steps(t, r) /\ WantRight(r.want)
    BY <1>3 DEF WritesOne, FailsOne, RollsBack, GetsOne, EndedRight, LeavesFields, Took
  <2> QED
    BY <1>1, <2>1
<1>4. ASSUME NEW r, Commits(t, r) \/ Throws(t, r) \/ Loses(t, r) PROVE G
  <2>1. Steps(t, r) /\ WantRight(r.want)
    BY <1>4 DEF Commits, Throws, Loses, Ends, Closed
  <2> QED
    BY <1>1, <2>1
<1>5. ASSUME NEW r, GivesBack(t, r), th' = [th EXCEPT ![t] = r] PROVE G
  <2>1. Steps(t, r) /\ WantRight(r.want)
    BY <1>5 DEF GivesBack, Gave, Steps
  <2> QED
    BY <1>1, <2>1
<1>6. ASSUME NEW r, NEW u, NEW v, GivesBack(t, r), Wakes(t, r, u, v) PROVE G
  <2>1. AfterBoth(t, r, u, v)
    BY <1>6, TwoThreads
  <2>2. WantRight(r.want) /\ v.want = th[u].want /\ u \in Threads
    BY <1>6 DEF GivesBack, Gave, Wakes, Turned
  <2> QED
    BY <2>1, <2>2 DEF AfterBoth
<1> HIDE DEF G
<1>7. G
  BY <1>2, <1>3, <1>4, <1>5, <1>6, Zenon DEF Does
<1> QED
  BY <1>7 DEF G

LEMMA RowsAfter ==
  ASSUME Types, ThreadsRight, Stamped, RowsHonest, NEW t \in Threads, Does(t)
  PROVE  RowsHonest'
<1>1. ASSUME NEW s, NEW r, WritesOne(t, s, r) PROVE Honest(s)
  <2>1. /\ s = Written(th[t].want, Sees(th[t].eng)) /\ th[t].want \in Stmts /\ Sees(th[t].eng) \in States
        /\ th[t].want.op \in StmtOps \ Reads /\ th[t].eng \in Engines
    BY <1>1 DEF WritesOne, AtStmt
  <2>2. Honest(Sees(th[t].eng))
    BY <2>1, Constants DEF RowsHonest, Sees
  <2>3. WantRight(th[t].want)
    BY DEF RowsHonest
  <2> QED
    BY <2>1, <2>2, <2>3, WrittenHonest
<1>2. Flow(t)
  BY FlowOf
<1>3. \A d \in Dbs : Honest(store'[d])
  <2> SUFFICES ASSUME NEW d \in Dbs PROVE Honest(store'[d])
    OBVIOUS
  <2>1. CASE store'[d] = store[d]
    BY <2>1 DEF RowsHonest
  <2>2. CASE \E e \in Engines : conn[e].wrote # None /\ store'[d] = conn[e].wrote
    BY <2>2 DEF RowsHonest
  <2>3. CASE \E s, r : WritesOne(t, s, r) /\ store'[d] = s
    BY <1>1, <2>3
  <2> QED
    BY <1>2, <2>1, <2>2, <2>3 DEF Flow
<1>4. \A e \in Engines : conn'[e].wrote # None => Honest(conn'[e].wrote)
  <2> SUFFICES ASSUME NEW e \in Engines, conn'[e].wrote # None PROVE Honest(conn'[e].wrote)
    OBVIOUS
  <2>1. CASE conn'[e].wrote = conn[e].wrote
    BY <2>1 DEF RowsHonest
  <2>2. CASE \E s, r : WritesOne(t, s, r) /\ conn'[e].wrote = s
    BY <1>1, <2>2
  <2> QED
    BY <1>2, <2>1, <2>2 DEF Flow
<1>5. \A u \in Threads : WantRight(th'[u].want)
  BY WantsAfter DEF RowsHonest
<1> QED
  BY <1>3, <1>4, <1>5 DEF RowsHonest, Honest

(* Where every table has an updated_at column, every column of a row holds *)
(* what was last meant to be saved in it, or what create() has set there   *)
(* and its record has written back (model_impl.h:45): Model::save never    *)
(* writes back what a record had loaded.                                   *)
THEOREM OnlyDirty ==
  ASSUME Stamped
  PROVE  Spec => []SavesOnlyDirty
<1>1. Init => RowsHonest
  <2> SUFFICES ASSUME Init PROVE RowsHonest
    OBVIOUS
  <2>1. /\ \A d \in Dbs : store[d] = Empty
        /\ \A e \in Engines : conn[e].wrote = None
        /\ \A t \in Threads : th[t].want = NoStmt
    BY DEF Init, Fresh
  <2>2. Honest(Empty)
    BY DEF Honest, Empty
  <2> QED
    BY <2>1, <2>2, NoWant DEF RowsHonest
<1>2. Base /\ RowsHonest /\ [Next]_vars => RowsHonest'
  <2> SUFFICES ASSUME Base, RowsHonest, [Next]_vars PROVE RowsHonest'
    OBVIOUS
  <2>1. Types /\ ThreadsRight /\ Owned
    BY DEF Base
  <2>2. CASE Next
    BY <2>1, <2>2, EveryStep, RowsAfter
  <2>3. CASE UNCHANGED vars
    BY <2>3 DEF RowsHonest, vars
  <2> QED
    BY <2>2, <2>3
<1>3. RowsHonest => SavesOnlyDirty
  BY DEF RowsHonest, SavesOnlyDirty, Honest, HonestRow
<1> QED
  BY <1>1, <1>2, <1>3, BaseHolds, PTL DEF Spec

-----------------------------------------------------------------------------
(* What a step leaves of the other threads' transactions.                  *)

Untouched(u) ==
  /\ th'[u].frames = th[u].frames /\ th'[u].tls = th[u].tls
  /\ Ups(th'[u]) = Ups(th[u]) /\ Downs(th'[u]) = Downs(th[u])
  /\ Broken(th'[u]) <=> Broken(th[u])
  /\ \A k \in DOMAIN th[u].frames : conn'[th[u].frames[k].eng] = conn[th[u].frames[k].eng]

LEMMA OthersUntouched ==
  ASSUME Types, ThreadsRight, Owned, NEW t \in Threads, Does(t), NEW u \in Threads, u # t
  PROVE  Untouched(u)
<1>1. \A k \in DOMAIN th[u].frames : conn'[th[u].frames[k].eng] = conn[th[u].frames[k].eng]
  <2> SUFFICES ASSUME NEW k \in DOMAIN th[u].frames PROVE conn'[th[u].frames[k].eng] = conn[th[u].frames[k].eng]
    OBVIOUS
  <2>1. th[u].frames[k].eng \in Engines /\ th[u].frames[k].eng \in HoldsOf(th[u])
    <3>1. th[u].frames \in Seq(Frames)
      BY DEF Types, Thread
    <3>2. th[u].frames[k] \in Frames
      BY <3>1
    <3> QED
      BY <3>2 DEF Frames, HoldsOf, Engs
  <2>2. CASE UNCHANGED conn
    BY <2>2
  <2>3. CASE \E e, c : Touches(t, e, c)
    <3>1. PICK e, c : Touches(t, e, c)
      BY <2>3
    <3>2. th[u].frames[k].eng # e
      BY <2>1, <3>1, OthersConns
    <3> QED
      BY <2>1, <3>1, <3>2, OthersConns
  <2> QED
    BY <2>2, <2>3, ConnAfter DEF TouchesOne
<1>2. CASE th'[u] = th[u]
  BY <1>1, <1>2 DEF Untouched
<1>3. CASE \E r, v : GivesBack(t, r) /\ Wakes(t, r, u, v)
  <2>1. PICK r, v : GivesBack(t, r) /\ Wakes(t, r, u, v)
    BY <1>3
  <2>2. th'[u] = v
    BY <2>1, TwoThreads DEF AfterBoth
  <2>3. /\ v.frames = th[u].frames /\ v.tls = th[u].tls /\ v.err = th[u].err /\ th[u].pc = "asleep"
        /\ Ups(v) = Ups(th[u]) /\ Downs(v) = Downs(th[u])
    BY <2>1 DEF Wakes, Turned
  <2>4. ~th[u].err
    BY <2>3 DEF ThreadsRight, ThreadRight, TxRight
  <2> QED
    BY <1>1, <2>2, <2>3, <2>4 DEF Untouched, Broken
<1>4. th'[u] = th[u] \/ \E r, v : GivesBack(t, r) /\ Wakes(t, r, u, v)
  <2>1. ASSUME NEW r, Steps(t, r) PROVE th'[u] = th[u]
    BY <2>1, OneThread DEF After
  <2>2. ASSUME NEW r, Gives1(t, r) PROVE th'[u] = th[u] \/ \E v : GivesBack(t, r) /\ Wakes(t, r, u, v)
    <3>1. CASE th' = [th EXCEPT ![t] = r]
      BY <2>1, <2>2, <3>1 DEF Gives1, GivesBack, Steps
    <3>2. CASE \E w, v : Wakes(t, r, w, v)
      <4>1. PICK w, v : Wakes(t, r, w, v)
        BY <3>2
      <4>2. AfterBoth(t, r, w, v) /\ GivesBack(t, r)
        BY <2>2, <4>1, TwoThreads DEF Gives1
      <4> QED
        BY <4>1, <4>2 DEF AfterBoth
    <3> QED
      BY <2>2, <3>1, <3>2 DEF Gives1
  <2> QED
    BY <2>1, <2>2, Kinds, Zenon DEF Holding, GetsOne
<1> QED
  BY <1>2, <1>3, <1>4

(* The frames of the thread itself are of different connections.           *)
LEMMA OwnConns ==
  ASSUME Types, ThreadsRight, NEW t \in Threads, NEW e, NEW c, Touches(t, e, c), NEW k \in DOMAIN th[t].frames
  PROVE  /\ th[t].frames[k].eng \in Engines /\ th[t].frames[k] \in Frames
         /\ th[t].frames[k].eng # e => conn'[th[t].frames[k].eng] = conn[th[t].frames[k].eng]
         /\ th[t].frames[k].eng = e => conn'[th[t].frames[k].eng] = c
         /\ e = th[t].tls => (th[t].frames[k].eng = e <=> k = Len(th[t].frames))
         /\ e \notin Engs(th[t]) => th[t].frames[k].eng # e
<1>1. th[t].frames[k] \in Frames /\ th[t].frames[k].eng \in Engines
  <2>1. th[t].frames \in Seq(Frames)
    BY DEF Types, Thread
  <2>2. th[t].frames[k] \in Frames
    BY <2>1
  <2> QED
    BY <2>2 DEF Frames
<1>2. conn' = [conn EXCEPT ![e] = c] /\ e \in Engines
  BY DEF Touches
<1>3. conn'[e] = c /\ \A f \in Engines : f # e => conn'[f] = conn[f]
  BY <1>2 DEF Types
<1>4. th[t].frames # <<>>
  OBVIOUS
<1>5. th[t].tls = th[t].frames[Len(th[t].frames)].eng /\ Len(th[t].frames) \in DOMAIN th[t].frames /\ FramesRight(th[t])
  BY <1>4, TopFrame DEF Types, ThreadsRight, ThreadRight
<1>6. e = th[t].tls => (th[t].frames[k].eng = e <=> k = Len(th[t].frames))
  BY <1>5 DEF FramesRight
<1>7. e \notin Engs(th[t]) => th[t].frames[k].eng # e
  BY DEF Engs
<1> QED
  BY <1>1, <1>3, <1>6, <1>7

(* The dialect stays, and so do the entries and what is noted of them.     *)
Lasting ==
  /\ dialect' = dialect
  /\ \A i \in DOMAIN tx : /\ i \in DOMAIN tx'
                          /\ tx[i].schema => tx'[i].schema
                          /\ tx[i].swallowed => tx'[i].swallowed

LEMMA DialectStays ==
  ASSUME Types, ThreadsRight, NEW t \in Threads, Does(t)
  PROVE  dialect' = dialect
<1>1. ASSUME NEW r, AppMove(t, r) \/ Sleeps(t, r) \/ GivesBack(t, r) \/ Reads1(t, r) \/ NotBegun(t, r) \/ Begins(t, r)
                    \/ Commits(t, r) \/ Throws(t, r) \/ Loses(t, r)
      PROVE  dialect' = dialect
  BY <1>1 DEF AppMove, Sleeps, GivesBack, Reads1, NotBegun, Begins, Commits, Throws, Loses, Ends
<1>2. ASSUME NEW s, NEW r, WritesOne(t, s, r) \/ FailsOne(t, s, r) \/ RollsBack(t, s, r) \/ GetsOne(t, s, r)
      PROVE  dialect' = dialect
  BY <1>2 DEF WritesOne, FailsOne, RollsBack, GetsOne
<1> QED
  BY <1>1, <1>2, Zenon DEF Does

(* The end of a transaction leaves what was done in it. *)
LEMMA EndEntries ==
  ASSUME Types, ThreadsRight, Entered, NEW t \in Threads, NEW out \in {"returned", "threw", "unknown"}, NEW r,
         Ends(t, out, r)
  PROVE  /\ th[t].frames # <<>> /\ DOMAIN tx' = DOMAIN tx
         /\ \A i \in DOMAIN tx : /\ tx'[i].did = tx[i].did /\ tx'[i].schema = tx[i].schema
                                 /\ tx'[i].swallowed = tx[i].swallowed
                                 /\ i # Top(t).x => tx'[i].out = tx[i].out
                                 /\ i = Top(t).x => tx'[i].out = out
<1>1. Len(r.frames) = Len(th[t].frames) - 1 /\ r \in Thread /\ th[t].frames \in Seq(Frames)
  BY DEF Ends, Closed, Types, Thread
<1>2. Len(r.frames) \in Nat /\ r.frames \in Seq(Frames)
  BY <1>1 DEF Thread
<1>3. th[t].frames # <<>>
  BY <1>1, <1>2
<1>4. Top(t).x \in DOMAIN tx /\ tx[Top(t).x] \in Ledger
  BY <1>3, TopEntry
<1>5. PICK x, y : x = Top(t).x /\ y = [tx[x] EXCEPT !.out = out]
  OBVIOUS
<1>6. tx' = [tx EXCEPT ![x] = y]
  BY <1>5 DEF Ends
<1>7. y \in Ledger /\ y.out = out /\ y.did = tx[x].did /\ y.schema = tx[x].schema /\ y.swallowed = tx[x].swallowed
  BY <1>4, <1>5 DEF Ledger
<1>8. DOMAIN tx' = DOMAIN tx /\ \A i \in DOMAIN tx : tx'[i] = IF i = x THEN y ELSE tx[i]
  BY <1>6, <1>7, SetEntry DEF Types
<1> QED
  BY <1>3, <1>5, <1>7, <1>8

LEMMA BeginEntries ==
  ASSUME Types, NEW t \in Threads, NEW r, Begins(t, r)
  PROVE  /\ Len(tx) + 1 \in DOMAIN tx' /\ DOMAIN tx' = DOMAIN tx \cup {Len(tx) + 1} /\ Len(tx) + 1 \notin DOMAIN tx
         /\ tx'[Len(tx) + 1] = [out |-> "open", did |-> {}, swallowed |-> FALSE, schema |-> FALSE]
         /\ \A i \in DOMAIN tx : tx'[i] = tx[i]
<1>1. PICK y : y = [out |-> "open", did |-> {}, swallowed |-> FALSE, schema |-> FALSE]
  OBVIOUS
<1>2. tx' = Append(tx, y) /\ tx \in Seq(Ledger)
  BY <1>1 DEF Begins, Types
<1>3. y \in Ledger
  BY <1>1 DEF Ledger
<1>4. /\ DOMAIN tx = 1 .. Len(tx) /\ DOMAIN tx' = 1 .. Len(tx) + 1 /\ Len(tx) \in Nat
      /\ tx'[Len(tx) + 1] = y /\ \A i \in DOMAIN tx : tx'[i] = tx[i]
  BY <1>2, <1>3
<1>5. 1 .. Len(tx) + 1 = 1 .. Len(tx) \cup {Len(tx) + 1}
  BY <1>4
<1> QED
  BY <1>1, <1>4, <1>5

LEMMA QuietNotes ==
  ASSUME Types, ThreadsRight, Entered, NEW t \in Threads, NEW ok \in BOOLEAN, NEW y, Notes(t, ok, y)
  PROVE  /\ DOMAIN tx' = DOMAIN tx
         /\ \A i \in DOMAIN tx : tx'[i] = IF th[t].frames # <<>> /\ i = Top(t).x THEN y ELSE tx[i]
         /\ th[t].frames # <<>> => Top(t).x \in DOMAIN tx /\ y \in Ledger
<1>1. CASE th[t].frames = <<>>
  BY <1>1 DEF Notes
<1>2. CASE th[t].frames # <<>>
  <2>1. Top(t).x \in DOMAIN tx
    BY <1>2, TopEntry
  <2>2. tx' = [tx EXCEPT ![Top(t).x] = y] /\ y \in Ledger
    BY <1>2, <2>1 DEF Notes
  <2> QED
    BY <1>2, <2>1, <2>2, SetEntry DEF Types
<1> QED
  BY <1>1, <1>2

LEMMA LastingEntries ==
  ASSUME Types, ThreadsRight, Entered, NEW t \in Threads, Does(t)
  PROVE  Lasting
<1>1. CASE Quiet(t)
  <2>1. CASE tx' = tx
    BY <2>1, DialectStays DEF Lasting
  <2>2. CASE \E ok, y : ok \in BOOLEAN /\ Notes(t, ok, y)
    <3>1. PICK ok, y : ok \in BOOLEAN /\ Notes(t, ok, y)
      BY <2>2
    <3>2. /\ DOMAIN tx' = DOMAIN tx
          /\ \A i \in DOMAIN tx : tx'[i] = IF th[t].frames # <<>> /\ i = Top(t).x THEN y ELSE tx[i]
      BY <3>1, QuietNotes
    <3>3. th[t].frames # <<>> => /\ tx[Top(t).x].schema => y.schema
                                 /\ tx[Top(t).x].swallowed => y.swallowed
      BY <3>1, QuietNotes DEF Notes
    <3> QED
      BY <3>2, <3>3, DialectStays DEF Lasting
  <2> QED
    BY <1>1, <2>1, <2>2 DEF Quiet
<1>2. CASE \E r : Begins(t, r)
  BY <1>2, BeginEntries, DialectStays DEF Lasting
<1>3. CASE \E out, r : out \in {"returned", "threw", "unknown"} /\ Ends(t, out, r)
  BY <1>3, EndEntries, DialectStays DEF Lasting
<1> QED
  BY <1>1, <1>2, <1>3, EntriesAfter

-----------------------------------------------------------------------------
(* The transactions of frames are open.                                    *)

ExemptNext(i) == dialect' = "Mysql" /\ tx'[i].schema

OpenNext(f) == conn'[f.eng].open \/ conn'[f.eng].dead \/ ExemptNext(f.x)

LEMMA OpenKept ==
  ASSUME Types, ThreadsRight, Owned, Entered, FramesOpen, NEW t \in Threads, Does(t),
         \A k \in DOMAIN th'[t].frames : OpenNext(th'[t].frames[k])
  PROVE  FramesOpen'
<1>1. ASSUME NEW u \in Threads, u # t, NEW k \in DOMAIN th'[u].frames PROVE OpenNext(th'[u].frames[k])
  <2>1. /\ th'[u].frames = th[u].frames
        /\ \A j \in DOMAIN th[u].frames : conn'[th[u].frames[j].eng] = conn[th[u].frames[j].eng]
    BY <1>1, OthersUntouched DEF Untouched
  <2>2. OpenFrame(th[u].frames[k]) /\ th[u].frames[k].x \in DOMAIN tx
    BY <2>1 DEF FramesOpen, Entered
  <2>3. Lasting
    BY LastingEntries
  <2> QED
    BY <2>1, <2>2, <2>3 DEF OpenFrame, Exempt, OpenNext, ExemptNext, Lasting
<1> QED
  BY <1>1 DEF FramesOpen, OpenFrame, Exempt, OpenNext, ExemptNext

LEMMA OpenAfter ==
  ASSUME Types, ThreadsRight, Owned, Entered, Clean, FramesOpen, NEW t \in Threads, Does(t)
  PROVE  FramesOpen'
<1> DEFINE G == \A k \in DOMAIN th'[t].frames : OpenNext(th'[t].frames[k])
<1>0. Lasting
  BY LastingEntries
<1>1. ASSUME NEW k \in DOMAIN th[t].frames
      PROVE  OpenFrame(th[t].frames[k]) /\ th[t].frames[k].x \in DOMAIN tx
  BY DEF FramesOpen, Entered
<1>2. ASSUME NEW k \in DOMAIN th[t].frames, conn'[th[t].frames[k].eng] = conn[th[t].frames[k].eng]
      PROVE  OpenNext(th[t].frames[k])
  BY <1>0, <1>1, <1>2 DEF OpenFrame, Exempt, OpenNext, ExemptNext, Lasting
<1>3. ASSUME NEW r, Steps(t, r), r.frames = th[t].frames, UNCHANGED conn PROVE G
  BY <1>2, <1>3, OneThread DEF After
<1>4. ASSUME NEW r, AppMove(t, r) \/ Sleeps(t, r) \/ Reads1(t, r) \/ NotBegun(t, r) PROVE G
  <2>1. Steps(t, r) /\ r.frames = th[t].frames /\ UNCHANGED conn
    BY <1>4 DEF AppMove, Sleeps, Reads1, NotBegun, Steps, Turned, EndedRight, LeavesFields
  <2> QED
    BY <1>3, <2>1
<1>5. ASSUME NEW e, NEW r, GetsOne(t, e, r) PROVE G
  <2>1. Steps(t, r) /\ r.frames = th[t].frames /\ UNCHANGED conn
    BY <1>5 DEF GetsOne, Took
  <2> QED
    BY <1>3, <2>1
<1>6. ASSUME NEW r, Gives1(t, r) PROVE G
  <2>1. /\ GivesBack(t, r) /\ r.frames = th[t].frames /\ UNCHANGED conn /\ r \in Thread /\ ThreadRight(r)
    BY <1>6 DEF Gives1, GivesBack, Gave
  <2>2. th'[t] = r
    <3>1. CASE th' = [th EXCEPT ![t] = r]
      BY <3>1 DEF Types
    <3>2. CASE \E u, v : Wakes(t, r, u, v)
      BY <2>1, <3>2, TwoThreads DEF AfterBoth
    <3> QED
      BY <1>6, <3>1, <3>2 DEF Gives1
  <2> QED
    BY <1>2, <2>1, <2>2
<1>7. ASSUME NEW e, NEW c, NEW r, Touches(t, e, c), Steps(t, r), r.frames = th[t].frames,
             \A k \in DOMAIN th[t].frames : th[t].frames[k].eng = e =>
               c.open \/ c.dead \/ ExemptNext(th[t].frames[k].x)
      PROVE  G
  <2>1. th'[t].frames = th[t].frames
    BY <1>7, OneThread DEF After
  <2> SUFFICES ASSUME NEW k \in DOMAIN th[t].frames PROVE OpenNext(th[t].frames[k])
    BY <2>1
  <2>2. CASE th[t].frames[k].eng = e
    BY <1>7, <2>2, OwnConns DEF OpenNext
  <2>3. CASE th[t].frames[k].eng # e
    BY <1>2, <1>7, <2>3, OwnConns
  <2> QED
    BY <2>2, <2>3
<1>8. ASSUME NEW s, NEW r, WritesOne(t, s, r) PROVE G
  <2>1. /\ Steps(t, r) /\ r.frames = th[t].frames /\ AtStmt(t) /\ ~conn[th[t].eng].dead /\ Noted(t, TRUE)
        /\ conn[th[t].eng] \in Conns /\ th[t].want.n \in Nat /\ (th[t].frames # <<>> => th[t].eng = th[t].tls)
    BY <1>8 DEF WritesOne, EndedRight, AtStmt, Stmts
  <2>2. PICK c : /\ Touches(t, th[t].eng, c)
                 /\ ~AtOnce(t) => c = [conn[th[t].eng] EXCEPT !.wrote = s]
    BY <1>8, WriteTouches
  <2>3. ASSUME NEW k \in DOMAIN th[t].frames, th[t].frames[k].eng = th[t].eng
        PROVE  c.open \/ ExemptNext(th[t].frames[k].x)
    <3>1. k = Len(th[t].frames) /\ th[t].frames # <<>>
      BY <2>1, <2>2, <2>3, OwnConns
    <3>2. th[t].frames[k] = Top(t)
      BY <3>1, TopEntry
    <3>3. OpenFrame(Top(t)) /\ Top(t).eng = th[t].eng /\ Top(t).x \in DOMAIN tx
      BY <1>1, <2>3, <3>2
    <3>4. CASE conn[th[t].eng].open /\ ~AtOnce(t)
      BY <2>1, <2>2, <3>4 DEF Conns
    <3>5. CASE ~conn[th[t].eng].open
      BY <1>0, <2>1, <3>2, <3>3, <3>5 DEF OpenFrame, Exempt, OpenNext, ExemptNext, Lasting
    <3>6. CASE dialect = "Mysql" /\ th[t].want.op \in OnSchema
      <4>1. PICK y : Notes(t, TRUE, y)
        BY <2>1, NotedDoes
      <4>2. tx'[Top(t).x] = y
        BY <3>1, <3>3, <4>1, QuietNotes
      <4>3. y.schema
        BY <3>1, <3>3, <3>6, <4>1 DEF Notes
      <4> QED
        BY <1>0, <3>2, <3>6, <4>2, <4>3 DEF ExemptNext, Lasting
    <3> QED
      BY <3>4, <3>5, <3>6 DEF AtOnce
  <2> QED
    BY <1>7, <2>1, <2>2, <2>3
<1>9. ASSUME NEW c, NEW r, FailsOne(t, c, r) PROVE G
  <2>1. /\ Steps(t, r) /\ r.frames = th[t].frames /\ c \in {Failed(th[t].eng), Dead} /\ th[t].eng \in Engines
    BY <1>9 DEF FailsOne, EndedRight, AtStmt
  <2>2. Touches(t, th[t].eng, c)
    BY <1>9, FailTouches
  <2>3. c.dead \/ (c.open = conn[th[t].eng].open /\ c.dead = conn[th[t].eng].dead)
    <3>1. Dead.dead = TRUE
      BY DEF Dead, Fresh
    <3> QED
      BY <2>1, <3>1, FailedIs
  <2>4. \A k \in DOMAIN th[t].frames : th[t].frames[k].eng = th[t].eng =>
               c.open \/ c.dead \/ ExemptNext(th[t].frames[k].x)
    BY <1>0, <1>1, <2>3 DEF OpenFrame, Exempt, OpenNext, ExemptNext, Lasting
  <2> QED
    BY <1>7, <2>1, <2>2, <2>4
<1>10. ASSUME NEW c, NEW r, RollsBack(t, c, r) PROVE G
  <2>1. Steps(t, r) /\ r.frames = th[t].frames /\ th[t].eng \notin Engs(th[t])
    BY <1>10 DEF RollsBack, LeavesFields
  <2>2. Touches(t, th[t].eng, c)
    BY <1>10, RollbackTouches
  <2> QED
    BY <1>7, <2>1, <2>2, OwnConns
<1>11. ASSUME NEW r, Begins(t, r) PROVE G
  <2>1. /\ Steps(t, r) /\ r.frames = Append(th[t].frames, [eng |-> th[t].eng, prev |-> th[t].tls, x |-> Len(tx) + 1])
        /\ th[t].eng \in Engines /\ th[t].eng \notin Engs(th[t])
    BY <1>11 DEF Begins, Opened
  <2>2. PICK c : Touches(t, th[t].eng, c) /\ c = [conn[th[t].eng] EXCEPT !.open = TRUE]
    BY <1>11, BeginTouches
  <2>3. c.open /\ conn'[th[t].eng] = c
    BY <2>1, <2>2 DEF Types, Conns, Touches
  <2>4. PICK f : f = [eng |-> th[t].eng, prev |-> th[t].tls, x |-> Len(tx) + 1]
    OBVIOUS
  <2>5. th'[t].frames = Append(th[t].frames, f) /\ f.eng = th[t].eng /\ th[t].frames \in Seq(Frames)
    BY <2>1, <2>4, OneThread DEF After, Types, Thread
  <2>6. ASSUME NEW k \in DOMAIN th'[t].frames
        PROVE  th'[t].frames[k] = f \/ (k \in DOMAIN th[t].frames /\ th'[t].frames[k] = th[t].frames[k])
    BY <2>5
  <2>7. OpenNext(f)
    BY <2>3, <2>5 DEF OpenNext
  <2>8. ASSUME NEW k \in DOMAIN th[t].frames PROVE OpenNext(th[t].frames[k])
    BY <1>2, <2>1, <2>2, OwnConns
  <2> QED
    BY <2>6, <2>7, <2>8
<1>12. ASSUME NEW out, NEW r, Ends(t, out, r), UNCHANGED conn \/ \E c : Touches(t, th[t].tls, c) PROVE G
  <2>1. /\ Steps(t, r)
        /\ \A k \in DOMAIN r.frames : k \in DOMAIN th[t].frames /\ k # Len(th[t].frames)
                                      /\ r.frames[k] = th[t].frames[k]
    BY <1>12 DEF Ends, Closed
  <2>2. th'[t] = r
    BY <2>1, OneThread DEF After
  <2>3. ASSUME NEW k \in DOMAIN r.frames PROVE OpenNext(r.frames[k])
    <3>1. conn'[th[t].frames[k].eng] = conn[th[t].frames[k].eng]
      BY <1>12, <2>1, OwnConns
    <3> QED
      BY <1>2, <2>1, <3>1
  <2> QED
    BY <2>2, <2>3
<1>13. ASSUME NEW r, Commits(t, r) \/ Throws(t, r) \/ Loses(t, r) PROVE G
  <2>1. \E out : Ends(t, out, r)
    BY <1>13 DEF Commits, Throws, Loses
  <2>2. UNCHANGED conn \/ \E c : Touches(t, th[t].tls, c)
    BY <1>13, EndTouches DEF Throws
  <2> QED
    BY <1>12, <2>1, <2>2
<1> HIDE DEF G
<1>14. G
  BY <1>4, <1>5, <1>6, <1>8, <1>9, <1>10, <1>11, <1>13, Zenon DEF Does, Gives1
<1> QED
  BY <1>14, OpenKept DEF G

LEMMA OpenFirst == Init => FramesOpen
<1>1. Init => \A t \in Threads : th[t].frames = <<>>
  BY DEF Init
<1> QED
  BY <1>1 DEF FramesOpen

(* Whoever is inside transaction() (database.h) has one that is open on    *)
(* the connection, but where MySQL has ended it with a change of schema.   *)
THEOREM OpenHolds == Spec => []FramesOpen
<1>1. Base /\ FramesOpen /\ [Next]_vars => FramesOpen'
  <2> SUFFICES ASSUME Base, FramesOpen, [Next]_vars PROVE FramesOpen'
    OBVIOUS
  <2>1. Types /\ ThreadsRight /\ Owned /\ Entered /\ Clean
    BY DEF Base
  <2>2. CASE Next
    BY <2>1, <2>2, EveryStep, OpenAfter
  <2>3. CASE UNCHANGED vars
    BY <2>3 DEF FramesOpen, OpenFrame, Exempt, vars
  <2> QED
    BY <2>2, <2>3
<1> QED
  BY <1>1, OpenFirst, BaseHolds, PTL DEF Spec

-----------------------------------------------------------------------------
(* A migration has been run if it is recorded.                             *)

LEMMA PlainIs ==
  ASSUME NEW s, NEW w, Ups(s) = {}, Downs(s) = {}
  PROVE  Balanced(s, w) <=> Plain(w)
BY DEF Balanced, Plain

LEMMA NoHalves ==
  ASSUME NEW s, s.pc \notin {"app", "stmt"} \/ s.err \/ ~s.prog.own
  PROVE  Ups(s) = {} /\ Downs(s) = {}
BY DEF Ups, Downs, Half

(* One more of version n, and the others as they were. *)
More(f, g, n) == \A i \in DOMAIN Versions : f[i] = IF i = n THEN g[i] + 1 ELSE g[i]

LEMMA MoreIs ==
  ASSUME NEW g \in Counts, NEW n \in DOMAIN Versions
  PROVE  More([g EXCEPT ![n] = g[n] + 1], g, n)
BY DEF More, Counts

(* What a statement that writes makes of the versions. *)
LEMMA WrittenVersions ==
  ASSUME NEW q \in Stmts, NEW v \in States, q.op \in StmtOps \ Reads,
         q.op \in VersionOps => q.n \in DOMAIN Versions, NEW w, w = Written(q, v)
  PROVE  /\ q.op \notin VersionOps =>
              w.ran = v.ran /\ w.undone = v.undone /\ w.taken = v.taken /\ w.recorded = v.recorded
         /\ q.op = "up" => w.undone = v.undone /\ w.taken = v.taken /\ w.recorded = v.recorded /\ More(w.ran, v.ran, q.n)
         /\ q.op = "down" => w.ran = v.ran /\ w.taken = v.taken /\ w.recorded = v.recorded /\ More(w.undone, v.undone, q.n)
         /\ q.op = "record" => w.ran = v.ran /\ w.undone = v.undone /\ w.taken = v.taken
                               /\ w.recorded = v.recorded \cup {q.n}
         /\ q.op = "unrecord" => w.ran = v.ran /\ w.undone = v.undone /\ w.recorded = v.recorded \ {q.n}
                                 /\ (q.n \in v.recorded => More(w.taken, v.taken, q.n))
                                 /\ (q.n \notin v.recorded => w.taken = v.taken)
<1>1. v.ran \in Counts /\ v.undone \in Counts /\ v.taken \in Counts
  BY DEF States
<1>2. CASE q.op \notin VersionOps
  <2>1. q.op \in {"log", "insert", "update", "delete", "table"}
    BY <1>2 DEF StmtOps, Reads, VersionOps
  <2>2. \E x : w = [v EXCEPT !.log = x] \/ w = [v EXCEPT !.rows = x] \/ w = v
    <3>1. CASE q.op = "log"
      BY <3>1 DEF Written
    <3>2. CASE q.op = "insert"
      BY <3>2 DEF Written
    <3>3. CASE q.op = "update"
      <4>1. PICK x : x = {IF Matches(r, q)
                          THEN [r EXCEPT !.val = Assign(r.val, q.cols, q.val),
                                         !.meant = Assign(r.meant, q.meant, q.val)]
                          ELSE r : r \in v.rows}
        OBVIOUS
      <4>2. w = [v EXCEPT !.rows = x]
        BY <3>3, <4>1, Zenon DEF Written
      <4> QED
        BY <4>2
    <3>4. CASE q.op = "delete"
      BY <3>4 DEF Written
    <3>5. CASE q.op = "table"
      BY <3>5 DEF Written
    <3> QED
      BY <2>1, <3>1, <3>2, <3>3, <3>4, <3>5
  <2>3. PICK x : w = [v EXCEPT !.log = x] \/ w = [v EXCEPT !.rows = x] \/ w = v
    BY <2>2
  <2>4. w.ran = v.ran /\ w.undone = v.undone /\ w.taken = v.taken /\ w.recorded = v.recorded
    BY <2>3 DEF States
  <2> QED
    BY <1>2, <2>4 DEF VersionOps
<1>3. CASE q.op = "up"
  <2>1. PICK f : f = [v.ran EXCEPT ![q.n] = v.ran[q.n] + 1]
    OBVIOUS
  <2>2. w = [v EXCEPT !.ran = f]
    BY <1>3, <2>1 DEF Written, States
  <2>3. w.ran = f /\ w.undone = v.undone /\ w.taken = v.taken /\ w.recorded = v.recorded
    BY <2>2 DEF States
  <2>4. More(f, v.ran, q.n)
    BY <1>1, <1>3, <2>1, MoreIs DEF VersionOps
  <2> QED
    BY <1>3, <2>3, <2>4 DEF VersionOps
<1>4. CASE q.op = "down"
  <2>1. PICK f : f = [v.undone EXCEPT ![q.n] = v.undone[q.n] + 1]
    OBVIOUS
  <2>2. w = [v EXCEPT !.undone = f]
    BY <1>4, <2>1 DEF Written, States
  <2>3. w.ran = v.ran /\ w.undone = f /\ w.taken = v.taken /\ w.recorded = v.recorded
    BY <2>2 DEF States
  <2>4. More(f, v.undone, q.n)
    BY <1>1, <1>4, <2>1, MoreIs DEF VersionOps
  <2> QED
    BY <1>4, <2>3, <2>4 DEF VersionOps
<1>5. CASE q.op = "record"
  <2>1. w = [v EXCEPT !.recorded = v.recorded \cup {q.n}]
    BY <1>5 DEF Written
  <2> QED
    BY <1>5, <2>1 DEF States, VersionOps
<1>6. CASE q.op = "unrecord"
  <2>1. PICK f : f = [v.taken EXCEPT ![q.n] = v.taken[q.n] + IF q.n \in v.recorded THEN 1 ELSE 0]
    OBVIOUS
  <2>2. w = [v EXCEPT !.recorded = v.recorded \ {q.n}, !.taken = f]
    BY <1>6, <2>1 DEF Written, States
  <2>3. w.ran = v.ran /\ w.undone = v.undone /\ w.taken = f /\ w.recorded = v.recorded \ {q.n}
    BY <2>2 DEF States
  <2>4. q.n \in v.recorded => More(f, v.taken, q.n)
    BY <1>1, <1>6, <2>1, MoreIs DEF VersionOps
  <2>5. q.n \notin v.recorded => f = v.taken
    BY <1>1, <1>6, <2>1 DEF Counts, VersionOps
  <2> QED
    BY <1>6, <2>3, <2>4, <2>5 DEF VersionOps
<1> QED
  BY <1>2, <1>3, <1>4, <1>5, <1>6 DEF VersionOps

LEMMA WrittenBalanced ==
  ASSUME ThreadsRight, NEW t \in Threads, th[t].pc = "stmt", AtStmt(t), NEW r, EndedRight(t, TRUE, r),
         NEW v \in States, Balanced(th[t], v), th[t].want.op \in StmtOps \ Reads, ~Refused(th[t].want, v),
         NEW w, w = Written(th[t].want, v)
  PROVE  Balanced(r, w)
<1> DEFINE q == th[t].want
<1>1. /\ Ups(r) = {i \in DOMAIN Versions : q.op = "up" /\ q.n = i}
      /\ Downs(r) = {i \in DOMAIN Versions \ NoDown : q.op = "down" /\ q.n = i}
      /\ Ups(th[t]) = {i \in DOMAIN Versions : q.op = "record" /\ q.n = i}
      /\ Downs(th[t]) = {i \in DOMAIN Versions \ NoDown : q.op = "unrecord" /\ q.n = i}
  BY DEF EndedRight
<1>2. q \in Stmts /\ (q.op \in VersionOps => q.n \in DOMAIN Versions)
  BY VersionAsked DEF AtStmt
<1> HIDE DEF q
<1>3. /\ q.op \notin VersionOps =>
           w.ran = v.ran /\ w.undone = v.undone /\ w.taken = v.taken /\ w.recorded = v.recorded
      /\ q.op = "up" => w.undone = v.undone /\ w.taken = v.taken /\ w.recorded = v.recorded /\ More(w.ran, v.ran, q.n)
      /\ q.op = "down" => w.ran = v.ran /\ w.taken = v.taken /\ w.recorded = v.recorded /\ More(w.undone, v.undone, q.n)
      /\ q.op = "record" => w.ran = v.ran /\ w.undone = v.undone /\ w.taken = v.taken
                            /\ w.recorded = v.recorded \cup {q.n}
      /\ q.op = "unrecord" => w.ran = v.ran /\ w.undone = v.undone /\ w.recorded = v.recorded \ {q.n}
                              /\ (q.n \in v.recorded => More(w.taken, v.taken, q.n))
                              /\ (q.n \notin v.recorded => w.taken = v.taken)
  BY <1>2, WrittenVersions DEF q
<1>4. q.op = "record" => q.n \notin v.recorded
  BY DEF Refused, q
<1> SUFFICES ASSUME NEW i \in DOMAIN Versions
             PROVE  /\ w.ran[i] = IF i \in Ups(r) THEN w.taken[i] + Due(w, i) + 1 ELSE w.taken[i] + Due(w, i)
                    /\ i \notin NoDown => w.undone[i] >= IF i \in Downs(r) THEN w.taken[i] + 1 ELSE w.taken[i]
  BY DEF Balanced
<1>5. /\ v.ran[i] = IF i \in Ups(th[t]) THEN v.taken[i] + Due(v, i) + 1 ELSE v.taken[i] + Due(v, i)
      /\ i \notin NoDown => v.undone[i] >= IF i \in Downs(th[t]) THEN v.taken[i] + 1 ELSE v.taken[i]
  BY DEF Balanced
<1>6. v.ran[i] \in Nat /\ v.undone[i] \in Nat /\ v.taken[i] \in Nat /\ Due(v, i) \in {0, 1}
  BY DEF States, Counts, Due
<1>7. CASE q.op \in VersionOps /\ i = q.n
  <2>1. CASE q.op = "up"
    <3>1. i \in Ups(r) /\ i \notin Downs(r) /\ i \notin Ups(th[t]) /\ i \notin Downs(th[t])
      BY <1>1, <1>7, <2>1
    <3>2. /\ w.ran[i] = v.ran[i] + 1 /\ w.undone[i] = v.undone[i] /\ w.taken[i] = v.taken[i]
          /\ Due(w, i) = Due(v, i)
      BY <1>3, <1>7, <2>1 DEF Due, More
    <3> QED
      BY <1>5, <1>6, <3>1, <3>2
  <2>2. CASE q.op = "down"
    <3>1. i \notin Ups(r) /\ (i \notin NoDown => i \in Downs(r)) /\ i \notin Ups(th[t]) /\ i \notin Downs(th[t])
      BY <1>1, <1>7, <2>2
    <3>2. /\ w.ran[i] = v.ran[i] /\ w.undone[i] = v.undone[i] + 1 /\ w.taken[i] = v.taken[i]
          /\ Due(w, i) = Due(v, i)
      BY <1>3, <1>7, <2>2 DEF Due, More
    <3> QED
      BY <1>5, <1>6, <3>1, <3>2
  <2>3. CASE q.op = "record"
    <3>1. i \notin Ups(r) /\ i \notin Downs(r) /\ i \in Ups(th[t]) /\ i \notin Downs(th[t])
      BY <1>1, <1>7, <2>3
    <3>2. /\ w.ran[i] = v.ran[i] /\ w.undone[i] = v.undone[i] /\ w.taken[i] = v.taken[i]
          /\ Due(w, i) = 1 /\ Due(v, i) = 0
      BY <1>3, <1>4, <1>7, <2>3 DEF Due
    <3> QED
      BY <1>5, <1>6, <3>1, <3>2
  <2>4. CASE q.op = "unrecord"
    <3>1. i \notin Ups(r) /\ i \notin Downs(r) /\ i \notin Ups(th[t]) /\ (i \notin NoDown => i \in Downs(th[t]))
      BY <1>1, <1>7, <2>4
    <3>2. w.ran[i] = v.ran[i] /\ w.undone[i] = v.undone[i] /\ Due(w, i) = 0
      BY <1>3, <1>7, <2>4 DEF Due
    <3>3. w.taken[i] = v.taken[i] + Due(v, i)
      BY <1>3, <1>6, <1>7, <2>4 DEF Due, More
    <3> QED
      BY <1>5, <1>6, <3>1, <3>2, <3>3
  <2> QED
    BY <1>7, <2>1, <2>2, <2>3, <2>4 DEF VersionOps
<1>8. CASE ~(q.op \in VersionOps /\ i = q.n)
  <2>1. i \notin Ups(r) /\ i \notin Downs(r) /\ i \notin Ups(th[t]) /\ i \notin Downs(th[t])
    BY <1>1, <1>8 DEF VersionOps
  <2>2. /\ w.ran[i] = v.ran[i] /\ w.undone[i] = v.undone[i] /\ w.taken[i] = v.taken[i]
        /\ i \in w.recorded <=> i \in v.recorded
    BY <1>3, <1>8 DEF VersionOps, More
  <2> QED
    BY <1>5, <1>6, <2>1, <2>2 DEF Due
<1> QED
  BY <1>7, <1>8

(* The frames of a thread stay right when nothing of them changes.         *)
LEMMA SameFrame ==
  ASSUME NEW s, NEW r, NEW k, NEW c, FrameRight(s, k, c), r.frames = s.frames,
         Ups(r) = Ups(s), Downs(r) = Downs(s), Broken(r) <=> Broken(s)
  PROVE  FrameRight(r, k, c)
BY DEF FrameRight, Balanced

FramesNext(t) == \A k \in DOMAIN th'[t].frames : FrameRight(th'[t], k, conn'[th'[t].frames[k].eng])

LEMMA TxsKept ==
  ASSUME Types, ThreadsRight, Owned, dialect # "Mysql", InTxs, NEW t \in Threads, Does(t), FramesNext(t)
  PROVE  InTxs'
<1>1. ASSUME NEW u \in Threads, u # t, NEW k \in DOMAIN th'[u].frames
      PROVE  FrameRight(th'[u], k, conn'[th'[u].frames[k].eng])
  <2>1. Untouched(u)
    BY <1>1, OthersUntouched
  <2>2. k \in DOMAIN th[u].frames /\ FrameRight(th[u], k, conn[th[u].frames[k].eng])
    BY <2>1 DEF Untouched, InTxs
  <2>3. FrameRight(th'[u], k, conn[th[u].frames[k].eng])
    BY <2>1, <2>2, SameFrame DEF Untouched
  <2> QED
    BY <2>1, <2>2, <2>3 DEF Untouched
<1>2. \A u \in Threads : \A k \in DOMAIN th'[u].frames : FrameRight(th'[u], k, conn'[th'[u].frames[k].eng])
  BY <1>1 DEF FramesNext
<1> QED
  BY <1>2, Zenon DEF InTxs

(* The versions of a transaction are in order where its thread stands. *)
LEMMA FrameIs ==
  ASSUME InTxs, dialect # "Mysql", NEW t \in Threads, NEW k \in DOMAIN th[t].frames
  PROVE  FrameRight(th[t], k, conn[th[t].frames[k].eng])
BY DEF InTxs

LEMMA NotBroken ==
  ASSUME NEW s \in Thread, ThreadRight(s), s.pc # "app" \/ ~s.err
  PROVE  ~Broken(s)
BY DEF ThreadRight, TxRight, Broken

LEMMA NoOwn ==
  ASSUME NEW s \in Thread, ThreadRight(s), s.pc \notin {"app", "stmt", "commit"}
  PROVE  ~s.prog.own /\ Ups(s) = {} /\ Downs(s) = {}
<1>1. ~s.prog.own
  BY DEF ThreadRight, TxRight
<1> QED
  BY <1>1, NoHalves

LEMMA SameTxs ==
  ASSUME InTxs, dialect # "Mysql", NEW t \in Threads, NEW r, th'[t] = r, r.frames = th[t].frames,
         Ups(r) = Ups(th[t]), Downs(r) = Downs(th[t]), Broken(r) <=> Broken(th[t]),
         \A k \in DOMAIN th[t].frames : conn'[th[t].frames[k].eng] = conn[th[t].frames[k].eng]
  PROVE  FramesNext(t)
<1> SUFFICES ASSUME NEW k \in DOMAIN th[t].frames
             PROVE  FrameRight(r, k, conn'[th[t].frames[k].eng])
  BY DEF FramesNext
<1>1. FrameRight(th[t], k, conn[th[t].frames[k].eng])
  BY FrameIs
<1>2. FrameRight(r, k, conn[th[t].frames[k].eng])
  BY <1>1, SameFrame
<1> QED
  BY <1>2

LEMMA QuietTxs ==
  ASSUME Types, ThreadsRight, Owned, InTxs, dialect # "Mysql", NEW t \in Threads, NEW e, NEW c, NEW r,
         AppMove(t, r) \/ Sleeps(t, r) \/ GetsOne(t, e, r) \/ Gives1(t, r) \/ Reads1(t, r)
           \/ NotBegun(t, r) \/ RollsBack(t, c, r)
  PROVE  FramesNext(t)
<1>0. th[t] \in Thread /\ ThreadRight(th[t])
  BY DEF Types, ThreadsRight
<1>1. CASE AppMove(t, r)
  <2>1. /\ th'[t] = r /\ r \in Thread /\ ThreadRight(r) /\ r.frames = th[t].frames /\ Ups(r) = Ups(th[t])
        /\ Downs(r) = Downs(th[t]) /\ ~th[t].err /\ ~r.err /\ UNCHANGED conn
    BY <1>1 DEF AppMove, Types
  <2> QED
    BY <1>0, <2>1, NotBroken, SameTxs
<1>2. CASE Sleeps(t, r)
  <2>1. /\ th'[t] = r /\ r \in Thread /\ ThreadRight(r) /\ r.frames = th[t].frames /\ Ups(r) = Ups(th[t])
        /\ Downs(r) = Downs(th[t]) /\ th[t].pc = "acquire" /\ r.pc = "asleep" /\ UNCHANGED conn
    BY <1>2 DEF Sleeps, Steps, Turned, Types
  <2> QED
    BY <1>0, <2>1, NotBroken, SameTxs
<1>3. CASE GetsOne(t, e, r)
  <2>1. /\ th'[t] = r /\ r \in Thread /\ ThreadRight(r) /\ r.frames = th[t].frames /\ Ups(r) = {} /\ Downs(r) = {}
        /\ th[t].pc = "acquire" /\ ~r.err /\ UNCHANGED conn
    BY <1>3 DEF GetsOne, Steps, Took, Types
  <2>2. Ups(th[t]) = {} /\ Downs(th[t]) = {} /\ ~Broken(th[t]) /\ ~Broken(r)
    BY <1>0, <2>1, NotBroken, NoOwn
  <2> QED
    BY <2>1, <2>2, SameTxs
<1>4. CASE Gives1(t, r)
  <2>1. /\ GivesBack(t, r) /\ r \in Thread /\ ThreadRight(r) /\ r.frames = th[t].frames
        /\ Ups(r) = Ups(th[t]) /\ Downs(r) = Downs(th[t])
        /\ th[t].pc = "release" /\ ~r.err /\ UNCHANGED conn
    BY <1>4 DEF Gives1, GivesBack, Gave
  <2>2. th'[t] = r
    <3>1. CASE th' = [th EXCEPT ![t] = r]
      BY <3>1 DEF Types
    <3>2. CASE \E u, v : Wakes(t, r, u, v)
      BY <2>1, <3>2, TwoThreads DEF AfterBoth
    <3> QED
      BY <1>4, <3>1, <3>2 DEF Gives1
  <2>3. ~Broken(th[t]) /\ ~Broken(r)
    BY <1>0, <2>1, NotBroken
  <2> QED
    BY <2>1, <2>2, <2>3, SameTxs
<1>5. CASE Reads1(t, r)
  <2>1. /\ th'[t] = r /\ r \in Thread /\ ThreadRight(r) /\ r.frames = th[t].frames
        /\ Ups(r) = {} /\ Downs(r) = {} /\ Ups(th[t]) = {} /\ Downs(th[t]) = {}
        /\ th[t].pc = "stmt" /\ ~r.err /\ UNCHANGED conn
    BY <1>5 DEF Reads1, Steps, EndedRight, AtStmt, Types, Reads
  <2>2. ~Broken(th[t]) /\ ~Broken(r)
    BY <1>0, <2>1, NotBroken
  <2> QED
    BY <2>1, <2>2, SameTxs
<1>6. CASE NotBegun(t, r) \/ RollsBack(t, c, r)
  <2>1. /\ th'[t] = r /\ r \in Thread /\ ThreadRight(r) /\ r.frames = th[t].frames
        /\ th[t].pc \in {"begin", "rollback"} /\ r.pc = "release" /\ th[t].eng \notin Engs(th[t])
    BY <1>6 DEF NotBegun, RollsBack, Steps, LeavesFields, Types
  <2>2. /\ ~Broken(th[t]) /\ ~Broken(r) /\ Ups(r) = {} /\ Downs(r) = {} /\ Ups(th[t]) = {} /\ Downs(th[t]) = {}
    BY <1>0, <2>1, NotBroken, NoOwn
  <2>3. ASSUME NEW k \in DOMAIN th[t].frames PROVE conn'[th[t].frames[k].eng] = conn[th[t].frames[k].eng]
    <3>1. CASE NotBegun(t, r)
      BY <3>1 DEF NotBegun
    <3>2. CASE RollsBack(t, c, r)
      BY <2>1, <3>2, RollbackTouches, OwnConns
    <3> QED
      BY <1>6, <3>1, <3>2
  <2> QED
    BY <2>1, <2>2, <2>3, SameTxs
<1> QED
  BY <1>1, <1>2, <1>3, <1>4, <1>5, <1>6

(* A statement in a transaction is not committed at once. *)
LEMMA WritesInside ==
  ASSUME Types, ThreadsRight, Entered, FramesOpen, dialect # "Mysql", NEW t \in Threads, NEW s, NEW r,
         WritesOne(t, s, r), th[t].frames # <<>>
  PROVE  ~AtOnce(t) /\ th[t].eng = th[t].tls
<1>1. th[t].eng = th[t].tls /\ ~conn[th[t].eng].dead
  BY DEF WritesOne, AtStmt
<1>2. OpenFrame(Top(t)) /\ Top(t).eng = th[t].tls
  BY TopEntry DEF FramesOpen
<1> QED
  BY <1>1, <1>2 DEF OpenFrame, Exempt, AtOnce

(* What a statement in a transaction sees is balanced. *)
LEMMA SeesBalanced ==
  ASSUME Types, ThreadsRight, Entered, Clean, InStore, InTxs, dialect # "Mysql", NEW t \in Threads,
         AtStmt(t), ~conn[th[t].eng].dead
  PROVE  Balanced(th[t], Sees(th[t].eng))
<1>0. th[t] \in Thread /\ ThreadRight(th[t]) /\ DbOf[th[t].eng] \in Dbs
  BY DEF AtStmt, ThreadsRight
<1>1. Plain(store[DbOf[th[t].eng]])
  BY <1>0 DEF InStore
<1>2. CASE th[t].frames = <<>>
  <2>1. conn[th[t].eng].wrote = None
    <3>1. CleanConn(conn[th[t].eng])
      BY <1>2, StmtAlone
    <3> QED
      BY <3>1 DEF CleanConn, Fresh, Dead
  <2>2. ~th[t].prog.own
    BY <1>0, <1>2 DEF ThreadRight, EngineRight
  <2>3. Ups(th[t]) = {} /\ Downs(th[t]) = {}
    BY <2>2, NoHalves
  <2> QED
    BY <1>1, <2>1, <2>3, PlainIs DEF Sees
<1>3. CASE th[t].frames # <<>>
  <2>1. /\ Len(th[t].frames) \in DOMAIN th[t].frames /\ th[t].frames[Len(th[t].frames)].eng = th[t].eng
    BY <1>3, TopEntry DEF AtStmt
  <2>2. FrameRight(th[t], Len(th[t].frames), conn[th[t].eng])
    BY <2>1, FrameIs
  <2>3. ~Broken(th[t])
    BY <1>0, NotBroken DEF AtStmt
  <2>4. CASE conn[th[t].eng].wrote # None
    BY <2>2, <2>3, <2>4 DEF FrameRight, Sees
  <2>5. CASE conn[th[t].eng].wrote = None
    <3>1. Ups(th[t]) = {} /\ Downs(th[t]) = {}
      BY <2>2, <2>3, <2>5 DEF FrameRight
    <3> QED
      BY <1>1, <2>5, <3>1, PlainIs DEF Sees
  <2> QED
    BY <2>4, <2>5
<1> QED
  BY <1>2, <1>3

LEMMA WritesTxs ==
  ASSUME Types, ThreadsRight, Owned, Entered, Clean, FramesOpen, InStore, InTxs, dialect # "Mysql",
         NEW t \in Threads, NEW s, NEW r, WritesOne(t, s, r)
  PROVE  FramesNext(t) /\ Balanced(r, s)
<1>1. /\ Steps(t, r) /\ r.frames = th[t].frames /\ AtStmt(t) /\ EndedRight(t, TRUE, r) /\ r \in Thread /\ ThreadRight(r)
      /\ ~conn[th[t].eng].dead /\ s \in States /\ s = Written(th[t].want, Sees(th[t].eng))
      /\ th[t].want.op \in StmtOps \ Reads /\ ~Refused(th[t].want, Sees(th[t].eng)) /\ conn[th[t].eng] \in Conns
      /\ Sees(th[t].eng) \in States /\ th[t].pc = "stmt"
  BY DEF WritesOne, EndedRight, AtStmt
<1>2. Balanced(th[t], Sees(th[t].eng))
  BY <1>1, SeesBalanced
<1>3. Balanced(r, s)
  BY <1>1, <1>2, WrittenBalanced
<1>4. th'[t] = r
  BY <1>1, OneThread DEF After
<1>5. PICK c : /\ Touches(t, th[t].eng, c)
               /\ ~AtOnce(t) => c = [conn[th[t].eng] EXCEPT !.wrote = s]
  BY WriteTouches
<1>6. ASSUME NEW k \in DOMAIN th[t].frames
      PROVE  FrameRight(r, k, conn'[th[t].frames[k].eng])
  <2>1. th[t].frames # <<>>
    OBVIOUS
  <2>2. ~AtOnce(t) /\ th[t].eng = th[t].tls
    BY <2>1, WritesInside
  <2>3. c.wrote = s /\ s # None
    BY <1>1, <1>5, <2>2, Constants DEF Conns
  <2>4. CASE k = Len(th[t].frames)
    <3>1. conn'[th[t].frames[k].eng] = c
      BY <1>5, <2>2, <2>4, OwnConns
    <3> QED
      BY <1>1, <1>3, <2>3, <2>4, <3>1 DEF FrameRight
  <2>5. CASE k # Len(th[t].frames)
    <3>1. conn'[th[t].frames[k].eng] = conn[th[t].frames[k].eng]
      BY <1>5, <2>2, <2>5, OwnConns
    <3>2. FrameRight(th[t], k, conn[th[t].frames[k].eng])
      BY FrameIs
    <3> QED
      BY <1>1, <2>5, <3>1, <3>2 DEF FrameRight
  <2> QED
    BY <2>4, <2>5
<1> QED
  BY <1>1, <1>3, <1>4, <1>6 DEF FramesNext

LEMMA FailsTxs ==
  ASSUME Types, ThreadsRight, Owned, Entered, InTxs, dialect # "Mysql",
         NEW t \in Threads, NEW c, NEW r, FailsOne(t, c, r)
  PROVE  FramesNext(t)
<1>1. /\ Steps(t, r) /\ r.frames = th[t].frames /\ AtStmt(t) /\ EndedRight(t, FALSE, r) /\ r \in Thread /\ ThreadRight(r)
      /\ c \in {Failed(th[t].eng), Dead} /\ th[t].pc = "stmt" /\ th[t] \in Thread /\ ThreadRight(th[t])
      /\ th[t].eng \in Engines /\ (th[t].frames # <<>> => th[t].eng = th[t].tls) /\ r.prog.own = th[t].prog.own
  BY DEF FailsOne, EndedRight, AtStmt, ThreadsRight
<1>2. th'[t] = r
  BY <1>1, OneThread DEF After
<1>3. Touches(t, th[t].eng, c)
  BY FailTouches
<1>4. \/ Broken(r)
      \/ Ups(r) = {} /\ Downs(r) = {} /\ Ups(th[t]) = {} /\ Downs(th[t]) = {}
  <2>1. CASE r.err /\ ~r.prog.own
    BY <1>1, <2>1, NoHalves
  <2>2. CASE r.err /\ r.prog.own
    BY <2>2 DEF Broken
  <2>3. CASE ~r.err
    BY <1>1, <2>3 DEF EndedRight
  <2> QED
    BY <2>1, <2>2, <2>3
<1>5. ~Broken(th[t])
  BY <1>1, NotBroken
<1>6. /\ c = Dead => c.wrote = None /\ c.dead
      /\ c # Dead => c.wrote = conn[th[t].eng].wrote /\ c.dead = conn[th[t].eng].dead
  <2>1. Dead.wrote = None /\ Dead.dead
    BY DEF Dead, Fresh
  <2> QED
    BY <1>1, <2>1, FailedIs
<1>7. ASSUME NEW k \in DOMAIN th[t].frames
      PROVE  FrameRight(r, k, conn'[th[t].frames[k].eng])
  <2>1. th[t].frames # <<>> /\ th[t].eng = th[t].tls
    BY <1>1
  <2>2. FrameRight(th[t], k, conn[th[t].frames[k].eng])
    BY FrameIs
  <2>3. CASE k = Len(th[t].frames)
    <3>1. conn'[th[t].frames[k].eng] = c /\ th[t].frames[k].eng = th[t].eng
      BY <1>3, <2>1, <2>3, OwnConns
    <3>2. CASE c = Dead
      BY <1>1, <1>6, <2>3, <3>1, <3>2 DEF FrameRight
    <3>3. CASE c # Dead /\ Broken(r)
      BY <1>1, <2>3, <3>1, <3>3 DEF FrameRight
    <3>4. CASE c # Dead /\ ~Broken(r)
      BY <1>1, <1>4, <1>5, <1>6, <2>2, <2>3, <3>1, <3>4 DEF FrameRight, Balanced
    <3> QED
      BY <3>2, <3>3, <3>4
  <2>4. CASE k # Len(th[t].frames)
    <3>1. conn'[th[t].frames[k].eng] = conn[th[t].frames[k].eng]
      BY <1>3, <2>1, <2>4, OwnConns
    <3> QED
      BY <1>1, <2>2, <2>4, <3>1 DEF FrameRight
  <2> QED
    BY <2>3, <2>4
<1> QED
  BY <1>1, <1>2, <1>7 DEF FramesNext

LEMMA BeginsTxs ==
  ASSUME Types, ThreadsRight, Owned, Entered, Clean, InTxs, dialect # "Mysql",
         NEW t \in Threads, NEW r, Begins(t, r)
  PROVE  FramesNext(t)
<1>1. /\ Steps(t, r) /\ r.frames = Append(th[t].frames, [eng |-> th[t].eng, prev |-> th[t].tls, x |-> Len(tx) + 1])
      /\ th[t].eng \in Engines /\ th[t].eng \notin Engs(th[t]) /\ th[t].pc = "begin"
      /\ th[t] \in Thread /\ ThreadRight(th[t]) /\ Ups(r) = {} /\ Downs(r) = {}
      /\ th[t].frames \in Seq(Frames) /\ conn[th[t].eng] \in Conns
  BY DEF Begins, Opened, Types, Thread, ThreadsRight
<1>2. PICK c : Touches(t, th[t].eng, c) /\ c = [conn[th[t].eng] EXCEPT !.open = TRUE]
  BY BeginTouches
<1>3. th'[t] = r
  BY <1>1, OneThread DEF After
<1>4. c.wrote = None
  <2>1. CleanConn(conn[th[t].eng])
    BY <1>1, AloneClean DEF Alone
  <2>2. conn[th[t].eng].wrote = None
    BY <2>1 DEF CleanConn, Fresh, Dead
  <2> QED
    BY <1>1, <1>2, <2>2 DEF Conns
<1>5. PICK f : f = [eng |-> th[t].eng, prev |-> th[t].tls, x |-> Len(tx) + 1]
  OBVIOUS
<1>6. r.frames = Append(th[t].frames, f) /\ f.eng = th[t].eng
  BY <1>1, <1>5
<1>7. Len(r.frames) = Len(th[t].frames) + 1 /\ Len(th[t].frames) \in Nat
  BY <1>1, <1>6
<1>8. ~Broken(th[t]) /\ Ups(th[t]) = {} /\ Downs(th[t]) = {}
  BY <1>1, NotBroken, NoOwn
<1>9. ASSUME NEW k \in DOMAIN r.frames
      PROVE  \/ k = Len(r.frames) /\ r.frames[k] = f
             \/ k \in DOMAIN th[t].frames /\ k < Len(r.frames) /\ k \in Nat /\ r.frames[k] = th[t].frames[k]
                /\ (k < Len(th[t].frames) \/ k = Len(th[t].frames))
  BY <1>1, <1>6, <1>7
<1>10. ASSUME NEW k \in DOMAIN r.frames PROVE FrameRight(r, k, conn'[r.frames[k].eng])
  <2>1. CASE k = Len(r.frames) /\ r.frames[k] = f
    <3>1. conn'[r.frames[k].eng] = c
      BY <1>2, <1>6, <2>1 DEF Touches, Types
    <3> QED
      BY <1>1, <1>4, <1>7, <2>1, <3>1 DEF FrameRight
  <2>2. CASE k \in DOMAIN th[t].frames /\ k < Len(r.frames) /\ k \in Nat /\ r.frames[k] = th[t].frames[k]
             /\ (k < Len(th[t].frames) \/ k = Len(th[t].frames))
    <3>1. conn'[r.frames[k].eng] = conn[th[t].frames[k].eng]
      BY <1>1, <1>2, <2>2, OwnConns
    <3>2. FrameRight(th[t], k, conn[th[t].frames[k].eng])
      BY <2>2, FrameIs
    <3>3. conn[th[t].frames[k].eng].wrote # None => Plain(conn[th[t].frames[k].eng].wrote)
      BY <1>8, <2>2, <3>2, PlainIs DEF FrameRight
    <3> QED
      BY <1>7, <2>2, <3>1, <3>3 DEF FrameRight
  <2> QED
    BY <1>9, <2>1, <2>2
<1> QED
  BY <1>3, <1>10 DEF FramesNext

LEMMA EndsTxs ==
  ASSUME Types, ThreadsRight, Owned, Entered, InTxs, dialect # "Mysql",
         NEW t \in Threads, NEW out, NEW r, Ends(t, out, r), UNCHANGED conn \/ \E c : Touches(t, th[t].tls, c)
  PROVE  FramesNext(t)
<1>1. /\ Steps(t, r) /\ Len(r.frames) = Len(th[t].frames) - 1 /\ Ups(r) = {} /\ Downs(r) = {}
      /\ \A k \in DOMAIN r.frames : k \in DOMAIN th[t].frames /\ k # Len(th[t].frames)
                                    /\ r.frames[k] = th[t].frames[k]
      /\ th[t].frames \in Seq(Frames)
  BY DEF Ends, Closed, Types, Thread
<1>2. th'[t] = r
  BY <1>1, OneThread DEF After
<1>3. ASSUME NEW k \in DOMAIN r.frames PROVE FrameRight(r, k, conn'[r.frames[k].eng])
  <2>1. conn'[r.frames[k].eng] = conn[th[t].frames[k].eng]
    BY <1>1, OwnConns
  <2>2. FrameRight(th[t], k, conn[th[t].frames[k].eng])
    BY <1>1, FrameIs
  <2>3. k < Len(th[t].frames)
    BY <1>1
  <2>4. conn[th[t].frames[k].eng].wrote # None => Plain(conn[th[t].frames[k].eng].wrote)
    BY <2>2, <2>3 DEF FrameRight
  <2> QED
    BY <1>1, <2>1, <2>4, PlainIs DEF FrameRight
<1> QED
  BY <1>2, <1>3 DEF FramesNext

LEMMA TxsAfter ==
  ASSUME Types, ThreadsRight, Owned, Entered, Clean, FramesOpen, InStore, InTxs, NEW t \in Threads, Does(t)
  PROVE  InTxs'
<1>1. CASE dialect = "Mysql"
  BY <1>1, DialectStays DEF InTxs
<1>2. CASE dialect # "Mysql"
  <2>1. ASSUME NEW e, NEW c, NEW r, AppMove(t, r) \/ Sleeps(t, r) \/ GetsOne(t, e, r) \/ Gives1(t, r) \/ Reads1(t, r)
                                    \/ NotBegun(t, r) \/ RollsBack(t, c, r)
        PROVE  FramesNext(t)
    BY <1>2, <2>1, QuietTxs
  <2>2. ASSUME NEW s, NEW r, WritesOne(t, s, r) PROVE FramesNext(t)
    BY <1>2, <2>2, WritesTxs
  <2>3. ASSUME NEW c, NEW r, FailsOne(t, c, r) PROVE FramesNext(t)
    BY <1>2, <2>3, FailsTxs
  <2>4. ASSUME NEW r, Begins(t, r) PROVE FramesNext(t)
    BY <1>2, <2>4, BeginsTxs
  <2>5. ASSUME NEW r, Commits(t, r) \/ Throws(t, r) \/ Loses(t, r) PROVE FramesNext(t)
    <3>1. \E out : Ends(t, out, r)
      BY <2>5 DEF Commits, Throws, Loses
    <3>2. UNCHANGED conn \/ \E c : Touches(t, th[t].tls, c)
      BY <2>5, EndTouches DEF Throws
    <3> QED
      BY <1>2, <3>1, <3>2, EndsTxs
  <2>6. FramesNext(t)
    BY <2>1, <2>2, <2>3, <2>4, <2>5, Zenon DEF Does, Gives1
  <2> QED
    BY <1>2, <2>6, TxsKept
<1> QED
  BY <1>1, <1>2

LEMMA StoreAfter ==
  ASSUME Types, ThreadsRight, Owned, Entered, Clean, FramesOpen, InStore, InTxs, NEW t \in Threads, Does(t)
  PROVE  InStore'
<1>0. dialect' = dialect
  BY DialectStays
<1> SUFFICES ASSUME dialect # "Mysql" PROVE \A d \in Dbs : Plain(store'[d])
  BY <1>0 DEF InStore
<1>1. \A d \in Dbs : Plain(store[d])
  BY DEF InStore
<1> DEFINE G == \A d \in Dbs : Plain(store'[d])
<1>2. UNCHANGED store => G
  BY <1>1
<1>3. ASSUME NEW e, NEW w, Plain(w), store' = [store EXCEPT ![e] = w] PROVE G
  BY <1>1, <1>3 DEF Types
<1>4. ASSUME NEW r, AppMove(t, r) \/ Sleeps(t, r) \/ GivesBack(t, r) \/ Reads1(t, r) \/ NotBegun(t, r)
                    \/ Begins(t, r) \/ Throws(t, r)
      PROVE  UNCHANGED store
  BY <1>4 DEF AppMove, Sleeps, GivesBack, Reads1, NotBegun, Begins, Throws
<1>5. ASSUME NEW e, NEW r, GetsOne(t, e, r) \/ FailsOne(t, e, r) \/ RollsBack(t, e, r) PROVE UNCHANGED store
  BY <1>5 DEF GetsOne, FailsOne, RollsBack
<1>6. ASSUME NEW s, NEW r, WritesOne(t, s, r) PROVE G
  <2>1. CASE ~AtOnce(t)
    BY <1>2, <1>6, <2>1 DEF WritesOne
  <2>2. CASE AtOnce(t)
    <3>1. th[t].frames = <<>> /\ EndedRight(t, TRUE, r)
      BY <1>6, <2>2, WritesInside DEF WritesOne
    <3>2. ~r.prog.own
      BY <3>1 DEF EndedRight, ThreadRight, EngineRight
    <3>3. Plain(s)
      BY <1>6, <3>2, WritesTxs, NoHalves, PlainIs
    <3> QED
      BY <1>3, <1>6, <2>2, <3>3 DEF WritesOne
  <2> QED
    BY <2>1, <2>2
<1>7. ASSUME NEW r, Commits(t, r) \/ Loses(t, r) PROVE G
  <2>1. \/ UNCHANGED store
        \/ /\ conn[th[t].tls].wrote # None
           /\ store' = [store EXCEPT ![DbOf[th[t].tls]] = conn[th[t].tls].wrote]
    BY <1>7 DEF Commits, Loses
  <2>2. PICK out \in {"returned", "unknown"} : Ends(t, out, r) /\ th[t].pc = "commit"
    BY <1>7 DEF Commits, Loses
  <2>3. th[t].frames # <<>>
    BY <2>2, EndEntries
  <2>4. /\ Len(th[t].frames) \in DOMAIN th[t].frames /\ th[t].frames[Len(th[t].frames)].eng = th[t].tls
    BY <2>3, TopEntry
  <2>5. FrameRight(th[t], Len(th[t].frames), conn[th[t].tls])
    BY <2>4, FrameIs
  <2>6. ~Broken(th[t]) /\ Ups(th[t]) = {} /\ Downs(th[t]) = {}
    BY <2>2, NotBroken, NoHalves DEF Types, ThreadsRight
  <2>7. conn[th[t].tls].wrote # None => Plain(conn[th[t].tls].wrote)
    BY <2>5, <2>6, PlainIs DEF FrameRight
  <2> QED
    BY <1>2, <1>3, <2>1, <2>7
<1> HIDE DEF G
<1>8. G
  BY <1>2, <1>4, <1>5, <1>6, <1>7, Zenon DEF Does
<1> QED
  BY <1>8 DEF G

LEMMA VersionsFirst == Init => InStore /\ InTxs
<1>1. \A i \in DOMAIN Versions :
        Empty.ran[i] = 0 /\ Empty.undone[i] = 0 /\ Empty.taken[i] = 0 /\ i \notin Empty.recorded
  BY DEF Empty, Zeros
<1>2. Plain(Empty)
  BY <1>1 DEF Plain, Due
<1>3. Init => \A d \in Dbs : store[d] = Empty
  BY DEF Init
<1>4. Init => \A t \in Threads : th[t].frames = <<>>
  BY DEF Init
<1> QED
  BY <1>2, <1>3, <1>4 DEF InStore, InTxs

(* Database::migrate and rollback_last (database.cpp) run a version and    *)
(* record it in one transaction: in a committed state a version's up has   *)
(* run once for every record there is or was, and its down, where it has   *)
(* one, for every record taken away, whatever fails or races them.         *)
THEOREM Migrations == Spec => []MigratedOnce
<1> DEFINE Inv == FramesOpen /\ InStore /\ InTxs
<1>1. Base /\ Base' /\ Inv /\ [Next]_vars => Inv'
  <2> SUFFICES ASSUME Base, Inv, [Next]_vars PROVE FramesOpen' /\ InStore' /\ InTxs'
    OBVIOUS
  <2>1. Types /\ ThreadsRight /\ Owned /\ Entered /\ Clean
    BY DEF Base
  <2>2. CASE Next
    BY <2>1, <2>2, EveryStep, OpenAfter, StoreAfter, TxsAfter
  <2>3. CASE UNCHANGED vars
    BY <2>3 DEF FramesOpen, OpenFrame, Exempt, InStore, InTxs, vars
  <2> QED
    BY <2>2, <2>3
<1>2. Inv => MigratedOnce
  BY DEF InStore, Plain, Due, MigratedOnce
<1>3. Init => Inv
  BY OpenFirst, VersionsFirst
<1> HIDE DEF Inv
<1> QED
  BY <1>1, <1>2, <1>3, BaseHolds, PTL DEF Spec

-----------------------------------------------------------------------------
(* The numbers of exec calls.                                              *)

(* The number that a step may do. *)
New(t) == IF th[t].pc = "stmt" /\ th[t].want.op = "log" THEN {th[t].want.n} ELSE {}

LEMMA NewIs ==
  ASSUME Numbered, NEW t \in Threads, NEW n \in New(t)
  PROVE  /\ Pending(t) /\ n = th[t].want.n /\ n \in (0 .. calls) \ Marks
         /\ \A i \in DOMAIN tx : n \notin tx[i].did
<1>1. Pending(t) /\ n = th[t].want.n
  BY DEF New, Pending, Logging
<1> QED
  BY <1>1 DEF Numbered

LEMMA WrittenLog ==
  ASSUME NEW q \in Stmts, NEW v \in States, q.op \in StmtOps \ Reads, NEW w, w = Written(q, v)
  PROVE  /\ q.op = "log" => w.log = v.log \cup {q.n}
         /\ q.op # "log" => w.log = v.log
<1>1. q.op \in {"log", "insert", "update", "delete", "table", "up", "down", "record", "unrecord"}
  BY DEF StmtOps, Reads
<1>2. CASE q.op = "log"
  <2>1. w = [v EXCEPT !.log = v.log \cup {q.n}]
    BY <1>2 DEF Written
  <2> QED
    BY <1>2, <2>1 DEF States
<1>3. CASE q.op = "insert"
  <2>1. PICK x : w = [v EXCEPT !.rows = x]
    BY <1>3 DEF Written
  <2> QED
    BY <1>3, <2>1 DEF States
<1>4. CASE q.op = "update"
  <2>1. PICK x : x = {IF Matches(r, q)
                      THEN [r EXCEPT !.val = Assign(r.val, q.cols, q.val),
                                     !.meant = Assign(r.meant, q.meant, q.val)]
                      ELSE r : r \in v.rows}
    OBVIOUS
  <2>2. w = [v EXCEPT !.rows = x]
    BY <1>4, <2>1, Zenon DEF Written
  <2> QED
    BY <1>4, <2>2 DEF States
<1>5. CASE q.op = "delete"
  <2>1. PICK x : w = [v EXCEPT !.rows = x]
    BY <1>5 DEF Written
  <2> QED
    BY <1>5, <2>1 DEF States
<1>6. CASE q.op = "table"
  BY <1>6 DEF Written
<1>7. CASE q.op = "up"
  <2>1. PICK x : x = [v.ran EXCEPT ![q.n] = v.ran[q.n] + 1]
    OBVIOUS
  <2>2. w = [v EXCEPT !.ran = x]
    BY <1>7, <2>1 DEF Written, States
  <2> QED
    BY <1>7, <2>2 DEF States
<1>8. CASE q.op = "down"
  <2>1. PICK x : x = [v.undone EXCEPT ![q.n] = v.undone[q.n] + 1]
    OBVIOUS
  <2>2. w = [v EXCEPT !.undone = x]
    BY <1>8, <2>1 DEF Written, States
  <2> QED
    BY <1>8, <2>2 DEF States
<1>9. CASE q.op = "record"
  <2>1. PICK x : w = [v EXCEPT !.recorded = x]
    BY <1>9 DEF Written
  <2> QED
    BY <1>9, <2>1 DEF States
<1>10. CASE q.op = "unrecord"
  <2>1. PICK x, y : w = [v EXCEPT !.recorded = x, !.taken = y]
    BY <1>10 DEF Written
  <2> QED
    BY <1>10, <2>1 DEF States
<1> QED
  BY <1>1, <1>2, <1>3, <1>4, <1>5, <1>6, <1>7, <1>8, <1>9, <1>10

LEMMA WritesLog ==
  ASSUME Types, ThreadsRight, NEW t \in Threads, NEW s, NEW r, WritesOne(t, s, r)
  PROVE  s.log = Sees(th[t].eng).log \cup New(t)
<1>1. /\ th[t].want \in Stmts /\ Sees(th[t].eng) \in States /\ th[t].want.op \in StmtOps \ Reads
      /\ s = Written(th[t].want, Sees(th[t].eng)) /\ th[t].pc = "stmt"
  BY DEF WritesOne, AtStmt
<1>2. /\ th[t].want.op = "log" => s.log = Sees(th[t].eng).log \cup {th[t].want.n}
      /\ th[t].want.op # "log" => s.log = Sees(th[t].eng).log
  BY <1>1, WrittenLog
<1> QED
  BY <1>1, <1>2 DEF New

LEMMA MarksAre ==
  /\ \A d \in Dbs : store[d].log \subseteq There
  /\ \A e \in Engines : LogOf(conn[e].wrote) \subseteq Marks
  /\ There \subseteq Marks
  /\ \A e \in Engines : conn[e].wrote # None => conn[e].wrote.log \subseteq Marks
<1>1. \A e \in Engines : conn[e].wrote # None => LogOf(conn[e].wrote) = conn[e].wrote.log
  BY DEF LogOf
<1> QED
  BY <1>1 DEF Marks, There

LEMMA SeesMarks ==
  ASSUME Types, NEW e \in Engines
  PROVE  Sees(e).log \subseteq Marks
<1>1. DbOf[e] \in Dbs
  BY Constants
<1>2. conn[e].wrote # None => conn[e].wrote.log \subseteq Marks
  BY MarksAre
<1>3. store[DbOf[e]].log \subseteq Marks
  BY <1>1, MarksAre
<1> QED
  BY <1>2, <1>3 DEF Sees

LEMMA MarksFlow ==
  ASSUME Types, ThreadsRight, NEW t \in Threads, Does(t)
  PROVE  Marks' \subseteq Marks \cup New(t)
<1>0. Flow(t)
  BY FlowOf
<1>1. ASSUME NEW s, NEW r, WritesOne(t, s, r) PROVE s.log \subseteq Marks \cup New(t)
  <2>1. th[t].eng \in Engines
    BY <1>1 DEF WritesOne, AtStmt
  <2> QED
    BY <1>1, <2>1, WritesLog, SeesMarks
<1>2. ASSUME NEW d \in Dbs PROVE store'[d].log \subseteq Marks \cup New(t)
  <2>1. CASE store'[d] = store[d]
    BY <2>1, MarksAre
  <2>2. CASE \E e \in Engines : conn[e].wrote # None /\ store'[d] = conn[e].wrote
    BY <2>2, MarksAre
  <2>3. CASE \E s, r : WritesOne(t, s, r) /\ store'[d] = s
    BY <1>1, <2>3
  <2> QED
    BY <1>0, <2>1, <2>2, <2>3 DEF Flow
<1>3. ASSUME NEW e \in Engines PROVE LogOf(conn'[e].wrote) \subseteq Marks \cup New(t)
  <2>1. CASE conn'[e].wrote = None
    BY <2>1 DEF LogOf
  <2>2. CASE conn'[e].wrote = conn[e].wrote
    BY <2>2, MarksAre
  <2>3. CASE \E s, r : WritesOne(t, s, r) /\ conn'[e].wrote = s
    <3>1. PICK s, r : WritesOne(t, s, r) /\ conn'[e].wrote = s
      BY <2>3
    <3>2. LogOf(s) \subseteq s.log
      BY DEF LogOf
    <3> QED
      BY <1>1, <3>1, <3>2
  <2> QED
    BY <1>0, <2>1, <2>2, <2>3 DEF Flow
<1>4. ASSUME NEW n \in Marks'
      PROVE  (\E d \in Dbs : n \in store'[d].log) \/ (\E e \in Engines : n \in LogOf(conn'[e].wrote))
  BY DEF Marks, There, LogOf
<1> QED
  BY <1>2, <1>3, <1>4

(* An entry is not of the transaction that the thread is in. *)
Aside(t, i) == ~(th[t].frames # <<>> /\ i = Top(t).x)

LEMMA AsideStays ==
  ASSUME Types, ThreadsRight, Entered, NEW t \in Threads, Does(t), NEW i \in DOMAIN tx, Aside(t, i)
  PROVE  i \in DOMAIN tx' /\ tx'[i].did = tx[i].did /\ tx'[i].out = tx[i].out
<1>1. CASE tx' = tx
  BY <1>1
<1>2. CASE \E ok, y : ok \in BOOLEAN /\ Notes(t, ok, y)
  BY <1>2, QuietNotes DEF Aside
<1>3. CASE \E r : Begins(t, r)
  BY <1>3, BeginEntries
<1>4. CASE \E out, r : out \in {"returned", "threw", "unknown"} /\ Ends(t, out, r)
  BY <1>4, EndEntries DEF Aside
<1> QED
  BY <1>1, <1>2, <1>3, <1>4, EntriesAfter DEF Quiet

LEMMA NoteAdds ==
  ASSUME Types, ThreadsRight, Entered, NEW t \in Threads, NEW ok \in BOOLEAN, Noted(t, ok), AtStmt(t)
  PROVE  \A i \in DOMAIN tx' : i \in DOMAIN tx /\ tx'[i].did \subseteq tx[i].did \cup New(t)
<1>1. th[t].want.n \in Nat /\ th[t].pc = "stmt"
  BY DEF AtStmt, Stmts
<1>2. PICK y : Notes(t, ok, y)
  BY <1>1, NotedDoes
<1>3. /\ DOMAIN tx' = DOMAIN tx
      /\ \A i \in DOMAIN tx : tx'[i] = IF th[t].frames # <<>> /\ i = Top(t).x THEN y ELSE tx[i]
      /\ th[t].frames # <<>> => Top(t).x \in DOMAIN tx
  BY <1>2, QuietNotes
<1>4. th[t].frames # <<>> => y.did \subseteq tx[Top(t).x].did \cup New(t)
  BY <1>1, <1>2, <1>3 DEF Notes, New
<1> QED
  BY <1>3, <1>4

LEMMA DidsFlow ==
  ASSUME Types, ThreadsRight, Entered, NEW t \in Threads, Does(t)
  PROVE  \A i \in DOMAIN tx' : \/ i \in DOMAIN tx /\ tx'[i].did \subseteq tx[i].did \cup New(t)
                               \/ tx'[i].did = {}
<1> DEFINE G == \A i \in DOMAIN tx' : \/ i \in DOMAIN tx /\ tx'[i].did \subseteq tx[i].did \cup New(t)
                                      \/ tx'[i].did = {}
<1>1. tx' = tx => G
  OBVIOUS
<1>2. ASSUME NEW r, AppMove(t, r) \/ Sleeps(t, r) \/ GivesBack(t, r) \/ Reads1(t, r) \/ NotBegun(t, r)
      PROVE  tx' = tx
  BY <1>2 DEF AppMove, Sleeps, GivesBack, Reads1, NotBegun
<1>3. ASSUME NEW e, NEW r, GetsOne(t, e, r) \/ RollsBack(t, e, r) PROVE tx' = tx
  BY <1>3 DEF GetsOne, RollsBack
<1>4. ASSUME NEW s, NEW r, WritesOne(t, s, r) \/ FailsOne(t, s, r) PROVE G
  <2>1. AtStmt(t) /\ (Noted(t, TRUE) \/ Noted(t, FALSE))
    BY <1>4 DEF WritesOne, FailsOne
  <2> QED
    BY <2>1, NoteAdds
<1>5. ASSUME NEW r, Begins(t, r) PROVE G
  BY <1>5, BeginEntries
<1>6. ASSUME NEW r, Commits(t, r) \/ Throws(t, r) \/ Loses(t, r) PROVE G
  <2>1. PICK out \in {"returned", "threw", "unknown"} : Ends(t, out, r)
    BY <1>6 DEF Commits, Throws, Loses
  <2> QED
    BY <2>1, EndEntries
<1> HIDE DEF G
<1>7. G
  BY <1>1, <1>2, <1>3, <1>4, <1>5, <1>6, Zenon DEF Does
<1> QED
  BY <1>7 DEF G

(* Who has an exec call to do after a step had it before, or is new. *)
Pends(t) ==
  \A u \in Threads : Logging(th'[u]) =>
    \/ Pending(u) /\ th'[u].want.n = th[u].want.n /\ (u = t => th[t].pc # "stmt")
    \/ u = t /\ th'[t].want.n = calls + 1 /\ calls' = calls + 1

LEMMA PendsOne ==
  ASSUME Types, ThreadsRight, NEW t \in Threads, NEW r, Steps(t, r),
         Logging(r) => \/ Pending(t) /\ r.want.n = th[t].want.n /\ th[t].pc # "stmt"
                       \/ r.want.n = calls + 1 /\ calls' = calls + 1
  PROVE  Pends(t)
<1>1. th'[t] = r /\ \A u \in Threads \ {t} : th'[u] = th[u]
  BY OneThread DEF After
<1>2. ASSUME NEW u \in Threads, u # t, Logging(th'[u]) PROVE Pending(u) /\ th'[u].want.n = th[u].want.n
  BY <1>1, <1>2 DEF Pending, Logging
<1> QED
  BY <1>1, <1>2 DEF Pends

LEMMA PendsAfter ==
  ASSUME Types, ThreadsRight, NEW t \in Threads, Does(t)
  PROVE  Pends(t)
<1>1. ASSUME NEW r, AppMove(t, r) PROVE Pends(t)
  <2>1. Steps(t, r) /\ r.pc # "asleep"
    BY <1>1 DEF AppMove, Steps
  <2>2. Logging(r) => r.want.n = calls + 1 /\ calls' = calls + 1
    BY <1>1 DEF AppMove, Logging
  <2> QED
    BY <2>1, <2>2, PendsOne
<1>2. ASSUME NEW e, NEW r, Sleeps(t, r) \/ GetsOne(t, e, r) PROVE Pends(t)
  <2>1. Steps(t, r) /\ r.want = th[t].want /\ th[t].pc = "acquire"
    BY <1>2 DEF Sleeps, GetsOne, Turned, Took
  <2>2. Logging(r) => Pending(t) /\ r.want.n = th[t].want.n /\ th[t].pc # "stmt"
    BY <2>1 DEF Pending, Logging
  <2> QED
    BY <2>1, <2>2, PendsOne
<1>3. ASSUME NEW s, NEW r, Reads1(t, r) \/ WritesOne(t, s, r) \/ FailsOne(t, s, r) \/ Begins(t, r)
                           \/ NotBegun(t, r) \/ RollsBack(t, s, r) \/ Commits(t, r) \/ Throws(t, r) \/ Loses(t, r)
      PROVE  Pends(t)
  <2>1. Steps(t, r)
    BY <1>3 DEF Reads1, WritesOne, FailsOne, Begins, NotBegun, RollsBack, Commits, Throws, Loses, Ends
  <2>2. r.pc \in {"app", "release", "rollback"}
    BY <1>3 DEF Reads1, WritesOne, FailsOne, EndedRight, Begins, Opened, NotBegun, RollsBack, LeavesFields,
                Commits, Throws, Loses
  <2> QED
    BY <2>1, <2>2, PendsOne DEF Logging
<1>4. ASSUME NEW r, Gives1(t, r) PROVE Pends(t)
  <2>1. GivesBack(t, r) /\ r.pc = "app" /\ r \in Thread /\ ThreadRight(r)
    BY <1>4 DEF Gives1, GivesBack, Gave
  <2>2. CASE th' = [th EXCEPT ![t] = r]
    BY <2>1, <2>2, PendsOne DEF Steps, Logging
  <2>3. CASE \E u, v : Wakes(t, r, u, v)
    <3>1. PICK u, v : Wakes(t, r, u, v)
      BY <2>3
    <3>2. /\ th'[t] = r /\ th'[u] = v /\ u # t /\ v.want = th[u].want /\ th[u].pc = "asleep"
          /\ \A w \in Threads \ {t, u} : th'[w] = th[w]
      BY <2>1, <3>1, TwoThreads DEF AfterBoth, Wakes, Turned
    <3>3. ASSUME NEW w \in Threads, Logging(th'[w]) PROVE w # t /\ Pending(w) /\ th'[w].want.n = th[w].want.n
      BY <2>1, <3>2, <3>3 DEF Pending, Logging
    <3> QED
      BY <3>3 DEF Pends
  <2> QED
    BY <1>4, <2>2, <2>3 DEF Gives1
<1> QED
  BY <1>1, <1>2, <1>3, <1>4, Zenon DEF Does, Gives1

LEMMA CallsFlow ==
  ASSUME Types, NEW t \in Threads, Does(t)
  PROVE  calls' \in {calls, calls + 1} /\ calls \in Nat
<1>0. calls \in Nat
  BY DEF Types
<1>1. ASSUME NEW r, AppMove(t, r) \/ Sleeps(t, r) \/ GivesBack(t, r) \/ Reads1(t, r) \/ NotBegun(t, r) \/ Begins(t, r)
                    \/ Commits(t, r) \/ Throws(t, r) \/ Loses(t, r)
      PROVE  calls' \in {calls, calls + 1}
  BY <1>1 DEF AppMove, Sleeps, GivesBack, Reads1, NotBegun, Begins, Commits, Throws, Loses, Ends
<1>2. ASSUME NEW s, NEW r, WritesOne(t, s, r) \/ FailsOne(t, s, r) \/ RollsBack(t, s, r) \/ GetsOne(t, s, r)
      PROVE  calls' \in {calls, calls + 1}
  BY <1>2 DEF WritesOne, FailsOne, RollsBack, GetsOne
<1> QED
  BY <1>0, <1>1, <1>2, Zenon DEF Does

LEMMA NumbersAfter ==
  ASSUME Types, ThreadsRight, Entered, Numbered, NEW t \in Threads, Does(t)
  PROVE  Numbered'
<1>1. /\ Marks' \subseteq Marks \cup New(t) /\ Pends(t) /\ calls' \in {calls, calls + 1} /\ calls \in Nat
      /\ \A i \in DOMAIN tx' : \/ i \in DOMAIN tx /\ tx'[i].did \subseteq tx[i].did \cup New(t)
                               \/ tx'[i].did = {}
  BY MarksFlow, PendsAfter, CallsFlow, DidsFlow
<1>2. 0 .. calls \subseteq 0 .. calls'
  BY <1>1
<1>3. \A n \in New(t) : /\ Pending(t) /\ n = th[t].want.n /\ n \in 0 .. calls /\ n \notin Marks
                        /\ \A i \in DOMAIN tx : n \notin tx[i].did
  BY NewIs
<1>4. Marks' \subseteq 0 .. calls'
  BY <1>1, <1>2, <1>3 DEF Numbered
<1>5. \A i \in DOMAIN tx' : tx'[i].did \subseteq 0 .. calls'
  BY <1>1, <1>2, <1>3 DEF Numbered
<1>6. ASSUME NEW i \in DOMAIN tx', NEW j \in DOMAIN tx', NEW n \in tx'[i].did \cap tx'[j].did
      PROVE  i = j
  <2>1. i \in DOMAIN tx /\ j \in DOMAIN tx
    BY <1>1, <1>6
  <2>2. CASE n \in New(t)
    <3>1. n \notin tx[i].did /\ n \notin tx[j].did
      BY <1>3, <2>1, <2>2
    <3>2. ~Aside(t, i) /\ ~Aside(t, j)
      BY <1>6, <2>1, <3>1, AsideStays
    <3> QED
      BY <3>2 DEF Aside
  <2>3. CASE n \notin New(t)
    <3>1. n \in tx[i].did \cap tx[j].did
      BY <1>1, <1>6, <2>3
    <3> QED
      BY <2>1, <3>1 DEF Numbered
  <2> QED
    BY <2>2, <2>3
<1>7. \A u \in Threads : Pending(u)' <=> Logging(th'[u])
  BY DEF Pending
<1>8. ASSUME NEW u \in Threads, Logging(th'[u])
      PROVE  \/ /\ Pending(u) /\ th'[u].want.n = th[u].want.n /\ th[u].want.n \in 0 .. calls
                /\ th[u].want.n \notin Marks /\ th[u].want.n \notin New(t)
                /\ \A i \in DOMAIN tx : th[u].want.n \notin tx[i].did
             \/ u = t /\ th'[u].want.n = calls + 1 /\ calls' = calls + 1
  <2>1. CASE Pending(u) /\ th'[u].want.n = th[u].want.n /\ (u = t => th[t].pc # "stmt")
    <3>1. th[u].want.n \notin New(t)
      BY <1>3, <2>1 DEF Numbered, New
    <3> QED
      BY <2>1, <3>1 DEF Numbered
  <2> QED
    BY <1>1, <1>8, <2>1 DEF Pends
<1>9. calls + 1 \notin 0 .. calls /\ calls + 1 \in 0 .. calls + 1
  BY <1>1
<1>10. calls + 1 \notin Marks' /\ \A i \in DOMAIN tx' : calls + 1 \notin tx'[i].did
  BY <1>1, <1>3, <1>9 DEF Numbered
<1>11. ASSUME NEW u \in Threads, Logging(th'[u])
       PROVE  /\ th'[u].want.n \in (0 .. calls') \ Marks'
              /\ \A i \in DOMAIN tx' : th'[u].want.n \notin tx'[i].did
  <2>1. CASE u = t /\ th'[u].want.n = calls + 1 /\ calls' = calls + 1
    BY <1>9, <1>10, <2>1
  <2>2. CASE /\ Pending(u) /\ th'[u].want.n = th[u].want.n /\ th[u].want.n \in 0 .. calls
             /\ th[u].want.n \notin Marks /\ th[u].want.n \notin New(t)
             /\ \A i \in DOMAIN tx : th[u].want.n \notin tx[i].did
    BY <1>1, <1>2, <2>2
  <2> QED
    BY <1>8, <1>11, <2>1, <2>2
<1>12. ASSUME NEW u \in Threads, NEW v \in Threads, Logging(th'[u]), Logging(th'[v]),
              th'[u].want.n = th'[v].want.n
       PROVE  u = v
  <2>1. CASE Pending(u) /\ th'[u].want.n = th[u].want.n /\ Pending(v) /\ th'[v].want.n = th[v].want.n
    BY <1>12, <2>1 DEF Numbered
  <2> QED
    BY <1>8, <1>9, <1>12, <2>1
<1>13. \A i, j \in DOMAIN tx' : tx'[i].did \cap tx'[j].did # {} => i = j
  BY <1>6
<1>14. \A u \in Threads : Pending(u)' =>
         /\ th'[u].want.n \in (0 .. calls') \ Marks'
         /\ \A i \in DOMAIN tx' : th'[u].want.n \notin tx'[i].did
  BY <1>7, <1>11
<1>15. \A u, v \in Threads : Pending(u)' /\ Pending(v)' /\ th'[u].want.n = th'[v].want.n => u = v
  BY <1>7, <1>12
<1> QED
  BY <1>4, <1>5, <1>13, <1>14, <1>15, Zenon DEF Numbered

-----------------------------------------------------------------------------
(* One connection of a database has written, and what it did.              *)

LEMMA WroteFlow ==
  ASSUME Types, ThreadsRight, NEW t \in Threads, Does(t), NEW e \in Engines
  PROVE  conn'[e].wrote \in {None, conn[e].wrote} \/ (e = th[t].eng /\ \E s, r : WritesOne(t, s, r))
<1>1. CASE \E s, r : WritesOne(t, s, r)
  <2>1. PICK s, r : WritesOne(t, s, r)
    BY <1>1
  <2>2. PICK c : Touches(t, th[t].eng, c)
    BY <2>1, WriteTouches
  <2>3. e # th[t].eng => conn'[e] = conn[e]
    BY <2>2 DEF Touches, Types
  <2> QED
    BY <2>1, <2>3
<1>2. CASE ~ \E s, r : WritesOne(t, s, r)
  BY <1>2, FlowOf DEF Flow
<1> QED
  BY <1>1, <1>2

LEMMA WriterAfter ==
  ASSUME Types, ThreadsRight, OneWriter, NEW t \in Threads, Does(t)
  PROVE  OneWriter'
<1> SUFFICES ASSUME NEW e \in Engines, NEW f \in Engines, DbOf[e] = DbOf[f],
                    conn'[e].wrote # None, conn'[f].wrote # None
             PROVE  e = f
  BY DEF OneWriter
<1>1. ASSUME NEW g \in Engines, NEW h \in Engines, DbOf[g] = DbOf[h], g = th[t].eng, \E s, r : WritesOne(t, s, r),
             conn[h].wrote # None
      PROVE  g = h
  BY <1>1 DEF WritesOne, Blocked
<1>2. CASE conn[e].wrote # None /\ conn[f].wrote # None
  BY <1>2 DEF OneWriter
<1>3. CASE conn[e].wrote = None
  <2>1. e = th[t].eng /\ \E s, r : WritesOne(t, s, r)
    BY <1>3, WroteFlow
  <2> QED
    BY <1>1, <2>1, WroteFlow
<1>4. CASE conn[f].wrote = None
  <2>1. f = th[t].eng /\ \E s, r : WritesOne(t, s, r)
    BY <1>4, WroteFlow
  <2> QED
    BY <1>1, <2>1, WroteFlow
<1> QED
  BY <1>2, <1>3, <1>4

(* A database stays as it is for whoever else has written in it. *)
LEMMA StoreStill ==
  ASSUME Types, ThreadsRight, OneWriter, NEW t \in Threads, Does(t), NEW e \in Engines, conn[e].wrote # None
  PROVE  \/ store'[DbOf[e]] = store[DbOf[e]]
         \/ e = th[t].eng /\ \E s, r : WritesOne(t, s, r)
         \/ e = th[t].tls /\ \E r : Commits(t, r) \/ Loses(t, r)
<1> DEFINE G == \/ store'[DbOf[e]] = store[DbOf[e]]
                \/ e = th[t].eng /\ \E s, r : WritesOne(t, s, r)
                \/ e = th[t].tls /\ \E r : Commits(t, r) \/ Loses(t, r)
<1>1. UNCHANGED store => G
  OBVIOUS
<1>2. ASSUME NEW r, AppMove(t, r) \/ Sleeps(t, r) \/ GivesBack(t, r) \/ Reads1(t, r) \/ NotBegun(t, r)
                    \/ Begins(t, r) \/ Throws(t, r)
      PROVE  UNCHANGED store
  BY <1>2 DEF AppMove, Sleeps, GivesBack, Reads1, NotBegun, Begins, Throws
<1>3. ASSUME NEW s, NEW r, GetsOne(t, s, r) \/ FailsOne(t, s, r) \/ RollsBack(t, s, r) PROVE UNCHANGED store
  BY <1>3 DEF GetsOne, FailsOne, RollsBack
<1>4. ASSUME NEW d, NEW w, store' = [store EXCEPT ![d] = w], d # DbOf[e] PROVE G
  <2>1. DbOf[e] \in Dbs
    BY Constants
  <2> QED
    BY <1>4, <2>1 DEF Types
<1>5. ASSUME NEW s, NEW r, WritesOne(t, s, r) PROVE G
  <2>1. CASE e = th[t].eng
    BY <1>5, <2>1
  <2>2. CASE e # th[t].eng
    <3>1. DbOf[th[t].eng] # DbOf[e]
      BY <1>5, <2>2 DEF WritesOne, Blocked
    <3>2. UNCHANGED store \/ store' = [store EXCEPT ![DbOf[th[t].eng]] = s]
      BY <1>5 DEF WritesOne
    <3> QED
      BY <1>1, <1>4, <3>1, <3>2
  <2> QED
    BY <2>1, <2>2
<1>6. ASSUME NEW r, Commits(t, r) \/ Loses(t, r) PROVE G
  <2>1. CASE e = th[t].tls
    BY <1>6, <2>1
  <2>2. CASE e # th[t].tls
    <3>1. \/ UNCHANGED store
          \/ /\ conn[th[t].tls].wrote # None
             /\ store' = [store EXCEPT ![DbOf[th[t].tls]] = conn[th[t].tls].wrote]
      BY <1>6 DEF Commits, Loses
    <3>2. th[t].tls \in Engines
      BY <1>6, EndTouches DEF Touches
    <3>3. conn[th[t].tls].wrote # None => DbOf[th[t].tls] # DbOf[e]
      BY <2>2, <3>2 DEF OneWriter
    <3> QED
      BY <1>1, <1>4, <3>1, <3>3
  <2> QED
    BY <2>1, <2>2
<1> HIDE DEF G
<1>7. G
  BY <1>1, <1>2, <1>3, <1>5, <1>6, Zenon DEF Does
<1> QED
  BY <1>7 DEF G

(* A frame that the step does not touch stays right. *)
WroteNext(f) ==
  /\ conn'[f.eng].wrote # None => store'[DbOf[f.eng]].log \subseteq conn'[f.eng].wrote.log
  /\ conn'[f.eng].wrote # None => conn'[f.eng].wrote.log \subseteq store'[DbOf[f.eng]].log \cup tx'[f.x].did
  /\ ~ExemptNext(f.x) /\ ~conn'[f.eng].dead => tx'[f.x].did \subseteq LogOf(conn'[f.eng].wrote)
  /\ conn'[f.eng].aborted => tx'[f.x].swallowed /\ dialect' = "Postgres"

LEMMA WroteKept ==
  ASSUME NEW f, Wrote(f), Lasting, f.x \in DOMAIN tx, conn'[f.eng] = conn[f.eng], tx'[f.x].did = tx[f.x].did,
         store'[DbOf[f.eng]] = store[DbOf[f.eng]] \/ conn[f.eng].wrote = None
  PROVE  WroteNext(f)
<1>1. /\ dialect' = dialect /\ (tx[f.x].schema => tx'[f.x].schema) /\ (tx[f.x].swallowed => tx'[f.x].swallowed)
  BY DEF Lasting
<1>2. ~ExemptNext(f.x) => ~Exempt(f.x)
  BY <1>1 DEF Exempt, ExemptNext
<1> QED
  BY <1>1, <1>2 DEF Wrote, WroteNext

WrotesNext(t) == \A k \in DOMAIN th'[t].frames : WroteNext(th'[t].frames[k])

LEMMA FrameWrote ==
  ASSUME Written1, Entered, NEW t \in Threads, NEW k \in DOMAIN th[t].frames
  PROVE  Wrote(th[t].frames[k]) /\ th[t].frames[k].x \in DOMAIN tx
BY DEF Written1, Entered

LEMMA OtherEntries ==
  ASSUME Types, ThreadsRight, Entered, NEW t \in Threads, NEW u \in Threads, NEW k \in DOMAIN th[u].frames,
         u # t \/ k # Len(th[u].frames)
  PROVE  Aside(t, th[u].frames[k].x)
<1> SUFFICES ASSUME th[t].frames # <<>>, th[u].frames[k].x = Top(t).x PROVE FALSE
  BY DEF Aside
<1>1. Top(t) = th[t].frames[Len(th[t].frames)] /\ Len(th[t].frames) \in DOMAIN th[t].frames
  BY TopEntry
<1> QED
  BY <1>1 DEF Entered

LEMMA WrotesKept ==
  ASSUME Types, ThreadsRight, Owned, Entered, OneWriter, Written1, NEW t \in Threads, Does(t), WrotesNext(t)
  PROVE  Written1'
<1>1. ASSUME NEW u \in Threads, u # t, NEW k \in DOMAIN th'[u].frames PROVE WroteNext(th'[u].frames[k])
  <2>1. Untouched(u)
    BY <1>1, OthersUntouched
  <2>2. k \in DOMAIN th[u].frames /\ th'[u].frames[k] = th[u].frames[k]
    BY <2>1 DEF Untouched
  <2>3. PICK f : f = th[u].frames[k]
    OBVIOUS
  <2>4. /\ Wrote(f) /\ f.x \in DOMAIN tx /\ conn'[f.eng] = conn[f.eng]
    BY <2>1, <2>2, <2>3, FrameWrote DEF Untouched
  <2>5. Aside(t, f.x)
    BY <1>1, <2>2, <2>3, OtherEntries
  <2>6. tx'[f.x].did = tx[f.x].did
    BY <2>4, <2>5, AsideStays
  <2>7. f.eng \in Engines /\ f.eng \in HoldsOf(th[u])
    <3>1. th[u].frames \in Seq(Frames)
      BY DEF Types, Thread
    <3>2. th[u].frames[k] \in Frames
      BY <2>2, <3>1
    <3> QED
      BY <2>2, <2>3, <3>2 DEF Frames, HoldsOf, Engs
  <2>8. f.eng \notin HoldsOf(th[t])
    BY <1>1, <2>7 DEF Owned
  <2>9. store'[DbOf[f.eng]] = store[DbOf[f.eng]] \/ conn[f.eng].wrote = None
    <3>1. ASSUME NEW s, NEW r, WritesOne(t, s, r) PROVE th[t].eng \in HoldsOf(th[t])
      BY <3>1, EngHeld DEF WritesOne, AtStmt
    <3>2. ASSUME NEW r, Commits(t, r) \/ Loses(t, r) PROVE th[t].tls \in HoldsOf(th[t])
      BY <3>2, EndTouches DEF Touches
    <3> QED
      BY <2>7, <2>8, <3>1, <3>2, StoreStill
  <2>10. WroteNext(f)
    BY <2>4, <2>6, <2>9, LastingEntries, WroteKept
  <2> QED
    BY <2>2, <2>3, <2>10
<1>2. \A u \in Threads : \A k \in DOMAIN th'[u].frames : WroteNext(th'[u].frames[k])
  BY <1>1 DEF WrotesNext
<1>3. \A u \in Threads : \A k \in DOMAIN th'[u].frames : Wrote(th[u].frames[k])'
  BY <1>2 DEF Wrote, WroteNext, Exempt, ExemptNext
<1> QED
  BY <1>3 DEF Written1

(* So do the frames of the thread itself under its innermost transaction.  *)
LEMMA UnderKept ==
  ASSUME Types, ThreadsRight, Owned, Entered, OneWriter, Written1, NEW t \in Threads, Does(t),
         NEW k \in DOMAIN th[t].frames, k # Len(th[t].frames),
         UNCHANGED conn \/ \E e, c : Touches(t, e, c) /\ (e = th[t].tls \/ e \notin Engs(th[t]))
  PROVE  WroteNext(th[t].frames[k])
<1>1. PICK f : f = th[t].frames[k]
  OBVIOUS
<1>2. Wrote(f) /\ f.x \in DOMAIN tx /\ Aside(t, f.x)
  BY <1>1, FrameWrote, OtherEntries
<1>3. tx'[f.x].did = tx[f.x].did
  BY <1>2, AsideStays
<1>4. conn'[f.eng] = conn[f.eng]
  BY <1>1, OwnConns
<1>5. f.eng \in Engines /\ f.eng # th[t].tls
  <2>1. th[t].frames \in Seq(Frames) /\ FramesRight(th[t]) /\ th[t] \in Thread
    BY DEF Types, Thread, ThreadsRight, ThreadRight
  <2>2. th[t].frames[k] \in Frames /\ th[t].frames # <<>>
    BY <2>1
  <2>3. th[t].tls = th[t].frames[Len(th[t].frames)].eng /\ Len(th[t].frames) \in DOMAIN th[t].frames
    BY <2>1, <2>2, TopFrame
  <2> QED
    BY <1>1, <2>1, <2>2, <2>3 DEF Frames, FramesRight
<1>6. ASSUME NEW s, NEW r, WritesOne(t, s, r) PROVE th[t].eng = th[t].tls
  <2>1. th[t].frames # <<>>
    OBVIOUS
  <2> QED
    BY <1>6, <2>1 DEF WritesOne, AtStmt
<1>7. store'[DbOf[f.eng]] = store[DbOf[f.eng]] \/ conn[f.eng].wrote = None
  BY <1>5, <1>6, StoreStill
<1>8. WroteNext(f)
  BY <1>2, <1>3, <1>4, <1>7, LastingEntries, WroteKept
<1> QED
  BY <1>1, <1>8

LEMMA QuietWrotes ==
  ASSUME Types, ThreadsRight, Owned, Entered, Written1, NEW t \in Threads, Does(t), NEW e, NEW c, NEW r,
         AppMove(t, r) \/ Sleeps(t, r) \/ GetsOne(t, e, r) \/ Gives1(t, r) \/ Reads1(t, r)
           \/ NotBegun(t, r) \/ RollsBack(t, c, r)
  PROVE  WrotesNext(t)
<1>1. th'[t].frames = th[t].frames /\ UNCHANGED <<store, tx>>
  <2>1. CASE Gives1(t, r)
    <3>1. GivesBack(t, r) /\ r.frames = th[t].frames /\ UNCHANGED <<store, tx>>
      BY <2>1 DEF Gives1, GivesBack, Gave
    <3>2. CASE th' = [th EXCEPT ![t] = r]
      BY <3>1, <3>2 DEF Types
    <3>3. CASE \E u, v : Wakes(t, r, u, v)
      BY <3>1, <3>3, TwoThreads DEF AfterBoth
    <3> QED
      BY <2>1, <3>2, <3>3 DEF Gives1
  <2>2. CASE ~Gives1(t, r)
    <3>1. th' = [th EXCEPT ![t] = r] /\ UNCHANGED <<store, tx>>
      BY <2>2 DEF AppMove, Sleeps, GetsOne, Reads1, NotBegun, RollsBack, Steps
    <3>2. r.frames = th[t].frames
      BY <2>2 DEF AppMove, Sleeps, Turned, GetsOne, Took, Reads1, EndedRight, NotBegun, RollsBack, LeavesFields
    <3> QED
      BY <3>1, <3>2 DEF Types
  <2> QED
    BY <2>1, <2>2
<1>2. ASSUME NEW k \in DOMAIN th[t].frames PROVE conn'[th[t].frames[k].eng] = conn[th[t].frames[k].eng]
  <2>1. CASE RollsBack(t, c, r)
    <3>1. th[t].eng \notin Engs(th[t])
      BY <2>1 DEF RollsBack, LeavesFields
    <3> QED
      BY <2>1, <3>1, RollbackTouches, OwnConns
  <2>2. CASE ~RollsBack(t, c, r)
    <3>1. UNCHANGED conn
      BY <2>2 DEF AppMove, Sleeps, GetsOne, Gives1, GivesBack, Reads1, NotBegun
    <3> QED
      BY <3>1
  <2> QED
    BY <2>1, <2>2
<1>3. ASSUME NEW k \in DOMAIN th[t].frames PROVE WroteNext(th[t].frames[k])
  BY <1>1, <1>2, FrameWrote, LastingEntries, WroteKept
<1> QED
  BY <1>1, <1>3 DEF WrotesNext

LEMMA FailsWrotes ==
  ASSUME Types, ThreadsRight, Owned, Entered, OneWriter, Written1, NEW t \in Threads, Does(t), NEW c, NEW r,
         FailsOne(t, c, r)
  PROVE  WrotesNext(t)
<1>1. /\ Steps(t, r) /\ r.frames = th[t].frames /\ AtStmt(t) /\ c \in {Failed(th[t].eng), Dead} /\ Noted(t, FALSE)
      /\ th[t].eng \in Engines /\ (th[t].frames # <<>> => th[t].eng = th[t].tls) /\ UNCHANGED store
      /\ th[t].want.n \in Nat
  BY DEF FailsOne, EndedRight, AtStmt, Stmts
<1>2. th'[t] = r
  BY <1>1, OneThread DEF After
<1>3. Touches(t, th[t].eng, c)
  BY FailTouches
<1>4. ASSUME NEW k \in DOMAIN th[t].frames PROVE WroteNext(th[t].frames[k])
  <2>0. th[t].frames # <<>> /\ th[t].eng = th[t].tls
    BY <1>1
  <2>1. CASE k # Len(th[t].frames)
    BY <1>3, <2>0, <2>1, UnderKept
  <2>2. CASE k = Len(th[t].frames)
    <3>1. PICK f : f = Top(t) /\ f = th[t].frames[k] /\ f.x \in DOMAIN tx /\ f.eng = th[t].tls
      BY <2>0, <2>2, TopEntry
    <3>2. conn'[f.eng] = c
      BY <1>3, <2>0, <2>2, <3>1, OwnConns
    <3>3. Wrote(f)
      BY <3>1, FrameWrote
    <3>4. PICK y : Notes(t, FALSE, y)
      BY <1>1, NotedDoes
    <3>5. tx'[f.x] = y /\ y.did = tx[f.x].did /\ y.swallowed
      BY <2>0, <3>1, <3>4, QuietNotes DEF Notes
    <3>6. ~ExemptNext(f.x) => ~Exempt(f.x)
      BY <3>1, LastingEntries DEF Lasting, Exempt, ExemptNext
    <3>7. dialect' = dialect
      BY DialectStays
    <3>8. CASE c = Failed(th[t].eng)
      <4>1. /\ c.dead = conn[f.eng].dead /\ c.wrote = conn[f.eng].wrote /\ (c.aborted => dialect = "Postgres")
        BY <1>1, <2>0, <3>1, <3>8, FailedIs
      <4> QED
        BY <1>1, <3>1, <3>2, <3>3, <3>5, <3>6, <3>7, <4>1 DEF Wrote, WroteNext
    <3>9. CASE c = Dead
      <4>1. c.dead /\ c.wrote = None /\ ~c.aborted
        BY <3>9 DEF Dead, Fresh
      <4> QED
        BY <3>1, <3>2, <4>1 DEF WroteNext
    <3> QED
      BY <1>1, <3>8, <3>9
  <2> QED
    BY <2>1, <2>2
<1> QED
  BY <1>1, <1>2, <1>4 DEF WrotesNext

(* A statement that is committed at once is in no transaction, or in one   *)
(* that MySQL has ended or ends now.                                       *)
LEMMA AutoExempt ==
  ASSUME Types, ThreadsRight, Entered, FramesOpen, NEW t \in Threads, Does(t), NEW s, NEW r,
         WritesOne(t, s, r), th[t].frames # <<>>, AtOnce(t)
  PROVE  ExemptNext(Top(t).x)
<1>1. /\ th[t].eng = th[t].tls /\ ~conn[th[t].eng].dead /\ Noted(t, TRUE) /\ th[t].want.n \in Nat
  BY DEF WritesOne, AtStmt, Stmts
<1>2. OpenFrame(Top(t)) /\ Top(t).eng = th[t].tls /\ Top(t).x \in DOMAIN tx
  BY TopEntry DEF FramesOpen
<1>3. Lasting
  BY LastingEntries
<1>4. CASE ~conn[th[t].eng].open
  BY <1>1, <1>2, <1>3, <1>4 DEF OpenFrame, Exempt, ExemptNext, Lasting
<1>5. CASE dialect = "Mysql" /\ th[t].want.op \in OnSchema
  <2>1. PICK y : Notes(t, TRUE, y)
    BY <1>1, NotedDoes
  <2>2. tx'[Top(t).x] = y /\ y.schema
    BY <1>2, <1>5, <2>1, QuietNotes DEF Notes
  <2> QED
    BY <1>3, <1>5, <2>2 DEF ExemptNext, Lasting
<1> QED
  BY <1>4, <1>5 DEF AtOnce

LEMMA WritesWrotes ==
  ASSUME Types, ThreadsRight, Owned, Entered, FramesOpen, OneWriter, Written1, NEW t \in Threads, Does(t),
         NEW s, NEW r, WritesOne(t, s, r)
  PROVE  WrotesNext(t)
<1>1. /\ Steps(t, r) /\ r.frames = th[t].frames /\ AtStmt(t) /\ Noted(t, TRUE) /\ s \in States
      /\ th[t].eng \in Engines /\ (th[t].frames # <<>> => th[t].eng = th[t].tls)
      /\ th[t].want.n \in Nat /\ th[t].pc = "stmt" /\ conn[th[t].eng] \in Conns /\ ~conn[th[t].eng].dead
      /\ ~conn[th[t].eng].aborted /\ (~AtOnce(t) => UNCHANGED store)
  BY DEF WritesOne, EndedRight, AtStmt, Stmts
<1>2. th'[t] = r
  BY <1>1, OneThread DEF After
<1>3. PICK c : /\ Touches(t, th[t].eng, c)
               /\ AtOnce(t) => c = Fresh
               /\ ~AtOnce(t) => c = [conn[th[t].eng] EXCEPT !.wrote = s]
  BY WriteTouches
<1>4. ASSUME NEW k \in DOMAIN th[t].frames PROVE WroteNext(th[t].frames[k])
  <2>0. th[t].frames # <<>> /\ th[t].eng = th[t].tls
    BY <1>1
  <2>1. CASE k # Len(th[t].frames)
    BY <1>3, <2>0, <2>1, UnderKept
  <2>2. CASE k = Len(th[t].frames)
    <3>1. PICK f : f = Top(t) /\ f = th[t].frames[k] /\ f.x \in DOMAIN tx /\ f.eng = th[t].tls
      BY <2>0, <2>2, TopEntry
    <3>2. conn'[f.eng] = c
      BY <1>3, <2>0, <2>2, <3>1, OwnConns
    <3>3. Wrote(f)
      BY <3>1, FrameWrote
    <3>4. CASE AtOnce(t)
      <4>1. ExemptNext(f.x)
        BY <2>0, <3>1, <3>4, AutoExempt
      <4>2. c.wrote = None /\ ~c.aborted
        BY <1>3, <3>4 DEF Fresh
      <4> QED
        BY <3>1, <3>2, <4>1, <4>2 DEF WroteNext
    <3>5. CASE ~AtOnce(t)
      <4>1. c.wrote = s /\ ~c.aborted /\ c.dead = conn[f.eng].dead /\ s # None /\ ~conn[f.eng].dead
        BY <1>1, <1>3, <2>0, <3>1, <3>5, Constants DEF Conns
      <4>2. PICK y : Notes(t, TRUE, y)
        BY <1>1, NotedDoes
      <4>3. tx'[f.x] = y /\ y.did = tx[f.x].did \cup New(t)
        BY <1>1, <2>0, <3>1, <4>2, QuietNotes DEF Notes, New
      <4>4. ~ExemptNext(f.x) => ~Exempt(f.x)
        BY <3>1, LastingEntries DEF Lasting, Exempt, ExemptNext
      <4>5. s.log = Sees(f.eng).log \cup New(t) /\ LogOf(s) = s.log
        BY <2>0, <3>1, <4>1, WritesLog DEF LogOf
      <4>6. /\ conn[f.eng].wrote = None => Sees(f.eng) = store[DbOf[f.eng]] /\ LogOf(conn[f.eng].wrote) = {}
            /\ conn[f.eng].wrote # None => Sees(f.eng) = conn[f.eng].wrote
                                           /\ LogOf(conn[f.eng].wrote) = conn[f.eng].wrote.log
        BY DEF Sees, LogOf
      <4>7. store[DbOf[f.eng]].log \subseteq s.log
        BY <3>3, <4>5, <4>6 DEF Wrote
      <4>8. s.log \subseteq store[DbOf[f.eng]].log \cup y.did
        BY <3>3, <4>3, <4>5, <4>6 DEF Wrote
      <4>9. ~ExemptNext(f.x) => y.did \subseteq s.log
        BY <3>3, <4>1, <4>3, <4>4, <4>5, <4>6 DEF Wrote
      <4>10. WroteNext(f)
        BY <1>1, <3>2, <3>5, <4>1, <4>3, <4>5, <4>7, <4>8, <4>9 DEF WroteNext
      <4> QED
        BY <3>1, <4>10
    <3> QED
      BY <3>4, <3>5
  <2> QED
    BY <2>1, <2>2
<1> QED
  BY <1>1, <1>2, <1>4 DEF WrotesNext

LEMMA BeginsWrotes ==
  ASSUME Types, ThreadsRight, Owned, Entered, Clean, OneWriter, Written1, NEW t \in Threads, Does(t), NEW r,
         Begins(t, r)
  PROVE  WrotesNext(t)
<1>1. /\ Steps(t, r) /\ r.frames = Append(th[t].frames, [eng |-> th[t].eng, prev |-> th[t].tls, x |-> Len(tx) + 1])
      /\ th[t].eng \in Engines /\ th[t].eng \notin Engs(th[t]) /\ th[t].pc = "begin"
      /\ th[t].frames \in Seq(Frames) /\ conn[th[t].eng] \in Conns /\ UNCHANGED store
  BY DEF Begins, Opened, Types, Thread
<1>2. PICK c : Touches(t, th[t].eng, c) /\ c = [conn[th[t].eng] EXCEPT !.open = TRUE]
  BY BeginTouches
<1>3. th'[t] = r
  BY <1>1, OneThread DEF After
<1>4. c.wrote = None /\ ~c.aborted
  <2>1. CleanConn(conn[th[t].eng])
    BY <1>1, AloneClean DEF Alone
  <2>2. conn[th[t].eng].wrote = None /\ ~conn[th[t].eng].aborted
    BY <2>1 DEF CleanConn, Fresh, Dead
  <2> QED
    BY <1>1, <1>2, <2>2 DEF Conns
<1>5. PICK f : f = [eng |-> th[t].eng, prev |-> th[t].tls, x |-> Len(tx) + 1]
  OBVIOUS
<1>6. r.frames = Append(th[t].frames, f) /\ f.eng = th[t].eng /\ f.x = Len(tx) + 1
  BY <1>1, <1>5
<1>7. WroteNext(f)
  <2>1. conn'[f.eng] = c
    BY <1>1, <1>2, <1>6 DEF Touches, Types
  <2>2. tx'[f.x].did = {}
    BY <1>6, BeginEntries
  <2> QED
    BY <1>4, <2>1, <2>2 DEF WroteNext
<1>8. ASSUME NEW k \in DOMAIN th[t].frames PROVE WroteNext(th[t].frames[k])
  <2>1. conn'[th[t].frames[k].eng] = conn[th[t].frames[k].eng]
    BY <1>1, <1>2, OwnConns
  <2>2. tx'[th[t].frames[k].x] = tx[th[t].frames[k].x]
    BY FrameWrote, BeginEntries
  <2> QED
    BY <1>1, <2>1, <2>2, FrameWrote, LastingEntries, WroteKept
<1>9. ASSUME NEW k \in DOMAIN r.frames
      PROVE  r.frames[k] = f \/ (k \in DOMAIN th[t].frames /\ r.frames[k] = th[t].frames[k])
  BY <1>1, <1>6
<1> QED
  BY <1>3, <1>7, <1>8, <1>9 DEF WrotesNext

LEMMA EndsWrotes ==
  ASSUME Types, ThreadsRight, Owned, Entered, OneWriter, Written1, NEW t \in Threads, Does(t),
         NEW out, NEW r, Ends(t, out, r), UNCHANGED conn \/ \E c : Touches(t, th[t].tls, c)
  PROVE  WrotesNext(t)
<1>1. /\ Steps(t, r)
      /\ \A k \in DOMAIN r.frames : k \in DOMAIN th[t].frames /\ k # Len(th[t].frames)
                                    /\ r.frames[k] = th[t].frames[k]
  BY DEF Ends, Closed
<1>2. th'[t] = r
  BY <1>1, OneThread DEF After
<1>3. ASSUME NEW k \in DOMAIN r.frames PROVE WroteNext(r.frames[k])
  BY <1>1, UnderKept
<1> QED
  BY <1>2, <1>3 DEF WrotesNext

LEMMA WroteAfter ==
  ASSUME Types, ThreadsRight, Owned, Entered, Clean, FramesOpen, OneWriter, Written1, NEW t \in Threads, Does(t)
  PROVE  Written1'
<1>1. ASSUME NEW e, NEW c, NEW r, AppMove(t, r) \/ Sleeps(t, r) \/ GetsOne(t, e, r) \/ Gives1(t, r) \/ Reads1(t, r)
                                  \/ NotBegun(t, r) \/ RollsBack(t, c, r)
      PROVE  WrotesNext(t)
  BY <1>1, QuietWrotes
<1>2. ASSUME NEW s, NEW r, WritesOne(t, s, r) PROVE WrotesNext(t)
  BY <1>2, WritesWrotes
<1>3. ASSUME NEW c, NEW r, FailsOne(t, c, r) PROVE WrotesNext(t)
  BY <1>3, FailsWrotes
<1>4. ASSUME NEW r, Begins(t, r) PROVE WrotesNext(t)
  BY <1>4, BeginsWrotes
<1>5. ASSUME NEW r, Commits(t, r) \/ Throws(t, r) \/ Loses(t, r) PROVE WrotesNext(t)
  <2>1. \E out : Ends(t, out, r)
    BY <1>5 DEF Commits, Throws, Loses
  <2>2. UNCHANGED conn \/ \E c : Touches(t, th[t].tls, c)
    BY <1>5, EndTouches DEF Throws
  <2> QED
    BY <2>1, <2>2, EndsWrotes
<1>6. WrotesNext(t)
  BY <1>1, <1>2, <1>3, <1>4, <1>5, Zenon DEF Does, Gives1
<1> QED
  BY <1>6, WrotesKept

-----------------------------------------------------------------------------
(* What a transaction did is told by its outcome.                          *)

(* What is new in the databases is not of a call that is not the thread's. *)
Fills(t) ==
  /\ There \subseteq There'
  /\ \A n \in There' \ There : \A i \in DOMAIN tx : Aside(t, i) => n \notin tx[i].did

LEMMA FillsWhen ==
  ASSUME Types, NEW t \in Threads, NEW d \in Dbs, NEW w, store' = [store EXCEPT ![d] = w],
         store[d].log \subseteq w.log,
         \A n \in w.log \ store[d].log : \A i \in DOMAIN tx : Aside(t, i) => n \notin tx[i].did
  PROVE  Fills(t)
<1>1. store'[d] = w /\ \A c \in Dbs : c # d => store'[c] = store[c]
  BY DEF Types
<1>2. \A n : n \in There <=> \E c \in Dbs : n \in store[c].log
  BY DEF There
<1>3. \A n : n \in There' <=> \E c \in Dbs : n \in store'[c].log
  BY DEF There
<1>4. There \subseteq There'
  BY <1>1, <1>2, <1>3
<1>5. \A n \in There' \ There : n \in w.log \ store[d].log
  BY <1>1, <1>2, <1>3
<1> QED
  BY <1>4, <1>5 DEF Fills

LEMMA FillsStill ==
  ASSUME NEW t \in Threads, UNCHANGED store
  PROVE  Fills(t) /\ There' = There
<1>1. There' = There
  BY DEF There
<1> QED
  BY <1>1 DEF Fills

(* What is in a transaction is committed, or was done in it. *)
LEMMA InTransaction ==
  ASSUME Types, ThreadsRight, Entered, Written1, Numbered, NEW t \in Threads, th[t].frames # <<>>,
         conn[th[t].tls].wrote # None
  PROVE  /\ DbOf[th[t].tls] \in Dbs
         /\ store[DbOf[th[t].tls]].log \subseteq conn[th[t].tls].wrote.log
         /\ \A n \in conn[th[t].tls].wrote.log \ store[DbOf[th[t].tls]].log :
              \A i \in DOMAIN tx : Aside(t, i) => n \notin tx[i].did
<1>1. /\ Top(t) = th[t].frames[Len(th[t].frames)] /\ Len(th[t].frames) \in DOMAIN th[t].frames
      /\ Top(t).x \in DOMAIN tx /\ Top(t).eng = th[t].tls /\ th[t].tls \in Engines
  BY TopEntry
<1>2. Wrote(Top(t))
  BY <1>1, FrameWrote
<1>3. /\ store[DbOf[th[t].tls]].log \subseteq conn[th[t].tls].wrote.log
      /\ conn[th[t].tls].wrote.log \subseteq store[DbOf[th[t].tls]].log \cup tx[Top(t).x].did
  BY <1>1, <1>2 DEF Wrote
<1>4. ASSUME NEW n \in tx[Top(t).x].did, NEW i \in DOMAIN tx, Aside(t, i) PROVE n \notin tx[i].did
  BY <1>1, <1>4 DEF Numbered, Aside
<1>5. DbOf[th[t].tls] \in Dbs
  BY <1>1, Constants
<1> QED
  BY <1>3, <1>4, <1>5

LEMMA FillsAfter ==
  ASSUME Types, ThreadsRight, Entered, Clean, Written1, Numbered, NEW t \in Threads, Does(t)
  PROVE  Fills(t)
<1>1. ASSUME NEW r, AppMove(t, r) \/ Sleeps(t, r) \/ GivesBack(t, r) \/ Reads1(t, r) \/ NotBegun(t, r)
                    \/ Begins(t, r) \/ Throws(t, r)
      PROVE  UNCHANGED store
  BY <1>1 DEF AppMove, Sleeps, GivesBack, Reads1, NotBegun, Begins, Throws
<1>2. ASSUME NEW s, NEW r, GetsOne(t, s, r) \/ FailsOne(t, s, r) \/ RollsBack(t, s, r) PROVE UNCHANGED store
  BY <1>2 DEF GetsOne, FailsOne, RollsBack
<1>3. ASSUME NEW s, NEW r, WritesOne(t, s, r) PROVE Fills(t)
  <2>1. /\ AtStmt(t) /\ th[t].eng \in Engines /\ DbOf[th[t].eng] \in Dbs
        /\ (th[t].frames # <<>> => th[t].eng = th[t].tls)
        /\ UNCHANGED store \/ store' = [store EXCEPT ![DbOf[th[t].eng]] = s]
    BY <1>3 DEF WritesOne, AtStmt
  <2>2. s.log = Sees(th[t].eng).log \cup New(t)
    BY <1>3, WritesLog
  <2>3. \A n \in New(t) : \A i \in DOMAIN tx : n \notin tx[i].did
    BY NewIs
  <2>4. /\ store[DbOf[th[t].eng]].log \subseteq Sees(th[t].eng).log
        /\ \A n \in Sees(th[t].eng).log \ store[DbOf[th[t].eng]].log :
              \A i \in DOMAIN tx : Aside(t, i) => n \notin tx[i].did
    <3>1. CASE conn[th[t].eng].wrote = None
      BY <3>1 DEF Sees
    <3>2. CASE conn[th[t].eng].wrote # None
      <4>1. th[t].frames # <<>>
        <5>1. th[t].frames = <<>> => CleanConn(conn[th[t].eng])
          BY <2>1, StmtAlone
        <5> QED
          BY <3>2, <5>1 DEF CleanConn, Fresh, Dead
      <4> QED
        BY <2>1, <3>2, <4>1, InTransaction DEF Sees
    <3> QED
      BY <3>1, <3>2
  <2>5. store[DbOf[th[t].eng]].log \subseteq s.log
    BY <2>2, <2>4
  <2>6. \A n \in s.log \ store[DbOf[th[t].eng]].log : \A i \in DOMAIN tx : Aside(t, i) => n \notin tx[i].did
    BY <2>2, <2>3, <2>4
  <2> QED
    BY <2>1, <2>5, <2>6, FillsWhen, FillsStill
<1>4. ASSUME NEW r, Commits(t, r) \/ Loses(t, r) PROVE Fills(t)
  <2>1. \/ UNCHANGED store
        \/ /\ conn[th[t].tls].wrote # None
           /\ store' = [store EXCEPT ![DbOf[th[t].tls]] = conn[th[t].tls].wrote]
    BY <1>4 DEF Commits, Loses
  <2>2. PICK out \in {"returned", "unknown"} : Ends(t, out, r)
    BY <1>4 DEF Commits, Loses
  <2>3. th[t].frames # <<>>
    BY <2>2, EndEntries
  <2> QED
    BY <2>1, <2>3, InTransaction, FillsWhen, FillsStill
<1>5. Fills(t)
  BY <1>1, <1>2, <1>3, <1>4, FillsStill, Zenon DEF Does
<1> QED
  BY <1>5

KeptNext(i) == ExemptNext(i) \/ Kept(tx'[i], There', dialect')

(* The calls of others are as they were. *)
LEMMA AsideKept ==
  ASSUME Types, ThreadsRight, Entered, Clean, Written1, Numbered, Told, NEW t \in Threads, Does(t),
         NEW i \in DOMAIN tx, Aside(t, i)
  PROVE  KeptNext(i)
<1>1. tx'[i].did = tx[i].did /\ tx'[i].out = tx[i].out
  BY AsideStays
<1>2. Lasting
  BY LastingEntries
<1>3. Fills(t)
  BY FillsAfter
<1>4. tx[i].did \cap There' = tx[i].did \cap There /\ There \subseteq There'
  BY <1>3 DEF Fills
<1>5. CASE Exempt(i)
  BY <1>2, <1>5 DEF Exempt, ExemptNext, KeptNext, Lasting
<1>6. CASE Kept(tx[i], There, dialect)
  <2>1. dialect' = dialect /\ (tx[i].swallowed => tx'[i].swallowed)
    BY <1>2 DEF Lasting
  <2>2. Kept(tx'[i], There', dialect')
    BY <1>1, <1>4, <1>6, <2>1 DEF Kept
  <2> QED
    BY <2>2 DEF KeptNext
<1> QED
  BY <1>5, <1>6 DEF Told

(* An open transaction has done nothing that can be seen. *)
LEMMA OpenTold ==
  ASSUME Types, ThreadsRight, Entered, Told, NEW t \in Threads, Does(t), th[t].frames # <<>>, ~ExemptNext(Top(t).x)
  PROVE  Top(t).x \in DOMAIN tx /\ ~Exempt(Top(t).x) /\ tx[Top(t).x].did \cap There = {}
<1>1. Top(t).x \in DOMAIN tx /\ tx[Top(t).x].out = "open"
  BY TopEntry
<1>2. ~Exempt(Top(t).x)
  BY <1>1, LastingEntries DEF Lasting, Exempt, ExemptNext
<1> QED
  BY <1>1, <1>2 DEF Told, Kept

LEMMA TopKept ==
  ASSUME Types, ThreadsRight, Owned, Entered, Clean, FramesOpen, Written1, Numbered, Told,
         NEW t \in Threads, Does(t), th[t].frames # <<>>, ~ExemptNext(Top(t).x)
  PROVE  Kept(tx'[Top(t).x], There', dialect')
<1>0. PICK x : x = Top(t).x /\ x \in DOMAIN tx /\ ~Exempt(x) /\ tx[x].did \cap There = {} /\ tx[x].out = "open"
  BY OpenTold, TopEntry
<1> DEFINE G == Kept(tx'[x], There', dialect')
<1>1. ASSUME UNCHANGED store, tx'[x].did = tx[x].did, tx'[x].out \in {"open", "threw"} PROVE G
  <2>1. There' = There
    BY <1>1, FillsStill
  <2> QED
    BY <1>0, <1>1, <2>1 DEF Kept
<1>2. ASSUME NEW r, AppMove(t, r) \/ Sleeps(t, r) \/ GivesBack(t, r) \/ Reads1(t, r) \/ NotBegun(t, r)
      PROVE  G
  <2>1. UNCHANGED <<store, tx>>
    BY <1>2 DEF AppMove, Sleeps, GivesBack, Reads1, NotBegun
  <2> QED
    BY <1>0, <1>1, <2>1
<1>3. ASSUME NEW e, NEW r, GetsOne(t, e, r) \/ RollsBack(t, e, r) PROVE G
  <2>1. UNCHANGED <<store, tx>>
    BY <1>3 DEF GetsOne, RollsBack
  <2> QED
    BY <1>0, <1>1, <2>1
<1>4. ASSUME NEW c, NEW r, FailsOne(t, c, r) PROVE G
  <2>1. UNCHANGED store /\ Noted(t, FALSE) /\ th[t].want.n \in Nat
    BY <1>4 DEF FailsOne, AtStmt, Stmts
  <2>2. PICK y : Notes(t, FALSE, y)
    BY <2>1, NotedDoes
  <2>3. tx'[x] = y /\ y.did = tx[x].did /\ y.out = tx[x].out
    BY <1>0, <2>2, QuietNotes DEF Notes
  <2> QED
    BY <1>0, <1>1, <2>1, <2>3
<1>5. ASSUME NEW r, Begins(t, r) PROVE G
  <2>1. UNCHANGED store /\ tx'[x] = tx[x]
    BY <1>0, <1>5, BeginEntries DEF Begins
  <2> QED
    BY <1>0, <1>1, <2>1
<1>6. ASSUME NEW s, NEW r, WritesOne(t, s, r) PROVE G
  <2>1. Noted(t, TRUE) /\ th[t].want.n \in Nat /\ th[t].pc = "stmt" /\ (~AtOnce(t) => UNCHANGED store)
    BY <1>6 DEF WritesOne, AtStmt, Stmts
  <2>2. ~AtOnce(t)
    BY <1>0, <1>6, AutoExempt
  <2>3. PICK y : Notes(t, TRUE, y)
    BY <2>1, NotedDoes
  <2>4. tx'[x] = y /\ y.did = tx[x].did \cup New(t) /\ y.out = "open"
    BY <1>0, <2>1, <2>3, QuietNotes DEF Notes, New
  <2>5. New(t) \cap There = {}
    BY NewIs, MarksAre
  <2>6. There' = There
    BY <2>1, <2>2, FillsStill
  <2> QED
    BY <1>0, <2>4, <2>5, <2>6 DEF Kept
<1>7. ASSUME NEW r, Throws(t, r) PROVE G
  <2>1. UNCHANGED store /\ Ends(t, "threw", r)
    BY <1>7 DEF Throws
  <2>2. tx'[x].did = tx[x].did /\ tx'[x].out = "threw"
    BY <1>0, <2>1, EndEntries
  <2> QED
    BY <1>1, <2>1, <2>2
<1>8. PICK f : f = Top(t) /\ f.x = x /\ f.eng = th[t].tls /\ th[t].tls \in Engines /\ Wrote(f)
  <2>1. /\ Top(t) = th[t].frames[Len(th[t].frames)] /\ Len(th[t].frames) \in DOMAIN th[t].frames
        /\ Top(t).eng = th[t].tls /\ th[t].tls \in Engines
    BY TopEntry
  <2> QED
    BY <1>0, <2>1, FrameWrote
<1>9. ASSUME ~conn[th[t].tls].dead, conn[th[t].tls].wrote # None,
             store' = [store EXCEPT ![DbOf[th[t].tls]] = conn[th[t].tls].wrote]
      PROVE  tx[x].did \subseteq There'
  <2>1. tx[x].did \subseteq conn[th[t].tls].wrote.log
    BY <1>0, <1>8, <1>9 DEF Wrote, LogOf
  <2>2. DbOf[th[t].tls] \in Dbs
    BY <1>8, Constants
  <2>3. store'[DbOf[th[t].tls]] = conn[th[t].tls].wrote
    BY <1>9, <2>2 DEF Types
  <2>4. store'[DbOf[th[t].tls]].log \subseteq There'
    BY <2>2 DEF There
  <2> QED
    BY <2>1, <2>3, <2>4
<1>10. ASSUME NEW r, Commits(t, r) PROVE G
  <2>1. Ends(t, "returned", r) /\ ~conn[th[t].tls].dead
    BY <1>10 DEF Commits
  <2>2. tx'[x].did = tx[x].did /\ tx'[x].out = "returned" /\ tx'[x].swallowed = tx[x].swallowed
    BY <1>0, <2>1, EndEntries
  <2>3. CASE conn[th[t].tls].aborted
    <3>1. tx[x].swallowed /\ dialect' = "Postgres"
      BY <1>8, <2>3, DialectStays DEF Wrote
    <3> QED
      BY <2>2, <3>1 DEF Kept
  <2>4. CASE conn[th[t].tls].wrote = None
    <3>1. tx[x].did = {}
      BY <1>0, <1>8, <2>1, <2>4 DEF Wrote, LogOf
    <3> QED
      BY <2>2, <3>1 DEF Kept
  <2>5. CASE ~conn[th[t].tls].aborted /\ conn[th[t].tls].wrote # None
    <3>1. tx[x].did \subseteq There'
      BY <1>9, <1>10, <2>1, <2>5 DEF Commits
    <3> QED
      BY <2>2, <3>1 DEF Kept
  <2> QED
    BY <2>3, <2>4, <2>5
<1>11. ASSUME NEW r, Loses(t, r) PROVE G
  <2>1. Ends(t, "unknown", r) /\ ~conn[th[t].tls].dead
    BY <1>11 DEF Loses
  <2>2. tx'[x].did = tx[x].did /\ tx'[x].out = "unknown"
    BY <1>0, <2>1, EndEntries
  <2>3. CASE UNCHANGED store
    <3>1. There' = There
      BY <2>3, FillsStill
    <3> QED
      BY <1>0, <2>2, <3>1 DEF Kept
  <2>4. CASE ~UNCHANGED store
    <3>1. tx[x].did \subseteq There'
      BY <1>9, <1>11, <2>1, <2>4 DEF Loses
    <3> QED
      BY <2>2, <3>1 DEF Kept
  <2> QED
    BY <2>3, <2>4
<1> HIDE DEF G
<1>12. G
  BY <1>2, <1>3, <1>4, <1>5, <1>6, <1>7, <1>10, <1>11, Zenon DEF Does
<1> QED
  BY <1>0, <1>12 DEF G

LEMMA ToldAfter ==
  ASSUME Types, ThreadsRight, Owned, Entered, Clean, FramesOpen, Written1, Numbered, Told,
         NEW t \in Threads, Does(t)
  PROVE  Told'
<1>1. ASSUME NEW i \in DOMAIN tx PROVE KeptNext(i)
  <2>1. CASE Aside(t, i)
    BY <2>1, AsideKept
  <2>2. CASE ~Aside(t, i)
    BY <2>2, TopKept DEF Aside, KeptNext
  <2> QED
    BY <2>1, <2>2
<1>2. ASSUME NEW i \in DOMAIN tx', i \notin DOMAIN tx PROVE KeptNext(i)
  <2>1. CASE Quiet(t)
    BY <1>2, <2>1, QuietEntries
  <2>2. CASE \E r : Begins(t, r)
    <3>1. tx'[i].out = "open" /\ tx'[i].did = {}
      BY <1>2, <2>2, BeginEntries
    <3> QED
      BY <3>1 DEF KeptNext, Kept
  <2>3. CASE \E out, r : out \in {"returned", "threw", "unknown"} /\ Ends(t, out, r)
    BY <1>2, <2>3, EndEntries
  <2> QED
    BY <2>1, <2>2, <2>3, EntriesAfter
<1>3. \A i \in DOMAIN tx' : ExemptNext(i) \/ Kept(tx'[i], There', dialect')
  BY <1>1, <1>2 DEF KeptNext
<1>4. Told' <=> \A i \in DOMAIN tx' : ExemptNext(i) \/ Kept(tx'[i], There', dialect')
  BY DEF Told, Exempt, ExemptNext
<1> QED
  BY <1>3, <1>4

Ledgers == FramesOpen /\ Numbered /\ OneWriter /\ Written1 /\ Told

LEMMA LedgersFirst == Init => Ledgers
<1> SUFFICES ASSUME Init PROVE Ledgers
  OBVIOUS
<1>1. /\ \A t \in Threads : th[t].frames = <<>> /\ th[t].pc = "app"
      /\ \A d \in Dbs : store[d].log = {}
      /\ \A e \in Engines : conn[e].wrote = None
      /\ DOMAIN tx = {} /\ calls = 0
  BY DEF Init, Empty, Fresh
<1>2. There = {}
  BY <1>1 DEF There
<1>3. \A e \in Engines : LogOf(conn[e].wrote) = {}
  BY <1>1 DEF LogOf
<1>4. Marks = {}
  BY <1>2, <1>3 DEF Marks
<1>5. \A t \in Threads : ~Pending(t)
  BY <1>1 DEF Pending, Logging
<1>6. Numbered
  BY <1>1, <1>4, <1>5 DEF Numbered
<1>7. FramesOpen /\ OneWriter /\ Written1 /\ Told
  BY <1>1 DEF FramesOpen, OneWriter, Written1, Told
<1> QED
  BY <1>6, <1>7 DEF Ledgers

LEMMA LedgersNext == Base /\ Ledgers /\ [Next]_vars => Ledgers'
<1> SUFFICES ASSUME Base, Ledgers, [Next]_vars PROVE Ledgers'
  OBVIOUS
<1>1. Types /\ ThreadsRight /\ Owned /\ Entered /\ Clean
  BY DEF Base
<1>2. FramesOpen /\ Numbered /\ OneWriter /\ Written1 /\ Told
  BY DEF Ledgers
<1>3. CASE Next
  <2>1. PICK t \in Threads : Does(t)
    BY <1>1, <1>3, EveryStep
  <2>2. FramesOpen'
    BY <1>1, <1>2, <2>1, OpenAfter
  <2>3. Numbered'
    BY <1>1, <1>2, <2>1, NumbersAfter
  <2>4. OneWriter'
    BY <1>1, <1>2, <2>1, WriterAfter
  <2>5. Written1'
    BY <1>1, <1>2, <2>1, WroteAfter
  <2>6. Told'
    BY <1>1, <1>2, <2>1, ToldAfter
  <2> QED
    BY <2>2, <2>3, <2>4, <2>5, <2>6 DEF Ledgers
<1>4. CASE UNCHANGED vars
  <2>1. FramesOpen' /\ OneWriter'
    BY <1>2, <1>4 DEF FramesOpen, OpenFrame, OneWriter, Exempt, vars
  <2>2. Written1'
    <3>1. conn' = conn /\ store' = store /\ tx' = tx /\ dialect' = dialect /\ th' = th
      BY <1>4 DEF vars
    <3>2. \A f : Wrote(f)' <=> Wrote(f)
      BY <3>1, Zenon DEF Wrote, Exempt, LogOf
    <3> QED
      BY <1>2, <3>1, <3>2 DEF Written1
  <2>3. Numbered' /\ Told'
    BY <1>2, <1>4 DEF Numbered, Marks, There, Pending, Told, Exempt, vars
  <2> QED
    BY <2>1, <2>2, <2>3 DEF Ledgers
<1> QED
  BY <1>3, <1>4

LEMMA ToldTells == Base /\ Ledgers => AllOrNothing
<1> SUFFICES ASSUME Types, Told, NEW i \in DOMAIN tx, ~(dialect = "Mysql" /\ tx[i].schema)
             PROVE  CASE tx[i].out = "returned" ->
                           tx[i].did \subseteq There \/ (dialect = "Postgres" /\ tx[i].swallowed)
                      [] tx[i].out = "unknown" -> tx[i].did \subseteq There \/ tx[i].did \cap There = {}
                      [] OTHER -> tx[i].did \cap There = {}
  BY DEF AllOrNothing, There, Base, Ledgers
<1>1. Kept(tx[i], There, dialect) /\ tx[i].out \in {"open", "returned", "threw", "unknown"}
  <2>1. Kept(tx[i], There, dialect)
    BY DEF Told, Exempt
  <2>2. tx \in Seq(Ledger)
    BY DEF Types
  <2>3. tx[i] \in Ledger
    BY <2>2
  <2> QED
    BY <2>1, <2>3 DEF Ledger
<1>2. CASE tx[i].out = "returned"
  BY <1>1, <1>2 DEF Kept
<1>3. CASE tx[i].out = "unknown"
  BY <1>1, <1>3 DEF Kept
<1>4. CASE tx[i].out \in {"open", "threw"}
  <2>1. tx[i].did \cap There = {} /\ tx[i].out # "returned" /\ tx[i].out # "unknown"
    BY <1>1, <1>4 DEF Kept
  <2> QED
    BY <2>1
<1> QED
  BY <1>1, <1>2, <1>3, <1>4

(* Database::transaction (database.h): what was done in one that returned  *)
(* is in the database, and nothing of one that threw is, for any threads,  *)
(* pools and nesting, whichever statement, BEGIN or COMMIT fails.          *)
THEOREM Transactions == Spec => []AllOrNothing
<1>1. Init => Ledgers
  BY LedgersFirst
<1>2. Base /\ Ledgers /\ [Next]_vars => Ledgers'
  BY LedgersNext
<1>3. Base /\ Ledgers => AllOrNothing
  BY ToldTells
<1> QED
  BY <1>1, <1>2, <1>3, BaseHolds, PTL DEF Spec
===============================================================================
