------------------------------- MODULE Database -------------------------------
(***************************************************************************)
(* socketify::db: the pool of connections, the statements and transactions *)
(* of threads that share it, the migrations, and the records and queries   *)
(* that are sequences of statements.  A step is one statement, one hold of *)
(* the pool's mutex, or a move of the application.                         *)
(*                                                                         *)
(* The SQL server is outside the repository: a statement sees what is      *)
(* committed and what its own transaction wrote, one connection writes at  *)
(* a time, and any statement may fail.  Keys are not unique.               *)
(***************************************************************************)
EXTENDS Integers, SequencesExt, FiniteSets

CONSTANTS
  Threads,    (* threads of the application                                *)
  Engines,    (* connections                                               *)
  DbOf,       (* the database of a connection                              *)
  Keys,       (* values of the column that rows are found by               *)
  Versions,   (* MigrationRegistry::all, a sequence                        *)
  Dialects,   (* of "Sqlite", "Postgres", "Mysql"                          *)
  Ops,        (* calls of the application, of AllOps                       *)
  Migrated,   (* bound: the databases with migrations and records          *)
  MaxCalls,   (* bound: calls of the application in all                    *)
  MaxFaults,  (* bound: statements that fail and connections that are lost *)
  Stamped,    (* the schema has an updated_at column                       *)
  CreateSets, (* columns that create() sets: created_at, those of its hooks*)
  NoDown,     (* migrations registered without a down                      *)
  None        (* no engine, no value                                       *)

Dbs == {DbOf[e] : e \in Engines}
AllOps == {"exec", "transaction", "firstOrCreate", "updateOrCreate", "create", "load",
           "save", "destroy", "migrate", "rollbackLast"}

Columns == {"a", "b"}
Rows    == [id : Nat, key : Keys \cup {None}, val : [Columns -> Nat], meant : [Columns -> Nat]]
Counts  == [DOMAIN Versions -> Nat]

(* How often a version's up and its down have run and its record was taken *)
(* away (ran, undone, taken) is history.                                   *)
States  == [rows : SUBSET Rows, log : SUBSET Nat, recorded : SUBSET DOMAIN Versions,
            ran : Counts, undone : Counts, taken : Counts]

ASSUME DatabaseAssumption ==
  /\ Versions \in Seq(STRING) /\ IsInjective(Versions) /\ Ops \subseteq AllOps
  /\ IsFiniteSet(Threads) /\ IsFiniteSet(Engines) /\ Migrated \subseteq Dbs
  /\ MaxCalls \in Nat /\ MaxFaults \in Nat /\ Stamped \in BOOLEAN
  /\ CreateSets \subseteq Columns /\ NoDown \subseteq DOMAIN Versions
  /\ None \notin Engines \cup Dbs \cup States \cup AllOps

VARIABLES
  dialect,  (* of the databases                                            *)
  store,    (* what is committed in a database                             *)
  conn,     (* the state of a connection                                   *)
  free,     (* Pool::free_                                                 *)
  th,       (* the state of a thread                                       *)
  calls, faults,
  tx        (* history: calls of transaction() and what was done in them   *)

vars == <<dialect, store, conn, free, th, calls, faults, tx>>

Zeros == [i \in DOMAIN Versions |-> 0]
Empty == [rows |-> {}, log |-> {}, recorded |-> {}, ran |-> Zeros, undone |-> Zeros, taken |-> Zeros]
Fresh == [open |-> FALSE, aborted |-> FALSE, wrote |-> None, dead |-> FALSE]
NoProg == [call |-> None, body |-> <<>>, own |-> FALSE]
NoRec == [id |-> 0, text |-> FALSE, db |-> None, val |-> [c \in Columns |-> 0],
          dirty |-> {}, made |-> {}]
NoStmt == [op |-> None, db |-> None, n |-> 0, id |-> 0, key |-> None, given |-> None,
           cols |-> {}, meant |-> {}, val |-> [c \in Columns |-> 0]]

Init ==
  /\ \E x \in Dialects : dialect = x
  /\ store = [d \in Dbs |-> Empty]
  /\ conn = [e \in Engines |-> Fresh]
  /\ free = [d \in Dbs |-> {e \in Engines : DbOf[e] = d}]
  /\ th = [t \in Threads |->
       [pc |-> "app", want |-> NoStmt, eng |-> None, tls |-> None, frames |-> <<>>,
        err |-> FALSE, res |-> {}, prog |-> NoProg, rec |-> NoRec, known |-> {}]]
  /\ calls = 0 /\ faults = 0
  /\ tx = <<>>

-----------------------------------------------------------------------------
(* The server. *)

Sees(e) == IF conn[e].wrote = None THEN store[DbOf[e]] ELSE conn[e].wrote

(* Another connection has written and not yet committed. *)
Blocked(e) == \E f \in Engines \ {e} : DbOf[f] = DbOf[e] /\ conn[f].wrote # None

(* Query::append_where_, for the conditions that are used here. *)
Matches(row, q) ==
  /\ q.id = 0 \/ row.id = q.id
  /\ q.key = None \/ row.key = q.key
  /\ q.given = None \/ \A c \in Columns : row.val[c] = q.given

Found(e, q) == {r \in Sees(e).rows : Matches(r, q)}

Reads == {"select", "applied", "last"}

(* Statements that change the schema, at which MySQL ends a transaction. *)
OnSchema == {"table", "up", "down"}

Assign(val, cols, new) == [c \in Columns |-> IF c \in cols THEN new[c] ELSE val[c]]

(* What a statement that writes makes of s. *)
Written(q, s) ==
  CASE q.op = "log"      -> [s EXCEPT !.log = @ \cup {q.n}]
    [] q.op = "insert"   -> [s EXCEPT !.rows = @ \cup
                              {[id |-> q.n, key |-> q.key, val |-> q.val, meant |-> q.val]}]
    [] q.op = "update"   -> [s EXCEPT !.rows =
                              {IF Matches(r, q)
                               THEN [r EXCEPT !.val = Assign(@, q.cols, q.val),
                                              !.meant = Assign(@, q.meant, q.val)]
                               ELSE r : r \in @}]
    [] q.op = "delete"   -> [s EXCEPT !.rows = {r \in @ : ~Matches(r, q)}]
    [] q.op = "table"    -> s
    [] q.op = "up"       -> [s EXCEPT !.ran[q.n] = @ + 1]
    [] q.op = "down"     -> [s EXCEPT !.undone[q.n] = @ + 1]
    [] q.op = "record"   -> [s EXCEPT !.recorded = @ \cup {q.n}]
    [] q.op = "unrecord" -> [s EXCEPT !.recorded = @ \ {q.n},
                                      !.taken[q.n] = @ + IF q.n \in s.recorded THEN 1 ELSE 0]

(* A version is a primary key. *)
Refused(q, s) == q.op = "record" /\ q.n \in s.recorded

(* The connection e after a statement has failed in it. *)
Failed(e) == [conn[e] EXCEPT !.aborted = conn[e].open /\ dialect = "Postgres"]

-----------------------------------------------------------------------------
(* Statements: Database::exec, query and insert. *)

Top(t) == Last(th[t].frames)

(* On the connection of the thread's transaction, whichever database that  *)
(* is of, and else on one of the pool.  Fault: always on one of the pool.  *)
IssueFresh(t, q, s) == [s EXCEPT !.want = q, !.err = FALSE, !.pc = "acquire"]

Issue(t, q, s) ==
  IF s.tls # None
  THEN [s EXCEPT !.want = q, !.err = FALSE, !.pc = "stmt", !.eng = s.tls]
  ELSE [s EXCEPT !.want = q, !.err = FALSE, !.pc = "acquire"]

Begin(q, s) == [s EXCEPT !.want = [q EXCEPT !.op = "begin"], !.err = FALSE, !.pc = "acquire"]

(* A call has done all it does, or leaves with an error. *)
Settle(s) ==
  IF s.pc = "app" /\ ~s.prog.own /\ (s.err \/ s.prog.body = <<>>)
  THEN [s EXCEPT !.want = NoStmt, !.res = {}, !.known = {}, !.err = FALSE, !.prog = NoProg]
  ELSE s

InTx(t) == th[t].tls = th[t].eng

(* Pool::acquire *)
Acquire(t) ==
  LET d == th[t].want.db
  IN /\ th[t].pc = "acquire"
     /\ IF free[d] = {}
        THEN th' = [th EXCEPT ![t].pc = "asleep"] /\ UNCHANGED free
        ELSE \E e \in free[d] :
               /\ free' = [free EXCEPT ![d] = @ \ {e}]
               /\ th' = [th EXCEPT ![t].eng = e,
                           ![t].pc = IF th[t].want.op = "begin" THEN "begin" ELSE "stmt"]
     /\ UNCHANGED <<dialect, store, conn, calls, faults, tx>>

Asleep(d) == {t \in Threads : th[t].pc = "asleep" /\ th[t].want.db = d}

(* Pool::release_, which wakes one thread that sleeps.  Fault: it wakes    *)
(* nobody.                                                                 *)
ReleaseSilent(t) ==
  LET e == th[t].eng
  IN /\ th[t].pc = "release"
     /\ free' = [free EXCEPT ![DbOf[e]] = @ \cup {e}]
     /\ th' = [th EXCEPT ![t] = Settle([th[t] EXCEPT !.pc = "app", !.eng = None])]
     /\ UNCHANGED <<dialect, store, conn, calls, faults, tx>>

Release(t) ==
  LET e  == th[t].eng
      d  == DbOf[e]
      s  == [th EXCEPT ![t] = Settle([th[t] EXCEPT !.pc = "app", !.eng = None])]
  IN /\ th[t].pc = "release"
     /\ free' = [free EXCEPT ![d] = @ \cup {e}]
     /\ IF Asleep(d) = {}
        THEN th' = s
        ELSE \E u \in Asleep(d) : th' = [s EXCEPT ![u].pc = "acquire"]
     /\ UNCHANGED <<dialect, store, conn, calls, faults, tx>>

(* A statement has ended: a connection of the pool goes back. *)
Ended(t, ok, result) ==
  Settle([th[t] EXCEPT !.pc = IF InTx(t) THEN "app" ELSE "release",
                       !.eng = IF InTx(t) THEN None ELSE th[t].eng,
                       !.err = ~ok, !.res = result])

Noted(t, ok) ==
  tx' = CASE th[t].frames = <<>> -> tx
          [] th[t].frames # <<>> /\ ~ok -> [tx EXCEPT ![Top(t).x].swallowed = TRUE]
          [] OTHER -> CASE th[t].want.op = "log" ->
                             [tx EXCEPT ![Top(t).x].did = @ \cup {th[t].want.n}]
                        [] th[t].want.op \in OnSchema -> [tx EXCEPT ![Top(t).x].schema = TRUE]
                        [] OTHER -> tx

(* SqlEngine::query: prepared, bound, stepped to its last row. *)
Read(t) ==
  LET e == th[t].eng
      q == th[t].want
  IN /\ th[t].pc = "stmt" /\ q.op \in Reads /\ ~conn[e].dead /\ ~conn[e].aborted
     /\ \E r \in CASE q.op = "select"  -> {Found(e, q)}
                   [] q.op = "applied" -> {Sees(e).recorded}
                   [] q.op = "last"    -> IF Sees(e).recorded = {} THEN {{}}
                                          ELSE {{i} : i \in Sees(e).recorded} :
          th' = [th EXCEPT ![t] = Ended(t, TRUE, r)]
     /\ UNCHANGED <<dialect, store, conn, free, calls, faults, tx>>

(* SqlEngine::exec and insert.  Outside a transaction a statement is       *)
(* committed at once.                                                      *)
Write(t) ==
  LET e    == th[t].eng
      q    == th[t].want
      s    == Written(q, Sees(e))
      auto == ~conn[e].open \/ (dialect = "Mysql" /\ q.op \in OnSchema)
  IN /\ th[t].pc = "stmt" /\ q.op \notin Reads /\ ~conn[e].dead /\ ~conn[e].aborted
     /\ ~Blocked(e) /\ ~Refused(q, Sees(e))
     /\ IF auto
        THEN /\ store' = [store EXCEPT ![DbOf[e]] = s]
             /\ conn' = [conn EXCEPT ![e] = Fresh]
        ELSE /\ conn' = [conn EXCEPT ![e].wrote = s]
             /\ UNCHANGED store
     /\ th' = [th EXCEPT ![t] = Ended(t, TRUE, {})]
     /\ Noted(t, TRUE)
     /\ UNCHANGED <<dialect, free, calls, faults>>

(* It waited too long for another writer, it was refused, or for another   *)
(* reason; or the connection is lost, and a transaction in it with it.     *)
Fails(t) ==
  LET e == th[t].eng
      q == th[t].want
  IN /\ th[t].pc = "stmt"
     /\ \/ /\ conn[e].dead \/ conn[e].aborted
              \/ (q.op \notin Reads /\ (Blocked(e) \/ Refused(q, Sees(e))))
           /\ conn' = [conn EXCEPT ![e] = Failed(e)] /\ UNCHANGED faults
        \/ /\ ~conn[e].dead /\ faults < MaxFaults /\ faults' = faults + 1
           /\ \/ conn' = [conn EXCEPT ![e] = Failed(e)]
              \/ dialect # "Sqlite" /\ conn' = [conn EXCEPT ![e] = [Fresh EXCEPT !.dead = TRUE]]
     /\ th' = [th EXCEPT ![t] = Ended(t, FALSE, {})]
     /\ Noted(t, FALSE)
     /\ UNCHANGED <<dialect, store, free, calls>>

-----------------------------------------------------------------------------
(* Database::transaction *)

(* lease->begin(), and the scope: the thread's statements go here now.     *)
BeginTx(t) ==
  LET e == th[t].eng
  IN /\ th[t].pc = "begin" /\ ~conn[e].dead
     /\ conn' = [conn EXCEPT ![e].open = TRUE]
     /\ tx' = Append(tx, [out |-> "open", did |-> {}, swallowed |-> FALSE, schema |-> FALSE])
     /\ th' = [th EXCEPT ![t] = Settle(
          [th[t] EXCEPT !.pc = "app", !.tls = e, !.eng = None, !.prog.own = th[t].prog # NoProg,
             !.frames = Append(th[t].frames, [eng |-> e, prev |-> th[t].tls, x |-> Len(tx) + 1])])]
     /\ UNCHANGED <<dialect, store, free, calls, faults>>

BeginFails(t) ==
  /\ th[t].pc = "begin"
  /\ \/ conn[th[t].eng].dead /\ UNCHANGED faults
     \/ ~conn[th[t].eng].dead /\ faults < MaxFaults /\ faults' = faults + 1
  /\ th' = [th EXCEPT ![t].pc = "release", ![t].err = TRUE]
  /\ UNCHANGED <<dialect, store, conn, free, calls, tx>>

(* ~TransactionScope.  Fault: it forgets what was there before it. *)
EndScopeOpen(t, s) == [s EXCEPT !.eng = Top(t).eng, !.frames = Front(s.frames), !.prog.own = FALSE]

EndScope(t, s) ==
  [s EXCEPT !.tls = Top(t).prev, !.eng = Top(t).eng, !.frames = Front(s.frames), !.prog.own = FALSE]

(* fn has returned, and the transaction is committed; what is aborted ends *)
(* without an error.  Then the scope ends.                                 *)
Commit(t) ==
  LET e == th[t].tls
      x == Top(t).x
  IN /\ th[t].pc = "commit" /\ ~conn[e].dead
     /\ conn' = [conn EXCEPT ![e] = Fresh]
     /\ IF conn[e].aborted \/ conn[e].wrote = None
        THEN UNCHANGED store
        ELSE store' = [store EXCEPT ![DbOf[e]] = conn[e].wrote]
     /\ tx' = [tx EXCEPT ![x].out = "returned"]
     /\ th' = [th EXCEPT ![t] = EndScope(t, [th[t] EXCEPT !.pc = "release", !.err = FALSE])]
     /\ UNCHANGED <<dialect, free, calls, faults>>

(* Fails at the commit, after which nobody can say whether it was done if  *)
(* the connection is lost.                                                 *)
CommitFails(t) ==
  LET e == th[t].tls
      x == Top(t).x
  IN /\ th[t].pc = "commit"
     /\ \/ conn[e].dead /\ tx' = [tx EXCEPT ![x].out = "threw"] /\ UNCHANGED <<faults, conn, store>>
        \/ /\ ~conn[e].dead /\ faults < MaxFaults /\ faults' = faults + 1
           /\ \/ tx' = [tx EXCEPT ![x].out = "threw"] /\ UNCHANGED <<conn, store>>
              \/ /\ dialect # "Sqlite"
                 /\ conn' = [conn EXCEPT ![e] = [Fresh EXCEPT !.dead = TRUE]]
                 /\ tx' = [tx EXCEPT ![x].out = "unknown"]
                 /\ \/ UNCHANGED store
                    \/ ~conn[e].aborted /\ conn[e].wrote # None
                         /\ store' = [store EXCEPT ![DbOf[e]] = conn[e].wrote]
     /\ th' = [th EXCEPT ![t] = EndScope(t, [th[t] EXCEPT !.pc = "rollback"])]
     /\ UNCHANGED <<dialect, free, calls>>

(* fn throws, and the scope ends before the rollback. *)
Throw(t) ==
  /\ th[t].pc = "app" /\ th[t].frames # <<>>
  /\ th' = [th EXCEPT ![t] = EndScope(t, [th[t] EXCEPT !.pc = "rollback"])]
  /\ tx' = [tx EXCEPT ![Top(t).x].out = "threw"]
  /\ UNCHANGED <<dialect, store, conn, free, faults>>

(* The exception goes on.  A ROLLBACK fails only where the connection is   *)
(* lost, and nothing is left to roll back.                                 *)
Rollback(t) ==
  LET e == th[t].eng
  IN /\ th[t].pc = "rollback"
     /\ conn' = [conn EXCEPT ![e] = IF @.dead THEN @ ELSE Fresh]
     /\ th' = [th EXCEPT ![t].pc = "release", ![t].err = TRUE]
     /\ UNCHANGED <<dialect, store, free, calls, faults, tx>>

-----------------------------------------------------------------------------
(* The application.  It may catch what a call throws, and call again. *)

others == <<dialect, store, conn, free, faults, tx>>

Call(t, does) ==
  /\ does \in Ops /\ calls < MaxCalls /\ calls' = calls + 1
  /\ th[t].pc = "app" /\ th[t].prog = NoProg

Exec(t) ==
  /\ Call(t, "exec")
  /\ \E d \in Dbs :
       th' = [th EXCEPT ![t] = Issue(t, [NoStmt EXCEPT !.op = "log", !.db = d, !.n = calls + 1], th[t])]
  /\ UNCHANGED others

Transaction(t) ==
  /\ Call(t, "transaction")
  /\ \E d \in Dbs : th' = [th EXCEPT ![t] = Begin([NoStmt EXCEPT !.db = d], th[t])]
  /\ UNCHANGED others

FnReturns(t) ==
  /\ th[t].pc = "app" /\ th[t].prog = NoProg /\ th[t].frames # <<>>
  /\ th' = [th EXCEPT ![t].pc = "commit"]
  /\ UNCHANGED <<others, calls>>

FnThrows(t) == th[t].prog = NoProg /\ Throw(t) /\ UNCHANGED calls

(* A call that is several statements: what it has still to do.  An error   *)
(* leaves it, and the transaction it has opened.                           *)
Start(s, call, body) == [s EXCEPT !.prog = [NoProg EXCEPT !.call = call, !.body = body]]

At(t, what) ==
  /\ th[t].pc = "app" /\ ~th[t].err
  /\ th[t].prog.body # <<>> /\ Head(th[t].prog.body)[1] = what

Rest(s) == [s EXCEPT !.prog.body = Tail(@)]

ProgThrows(t) == th[t].prog.own /\ th[t].err /\ Throw(t) /\ UNCHANGED calls

-----------------------------------------------------------------------------
(* Database::migrate, which first sees to it that the table of versions is *)
(* there, and rollback_last.  What a migration does and its record are one *)
(* transaction, of its own.  Fault: two.                                   *)
TxBodySplit(first, second, i) ==
  <<<<"begin">>, <<first, i>>, <<"commit">>, <<"begin">>, <<second, i>>, <<"commit">>>>

TxBody(first, second, i) == <<<<"begin">>, <<first, i>>, <<second, i>>, <<"commit">>>>

OnlyUnrecord(i) == <<<<"begin">>, <<"unrecord", i>>, <<"commit">>>>

Migrate(t) ==
  /\ Call(t, "migrate")
  /\ \E d \in Migrated :
       th' = [th EXCEPT ![t] = Issue(t, [NoStmt EXCEPT !.op = "table", !.db = d],
                                     Start(th[t], "migrate", <<<<"applied">>, <<"missing">>>>))]
  /\ UNCHANGED others

Applied(t) ==
  /\ At(t, "applied")
  /\ th' = [th EXCEPT ![t] = Issue(t, [th[t].want EXCEPT !.op = "applied"], Rest(th[t]))]
  /\ UNCHANGED <<others, calls>>

(* applied_at has the resolution of a second: any version may be the last. *)
(* It is read before the transaction that undoes it.                       *)
RollbackLast(t) ==
  /\ Call(t, "rollbackLast")
  /\ \E d \in Migrated :
       th' = [th EXCEPT ![t] = Issue(t, [NoStmt EXCEPT !.op = "last", !.db = d],
                                     Start(th[t], "rollbackLast", <<<<"undo">>>>))]
  /\ UNCHANGED others

(* What the application of every missing version takes. *)
Missing(t) ==
  /\ At(t, "missing")
  /\ th' = [th EXCEPT ![t] = Settle([th[t] EXCEPT !.res = {}, !.prog.body =
       FlattenSeq([i \in DOMAIN Versions |->
                    IF i \in th[t].res THEN <<>> ELSE TxBody("up", "record", i)])])]
  /\ UNCHANGED <<others, calls>>

Undo(t) ==
  /\ At(t, "undo")
  /\ \/ /\ th[t].res = {}
        /\ th' = [th EXCEPT ![t] = Settle(Rest(th[t]))]
     \/ \E i \in th[t].res :
          th' = [th EXCEPT ![t] = [th[t] EXCEPT !.res = {}, !.prog.body =
            IF i \in NoDown THEN OnlyUnrecord(i) ELSE TxBody("down", "unrecord", i)]]
  /\ UNCHANGED <<others, calls>>

ProgBegin(t) ==
  /\ At(t, "begin")
  /\ th' = [th EXCEPT ![t] = Begin([NoStmt EXCEPT !.db = th[t].want.db], Rest(th[t]))]
  /\ UNCHANGED <<others, calls>>

ProgVersion(t) ==
  /\ \E what \in {"up", "record", "down", "unrecord"} :
       /\ At(t, what)
       /\ th' = [th EXCEPT ![t] = Issue(t, [NoStmt EXCEPT !.op = what, !.db = th[t].want.db,
                                           !.n = Head(th[t].prog.body)[2]], Rest(th[t]))]
  /\ UNCHANGED <<others, calls>>

ProgCommit(t) ==
  /\ At(t, "commit")
  /\ th' = [th EXCEPT ![t] = [Rest(th[t]) EXCEPT !.pc = "commit"]]
  /\ UNCHANGED <<others, calls>>

-----------------------------------------------------------------------------
(* Query::first_or_create and update_or_create. *)

Select(d, k) == [NoStmt EXCEPT !.op = "select", !.db = d, !.key = k, !.n = calls + 1]

Sight(t, d) == IF th[t].tls # None /\ DbOf[th[t].tls] = d THEN Sees(th[t].tls) ELSE store[d]

FirstOrCreate(t) ==
  /\ Call(t, "firstOrCreate")
  /\ \E d \in Migrated, k \in Keys :
       th' = [th EXCEPT ![t] =
         Issue(t, Select(d, k),
               [Start(th[t], "firstOrCreate", <<<<"orCreate">>>>) EXCEPT
                  !.known = {r.id : r \in {r \in Sight(t, d).rows : r.key = k}}])]
  /\ UNCHANGED others

UpdateOrCreate(t) ==
  /\ Call(t, "updateOrCreate")
  /\ \E d \in Migrated, k \in Keys :
       th' = [th EXCEPT ![t] =
         Issue(t, Select(d, k), Start(th[t], "updateOrCreate", <<<<"orUpdate">>>>))]
  /\ UNCHANGED others

Value(n) == [c \in Columns |-> n]

(* What it found is returned, and else a row is inserted and looked for.   *)
(* Fault: it is inserted all the same.                                     *)
OrCreateAlways(t) ==
  /\ At(t, "orCreate")
  /\ th' = [th EXCEPT ![t] = Issue(t, [th[t].want EXCEPT !.op = "insert", !.val = Value(th[t].want.n)],
                                   [th[t] EXCEPT !.prog.body = <<<<"again">>>>])]
  /\ UNCHANGED <<others, calls>>

OrCreate(t) ==
  /\ At(t, "orCreate")
  /\ th' = [th EXCEPT ![t] =
       IF th[t].res # {}
       THEN Settle(Rest(th[t]))
       ELSE Issue(t, [th[t].want EXCEPT !.op = "insert", !.val = Value(th[t].want.n)],
                  [th[t] EXCEPT !.prog.body = <<<<"again">>>>])]
  /\ UNCHANGED <<others, calls>>

(* Every row that matches is updated; with none to update, first_or_create *)
(* looks for match and values together.                                    *)
OrUpdate(t) ==
  /\ At(t, "orUpdate")
  /\ th' = [th EXCEPT ![t] =
       IF th[t].res # {}
       THEN Issue(t, [th[t].want EXCEPT !.op = "update", !.cols = Columns, !.meant = Columns,
                                    !.val = Value(th[t].want.n)],
                  [th[t] EXCEPT !.prog.body = <<<<"again">>>>])
       ELSE Issue(t, [th[t].want EXCEPT !.given = th[t].want.n],
                  [th[t] EXCEPT !.prog.body = <<<<"orCreate">>>>])]
  /\ UNCHANGED <<others, calls>>

Again(t) ==
  /\ At(t, "again")
  /\ th' = [th EXCEPT ![t] = Issue(t, [th[t].want EXCEPT !.op = "select"], Rest(th[t]))]
  /\ UNCHANGED <<others, calls>>

-----------------------------------------------------------------------------
(* Model.  A thread has one record at a time.  dirty is dirty_keys_, made  *)
(* what of it the application did not set, and text says whether its id is *)
(* a string, as every column is that Postgres and MySQL have sent.         *)

Create(t) ==
  /\ Call(t, "create")
  /\ \E d \in Migrated, k \in Keys :
       th' = [th EXCEPT ![t] =
         Issue(t, [Select(d, k) EXCEPT !.op = "insert", !.val = Value(calls + 1)],
               Start(th[t], "create", <<<<"created">>>>))]
  /\ UNCHANGED others

(* persist_insert_ clears dirty_, which save() does not look at. *)
Created(t) ==
  /\ At(t, "created")
  /\ th' = [th EXCEPT ![t] = Settle([Rest(th[t]) EXCEPT !.rec =
       [NoRec EXCEPT !.id = th[t].want.n, !.db = th[t].want.db, !.val = Value(th[t].want.n),
                     !.dirty = CreateSets, !.made = CreateSets]])]
  /\ UNCHANGED <<others, calls>>

Load(t) ==
  /\ Call(t, "load")
  /\ \E d \in Migrated, k \in Keys :
       th' = [th EXCEPT ![t] = Issue(t, Select(d, k), Start(th[t], "load", <<<<"loaded">>>>))]
  /\ UNCHANGED others

Loaded(t) ==
  /\ At(t, "loaded")
  /\ \/ th[t].res = {} /\ th' = [th EXCEPT ![t] = Settle(Rest(th[t]))]
     \/ \E r \in th[t].res :
          th' = [th EXCEPT ![t] = Settle([Rest(th[t]) EXCEPT !.rec =
            [NoRec EXCEPT !.id = r.id, !.text = (dialect # "Sqlite"), !.db = th[t].want.db, !.val = r.val]])]
  /\ UNCHANGED <<others, calls>>

(* The columns that save() writes: what was set, updated_at among it, and  *)
(* all of them where nothing was.  Fault: always all of them.              *)
PatchAll(dirty) == Columns

Patch(dirty) == IF dirty = {} /\ ~Stamped THEN Columns ELSE dirty

Changed(rec, cols, n) ==
  [rec EXCEPT !.val = Assign(@, cols, Value(n)), !.dirty = @ \cup cols, !.made = @ \ cols]

(* The columns of a record are saved, those that the application has set   *)
(* since it was saved last among them.                                     *)
Update(rec) ==
  [NoStmt EXCEPT !.op = "update", !.db = rec.db, !.id = rec.id,
                 !.cols = Patch(rec.dirty), !.meant = rec.dirty \ rec.made, !.val = rec.val]

(* update() of some columns, or save() with what is still unsaved: id()    *)
(* throws where the id is a string.                                        *)
Save(t) ==
  /\ Call(t, "save") /\ th[t].rec.id # 0
  /\ \E cols \in SUBSET Columns :
       LET rec == Changed(th[t].rec, cols, calls + 1)
       IN th' = [th EXCEPT ![t] =
            IF rec.text THEN [th[t] EXCEPT !.rec = rec]
            ELSE Issue(t, Update(rec), [Start(th[t], "save", <<<<"saved">>>>) EXCEPT !.rec = rec])]
  /\ UNCHANGED others

Saved(t) ==
  /\ At(t, "saved")
  /\ th' = [th EXCEPT ![t] = Settle([Rest(th[t]) EXCEPT !.rec = [@ EXCEPT !.dirty = {}, !.made = {}]])]
  /\ UNCHANGED <<others, calls>>

Destroy(t) ==
  /\ Call(t, "destroy") /\ th[t].rec.id # 0
  /\ th' = IF th[t].rec.text THEN th
           ELSE [th EXCEPT ![t] =
             Issue(t, [NoStmt EXCEPT !.op = "delete", !.db = th[t].rec.db, !.id = th[t].rec.id], th[t])]
  /\ UNCHANGED others

-----------------------------------------------------------------------------
StatementStep(t) ==
  \/ Acquire(t) \/ Release(t) \/ Read(t) \/ Write(t) \/ Fails(t)
  \/ BeginTx(t) \/ BeginFails(t) \/ Commit(t) \/ CommitFails(t) \/ Rollback(t)

ApplicationStep(t) ==
  \/ Exec(t) \/ Transaction(t) \/ FnReturns(t) \/ FnThrows(t)
  \/ Migrate(t) \/ Applied(t) \/ RollbackLast(t) \/ Missing(t) \/ Undo(t) \/ ProgThrows(t)
  \/ ProgBegin(t) \/ ProgVersion(t) \/ ProgCommit(t)
  \/ FirstOrCreate(t) \/ UpdateOrCreate(t) \/ OrCreate(t) \/ OrUpdate(t) \/ Again(t)
  \/ Create(t) \/ Created(t) \/ Load(t) \/ Loaded(t) \/ Save(t) \/ Saved(t) \/ Destroy(t)

Next == \E t \in Threads : StatementStep(t) \/ ApplicationStep(t)

Spec == Init /\ [][Next]_vars

-----------------------------------------------------------------------------
Holds(t) == {th[t].frames[k].eng : k \in DOMAIN th[t].frames}
              \cup (IF th[t].eng \in {None, th[t].tls} THEN {} ELSE {th[t].eng})

(* Every connection is in its pool, or one thread has it and uses it; a    *)
(* thread's statements go to the innermost of its transactions, and a      *)
(* connection in the pool has no transaction open.                         *)
TypeOK ==
  /\ \A d \in Dbs : free[d] \subseteq {e \in Engines : DbOf[e] = d}
  /\ \A e \in Engines :
       Cardinality({t \in Threads : e \in Holds(t)}) = IF e \in free[DbOf[e]] THEN 0 ELSE 1
  /\ \A e \in Engines : e \in free[DbOf[e]] => conn[e] \in {Fresh, [Fresh EXCEPT !.dead = TRUE]}
  /\ \A t \in Threads :
       th[t].tls = IF th[t].frames = <<>> THEN None ELSE Top(t).eng
  /\ calls \in 0..MaxCalls /\ faults \in 0..MaxFaults

(* A thread does not sleep for a connection (pool.h) when one is free,     *)
(* unless another is about to take it, however releases and acquires meet. *)
WaitersServed ==
  \A d \in Dbs :
    free[d] # {} /\ Asleep(d) # {} => \E t \in Threads : th[t].pc = "acquire" /\ th[t].want.db = d

(* What a transaction() did is in the store as a whole once it has         *)
(* returned, and nothing of it while it runs or when it has thrown, and    *)
(* all or nothing where the commit was lost; other threads, nested         *)
(* transactions and failures notwithstanding.  In Postgres a function that *)
(* swallows an error has its transaction undone; in MySQL migrate() and    *)
(* the migrations commit the transaction they are called in.               *)
AllOrNothing ==
  LET there == UNION {store[d].log : d \in Dbs}
  IN \A i \in DOMAIN tx : ~(dialect = "Mysql" /\ tx[i].schema) =>
       CASE tx[i].out = "returned" ->
              tx[i].did \subseteq there \/ (dialect = "Postgres" /\ tx[i].swallowed)
         [] tx[i].out = "unknown" -> tx[i].did \subseteq there \/ tx[i].did \cap there = {}
         [] OTHER -> tx[i].did \cap there = {}

(* A version's up has run once for every record of it there is or was, and *)
(* its down at least once for every record that was taken away, whatever   *)
(* processes migrate or roll back at a time and whatever fails: never a    *)
(* record without what it stands for.  The down runs twice where two roll  *)
(* back the version that both have read; and a version that has no down    *)
(* loses its record alone, so that migrate() runs its up on top of what    *)
(* the first has done.  MySQL, which does not undo a change of the schema, *)
(* is left out: a failure leaves the one without the other.                *)
MigratedOnce ==
  dialect # "Mysql" =>
    \A d \in Dbs : \A i \in DOMAIN Versions :
      LET s == store[d]
      IN /\ s.ran[i] = s.taken[i] + (IF i \in s.recorded THEN 1 ELSE 0)
         /\ i \notin NoDown => s.undone[i] >= s.taken[i]

(* first_or_create (query.h) does not insert a row beside one that was     *)
(* there when it was called, and that is there still.                      *)
CreatedOnce ==
  [][\A t \in Threads :
       th[t].pc = "stmt" /\ th[t].want.op = "insert" /\ th[t].prog.call = "firstOrCreate"
         /\ th'[t].pc # "stmt" /\ ~th'[t].err =>
       \A r \in Sees(th[t].eng).rows : ~(r.id \in th[t].known /\ Matches(r, th[t].want))]_vars

(* "Persist UPDATE for dirty columns" (model.h): a column of a row holds   *)
(* what was last meant to be saved in it, and not what another record of   *)
(* the row had loaded before.  There is one exception: the first save      *)
(* after create() writes back the columns that create() itself has set,    *)
(* which are dirty still (model_impl.h:45), and a row then has the value   *)
(* it was created with, whatever was saved in it since.                    *)
SavesOnlyDirty ==
  \A d \in Dbs : \A r \in store[d].rows : \A c \in Columns :
    r.val[c] # r.meant[c] => c \in CreateSets /\ r.val[c] = r.id
===============================================================================
