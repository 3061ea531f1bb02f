------------------------------- MODULE Queries -------------------------------
(***************************************************************************)
(* socketify::db::Query: calls that build a query, its translation into a  *)
(* statement with marks and parameters, the engines that bind the second   *)
(* to the first, and what the statement means to the server, which is      *)
(* outside the repository.                                                 *)
(*                                                                         *)
(* A table is a set of rows, a statement the sequence of its conditions    *)
(* and what follows them, and a mark one of the arguments of a condition.  *)
(* The table that is asked has the columns Columns; one that is joined is  *)
(* [cols, rows], and has a column "k".                                     *)
(***************************************************************************)
EXTENDS Integers, SequencesExt, FiniteSets

CONSTANT None  (* NULL *)

Columns == {"id", "a", "b"}

-----------------------------------------------------------------------------
(* The calls.  join's ON and having's expression are SQL of the caller's.  *)

NewQuery == [cols |-> <<>>, distinct |-> FALSE, wheres |-> <<>>, joins |-> <<>>,
             orders |-> <<>>, group |-> <<>>, having |-> <<>>, havingParams |-> <<>>,
             limit |-> -1, offset |-> -1]

WhereCall(q, or, column, op, value) ==
  [q EXCEPT !.wheres = Append(@, [or |-> or, col |-> column, op |-> op, value |-> value])]

WhereEq(q, column, value) == WhereCall(q, FALSE, column, "=", value)

SelectCall(q, columns) == [q EXCEPT !.cols = columns]
DistinctCall(q) == [q EXCEPT !.distinct = TRUE]
OrderBy(q, column, asc) == [q EXCEPT !.orders = Append(@, [col |-> column, asc |-> asc])]
LimitCall(q, n) == [q EXCEPT !.limit = n]
OffsetCall(q, n) == [q EXCEPT !.offset = n]
JoinCall(q, type, table, on) ==
  [q EXCEPT !.joins = Append(@, [type |-> type, table |-> table, on |-> on])]
GroupBy(q, columns) == [q EXCEPT !.group = columns]
HavingCall(q, expr, params) == [q EXCEPT !.having = expr, !.havingParams = params]

-----------------------------------------------------------------------------
(* The statement. *)

Mark == <<"?">>            (* a mark                                        *)
Quoted == <<"quoted ?">>   (* a question mark in a string of the caller's   *)

(* The list of IN: nothing where the value is no array. *)
Listed(w) == IF w.value = None THEN <<>> ELSE w.value

Truth(w) == <<"truth", w.op = "NOT IN">>

Condition(w) ==
  LET Reads(op, args, params) ==
        [part |-> "where", or |-> w.or, col |-> w.col, op |-> op, args |-> args, params |-> params]
  IN CASE w.op \in {"IS NULL", "IS NOT NULL"} -> Reads(w.op, <<>>, <<>>)
       [] w.op \in {"IN", "NOT IN"} ->
            IF Listed(w) = <<>> THEN Reads(w.op, <<Truth(w)>>, <<>>)
            ELSE Reads(w.op, [i \in DOMAIN w.value |-> Mark], w.value)
       [] OTHER ->
            IF w.value = None
            THEN Reads(IF w.op = "!=" THEN "IS NOT NULL" ELSE "IS NULL", <<>>, <<>>)
            ELSE Reads(w.op, <<Mark>>, <<w.value>>)

AppendWhere(q) == [i \in DOMAIN q.wheres |-> Condition(q.wheres[i])]

Joins(q) ==
  [i \in DOMAIN q.joins |->
     [part |-> "on", or |-> FALSE, col |-> q.joins[i].table, op |-> q.joins[i].type,
      args |-> q.joins[i].on, params |-> <<>>]]

Having(q) ==
  IF q.having = <<>> THEN <<>>
  ELSE << [part |-> "having", or |-> FALSE, col |-> None, op |-> ">=",
           args |-> q.having, params |-> q.havingParams] >>

ParamsOf(text) == FlattenSeq([i \in DOMAIN text |-> text[i].params])

(* Fault: having's parameters come first. *)
SelectParamsSwapped(q) == ParamsOf(Having(q) \o AppendWhere(q))

SelectParams(q) == ParamsOf(AppendWhere(q) \o Having(q))

CompileSelect(q) ==
  [verb |-> "select", text |-> Joins(q) \o AppendWhere(q) \o Having(q), params |-> SelectParams(q),
   cols |-> q.cols, distinct |-> q.distinct, group |-> q.group, orders |-> q.orders,
   limit |-> q.limit, offset |-> q.offset]

(* count() and the aggregates keep the joins and the conditions only. *)
CompileTotal(q) ==
  CompileSelect([NewQuery EXCEPT !.joins = q.joins, !.wheres = q.wheres])

(* UPDATE's marks come before those of the conditions; DELETE has no more. *)
Settings(values) ==
  [i \in DOMAIN values |-> [part |-> "set", or |-> FALSE, col |-> values[i].col, op |-> "=",
                            args |-> <<Mark>>, params |-> <<values[i].value>>]]

Says(st, verb, text) == [st EXCEPT !.verb = verb, !.text = text, !.params = ParamsOf(text)]

CompileUpdate(q, values) ==
  Says(CompileTotal(q), "update", Settings(SelectSeq(values, LAMBDA v : v.col # "id")) \o AppendWhere(q))

CompileDestroy(q) == [CompileUpdate(q, <<>>) EXCEPT !.verb = "delete"]

-----------------------------------------------------------------------------
(* The engines. *)

(* The number of an argument among those of its statement whose kind is    *)
(* one of kinds.                                                           *)
Number(text, i, j, kinds) ==
  Cardinality({kl \in UNION {{k} \X DOMAIN text[k].args : k \in 1..i} :
                 (kl[1] < i \/ kl[2] <= j) /\ text[kl[1]].args[kl[2]][1] \in kinds})

Count(text, kinds) == IF text = <<>> THEN 0
                      ELSE Number(text, Len(text), Len(Last(text).args), kinds)

Param(params, n) == <<"value", IF n \in DOMAIN params THEN params[n] ELSE None>>

Bound(st, kinds) ==
  [st EXCEPT !.text = [i \in DOMAIN st.text |-> [st.text[i] EXCEPT !.args =
     [j \in DOMAIN @ |-> IF @[j] = Mark THEN Param(st.params, Number(st.text, i, j, kinds)) ELSE @[j]]]]]

(* SQLite knows a mark from a string; a mark without a parameter is NULL.  *)
BindSqlite(st) == [ok |-> TRUE, st |-> Bound(st, {"?"})]

(* Every question mark is numbered; the server takes as many parameters as *)
(* the numbers it reads, and reads none in a string.                       *)
BindPostgres(st) ==
  [ok |-> Len(st.params) = Count(st.text, {"?"}) /\ Count(st.text, {"quoted ?"}) = 0,
   st |-> Bound(st, {"?", "quoted ?"})]

(* Every question mark takes a parameter, one in a string too. *)
BindMysql(st) ==
  [ok |-> Count(st.text, {"?", "quoted ?"}) <= Len(st.params),
   st |-> Bound(st, {"?", "quoted ?"})]

Bind(d, st) ==
  CASE d = "Sqlite" -> BindSqlite(st) [] d = "Postgres" -> BindPostgres(st)
    [] d = "Mysql" -> BindMysql(st)

-----------------------------------------------------------------------------
(* The server. *)

Meaning(arg) ==
  CASE arg[1] = "value" -> arg[2]
    [] arg[1] = "truth" -> IF arg[2] THEN 1 ELSE 0
    [] arg[1] = "quoted ?" -> None

(* Nothing is equal to NULL, or different from it. *)
IsTrue(x, op, ys) ==
  CASE op = "IS NULL" -> x = None
    [] op = "IS NOT NULL" -> x # None
    [] op = "IN" -> x # None /\ x \in ys
    [] op = "NOT IN" -> x # None /\ None \notin ys /\ x \notin ys
    [] OTHER -> x # None /\ \A y \in ys : y # None /\
         CASE op = "=" -> x = y [] op = "!=" -> x # y [] op = "<" -> x < y
           [] op = "<=" -> x <= y [] op = ">" -> x > y [] op = ">=" -> x >= y

Given(c) == {Meaning(c.args[j]) : j \in DOMAIN c.args}

Part(st, part) == SelectSeq(st.text, LAMBDA c : c.part = part)

(* A row of a SELECT has a row of each of its tables.  Where two of them   *)
(* have the column, the value of the last is taken.                        *)
Column(row, c) == row[Max({i \in DOMAIN row : c \in DOMAIN row[i]})][c]

(* What a LEFT JOIN puts beside a row that fits none of the other table. *)
Nothing(table) == [c \in table.cols |-> None]

(* OR is between groups of conditions that AND combines. *)
Passes(row, conditions) ==
  LET Group(k) == Cardinality({j \in 2..k : conditions[j].or})
      Same(k)  == {l \in DOMAIN conditions : Group(l) = Group(k)}
  IN \/ conditions = <<>>
     \/ \E k \in DOMAIN conditions : \A l \in Same(k) :
          LET c == conditions[l] IN IsTrue(Column(row, c.col), c.op, Given(c))

(* ON compares a with the other table's k. *)
Widened(rows, j) ==
  LET Others(row) == {s \in j.col.rows : Column(row, "a") # None /\ s["k"] = Column(row, "a")}
  IN UNION {{Append(row, s) : s \in Others(row)} : row \in rows}
       \cup {Append(row, Nothing(j.col)) : row \in {r \in rows : j.op = "LEFT" /\ Others(r) = {}}}

Joined(rows, st) == FoldLeft(Widened, {<<r>> : r \in rows}, Part(st, "on"))

(* NULL is before everything. *)
Before(orders, r, s) ==
  LET Less(x, y) == x # y /\ (x = None \/ (y # None /\ x < y))
      At(row, i) == Column(row, orders[i].col)
  IN \E i \in DOMAIN orders :
       /\ \A j \in 1..i-1 : At(r, j) = At(s, j)
       /\ IF orders[i].asc THEN Less(At(r, i), At(s, i)) ELSE Less(At(s, i), At(r, i))

Projected(row, columns) == [c \in ToSet(columns) |-> Column(row, c)]

Matched(st, rows) == {r \in Joined(rows, st) : Passes(r, Part(st, "where"))}

(* A group is one row, and having's expression bounds its size. *)
Grouped(st, rows) ==
  IF st.group = <<>> THEN rows
  ELSE {<<Projected(g, st.group)>> : g \in {g \in rows : \A c \in ToSet(Part(st, "having")) :
          IsTrue(Cardinality({r \in rows : Projected(r, st.group) = Projected(g, st.group)}),
                 ">=", Given(c))}}

Cut(rows, from, limit) ==
  SubSeq(rows, from + 1, IF limit < 0 \/ from + limit > Len(rows) THEN Len(rows) ELSE from + limit)

(* The builder writes the bare name of a column, and no server knows whose *)
(* it is where two tables of the statement have it.                        *)
Names(st) ==
  {c.col : c \in ToSet(Part(st, "where"))} \cup {o.col : o \in ToSet(st.orders)}
    \cup ToSet(st.group) \cup ToSet(st.cols)

Ambiguous(st) ==
  \E c \in Names(st) :
    1 < Cardinality({i \in DOMAIN Part(st, "on") : c \in Part(st, "on")[i].col.cols})
          + (IF c \in Columns THEN 1 ELSE 0)

(* Only Postgres takes an OFFSET without a LIMIT, and only Postgres will   *)
(* not compare a number with a truth value.                                *)
Refuses(d, st) ==
  \/ Ambiguous(st)
  \/ d = "Postgres" /\ \E i \in DOMAIN st.text : \E arg \in ToSet(st.text[i].args) : arg[1] = "truth"
  \/ d # "Postgres" /\ st.offset >= 0 /\ st.limit < 0

Failed == [ok |-> FALSE, rows |-> <<>>]

Sorted(st, rows) == SetToSortSeq(rows, LAMBDA r, t : Before(st.orders, r, t))

Selected(st, row) == IF st.cols = <<>> THEN row ELSE <<Projected(row, st.cols)>>

Distinct(st, rows) == IF st.distinct THEN {Selected(st, r) : r \in rows} ELSE rows

(* An engine files each column under its bare name: of two with one name   *)
(* the last one's value is left.  That Postgres and MySQL answer texts is  *)
(* Database's.                                                             *)
RowOf(row) == [c \in UNION {DOMAIN row[i] : i \in DOMAIN row} |-> Column(row, c)]

Shown(st, rows) == [i \in DOMAIN rows |-> RowOf(Selected(st, rows[i]))]

AnswerTo(d, bound, rows) ==
  IF ~bound.ok \/ Refuses(d, bound.st) THEN Failed
  ELSE [ok |-> TRUE,
        rows |-> Shown(bound.st, Cut(Sorted(bound.st,
                   Distinct(bound.st, Grouped(bound.st, Matched(bound.st, rows)))),
                   IF bound.st.offset < 0 THEN 0 ELSE bound.st.offset, bound.st.limit))]

Answer(d, st, rows) == AnswerTo(d, Bind(d, st), rows)

(* What is in the table after an update or a delete, and how many rows it  *)
(* was done to.                                                            *)
SetIn(row, settings) ==
  [c \in DOMAIN row |->
     IF \A s \in settings : s.col # c THEN row[c]
     ELSE CHOOSE v \in UNION {Given(s) : s \in {s \in settings : s.col = c}} : TRUE]

DoneTo(st, matched, rows) ==
  [ok |-> TRUE, n |-> Cardinality(matched),
   rows |-> (rows \ matched) \cup
     (IF st.verb = "update" THEN {SetIn(r, ToSet(Part(st, "set"))) : r \in matched} ELSE {})]

DoneBound(d, bound, rows) ==
  IF ~bound.ok \/ Refuses(d, bound.st) THEN [ok |-> FALSE, n |-> 0, rows |-> rows]
  ELSE DoneTo(bound.st, {Head(r) : r \in Matched(bound.st, rows)}, rows)

Done(d, st, rows) == DoneBound(d, Bind(d, st), rows)

-----------------------------------------------------------------------------
(* The calls that ask the server. *)

Get(d, q, rows) == Answer(d, CompileSelect(q), rows)

(* The limit stays with the query, and an offset it had before. *)
First(q) == LimitCall(q, 1)

CountOf(d, q, rows) == Len(Answer(d, CompileTotal(q), rows).rows)

(* min, max and sum of what is not NULL, and 0 where there is nothing; avg *)
(* is rounded of a number, and cut off where the engine answers a text.    *)
ColumnOf(rows, column) == [i \in DOMAIN rows |-> rows[i][column]]

Summary(d, fn, vs) ==
  LET sum == FoldLeft(LAMBDA x, y : x + y, 0, vs)
  IN CASE vs = <<>>  -> 0
       [] fn = "SUM" -> sum
       [] fn = "MIN" -> CHOOSE v \in ToSet(vs) : \A w \in ToSet(vs) : v <= w
       [] fn = "MAX" -> CHOOSE v \in ToSet(vs) : \A w \in ToSet(vs) : v >= w
       [] fn = "AVG" -> IF d = "Sqlite" THEN (2 * sum + Len(vs)) \div (2 * Len(vs))
                                        ELSE sum \div Len(vs)

Aggregate(d, fn, q, column, rows) ==
  LET st == [CompileTotal(q) EXCEPT !.cols = <<column>>]
  IN Summary(d, fn, SelectSeq(ColumnOf(Answer(d, st, rows).rows, column), LAMBDA v : v # None))

Pluck(d, q, column, rows) == ColumnOf(Get(d, SelectCall(q, <<column>>), rows).rows, column)

(* The query that paginate leaves. *)
PageQuery(q, page, perPage) == OffsetCall(LimitCall(q, perPage), (page - 1) * perPage)

Paged(total, page, per, rows) ==
  [page |-> page, perPage |-> per, total |-> total,
   totalPages |-> IF total > 0 THEN (total + per - 1) \div per ELSE 0, rows |-> rows]

PageAt(d, q, page, per, rows) ==
  Paged(CountOf(d, q, rows), page, per, Get(d, PageQuery(q, page, per), rows).rows)

Paginate(d, q, page, perPage, rows) ==
  PageAt(d, q, IF page < 1 THEN 1 ELSE page, IF perPage < 1 THEN 15 ELSE perPage, rows)

Update(d, q, values, rows) ==
  IF \A i \in DOMAIN values : values[i].col = "id"
  THEN [ok |-> TRUE, n |-> 0, rows |-> rows]
  ELSE Done(d, CompileUpdate(q, values), rows)

Destroy(d, q, rows) == Done(d, CompileDestroy(q), rows)

(* id is left to the server where it is 0 or NULL.  ON CONFLICT is not     *)
(* MySQL's, and something must be left to set.  The conflict columns of a  *)
(* row are its own.                                                        *)
Upsert(d, values, conflict, rows) ==
  LET given   == {c \in DOMAIN values : c # "id" \/ values[c] \notin {None, 0}}
      set     == DOMAIN values \ (ToSet(conflict) \cup {"id"})
      fits    == {r \in rows : \A c \in ToSet(conflict) : c \in given /\ r[c] # None /\ r[c] = values[c]}
      fresh   == 1 + Cardinality({r["id"] : r \in rows})
      created == [c \in Columns |->
                    IF c \in given THEN values[c] ELSE IF c = "id" THEN fresh ELSE None]
  IN IF conflict = <<>> THEN [ok |-> FALSE, rows |-> rows]
     ELSE IF given = {} THEN [ok |-> TRUE, rows |-> rows]
     ELSE IF d = "Mysql" \/ set = {} THEN [ok |-> FALSE, rows |-> rows]
     ELSE IF fits = {} THEN [ok |-> TRUE, rows |-> rows \cup {created}]
     ELSE [ok |-> TRUE, rows |-> {IF r \in fits
                                  THEN [c \in DOMAIN r |-> IF c \in set THEN values[c] ELSE r[c]]
                                  ELSE r : r \in rows}]

-----------------------------------------------------------------------------
(* What was asked for, told from the calls alone: conditions are taken as  *)
(* they come, from left to right, and NULL is a value that = and != find.  *)

Fits(row, w) ==
  LET x == Column(row, w.col)
  IN CASE w.op = "IS NULL" -> x = None
       [] w.op = "IS NOT NULL" -> x # None
       [] w.op = "IN" -> \E i \in DOMAIN Listed(w) : x # None /\ x = Listed(w)[i]
       [] w.op = "NOT IN" -> Listed(w) = <<>> \/ (x # None /\ \A i \in DOMAIN Listed(w) : x # Listed(w)[i])
       [] w.op = "=" -> x = w.value
       [] w.op = "!=" -> x # w.value /\ x # None
       [] OTHER -> IF w.value = None THEN x = None ELSE IsTrue(x, w.op, {w.value})

Wanted(row, q) ==
  LET step(s, w) == IF w.or THEN <<s[1] \/ s[2], Fits(row, w)>> ELSE <<s[1], s[2] /\ Fits(row, w)>>
      s == FoldLeft(step, <<FALSE, Fits(row, Head(q.wheres))>>, Tail(q.wheres))
  IN q.wheres = <<>> \/ s[1] \/ s[2]

(* A query here joins once at most.  A row that fits none of the other     *)
(* table stays with LEFT, and goes with any other join.                    *)
Sides(q, rows) ==
  IF q.joins = <<>> THEN {<<r>> : r \in rows}
  ELSE LET other == Head(q.joins).table
           fitting == {<<r, s>> \in rows \X other.rows : r["a"] = s["k"]}
       IN fitting \cup {<<r, Nothing(other)>> : r \in {r \in rows : Head(q.joins).type = "LEFT"
                                                     /\ \A t \in fitting : t[1] # r}}

RowsWanted(q, rows) == {r \in Sides(q, rows) : Wanted(r, q)}

(* No name in the query is that of two columns. *)
Clear(q) == ~Ambiguous(CompileSelect(q))

Plain(q) == q.cols = <<>> /\ q.group = <<>>

Times(s, p) == Cardinality({i \in DOMAIN s : s[i] = p})

(* The rows an answer's row p may come from, and how often it comes.  *)
RowsAs(p, w) == {r \in w : \A c \in DOMAIN p : Column(r, c) = p[c]}

TimesDue(q, n) ==
  CASE q.group # <<>> -> IF n >= q.havingParams[1] THEN 1 ELSE 0
    [] q.distinct     -> 1
    [] OTHER          -> n

GetsRows(q, got, w) ==
  LET all   == Columns \cup UNION {j.table.cols : j \in ToSet(q.joins)}
      shown == IF q.cols = <<>> THEN all ELSE ToSet(q.cols)
      plainly(r) == [c \in shown |-> Column(r, c)]
  IN /\ \A p \in ToSet(got) : RowsAs(p, w) # {}
     /\ \A p \in {plainly(r) : r \in w} : Times(got, p) = TimesDue(q, Cardinality(RowsAs(p, w)))
     /\ {q.orders[k].col : k \in DOMAIN q.orders} \subseteq shown =>
          \A i, j \in DOMAIN got : i < j => ~Before(q.orders, <<got[j]>>, <<got[i]>>)

(* Every row that was asked for is answered as often as it is there, or    *)
(* once, or its group is, and nothing else; in the order that was asked    *)
(* for.                                                                    *)
GetsWanted(d, q, rows) ==
  \E g \in {Get(d, q, rows)} : g.ok /\ GetsRows(q, g.rows, RowsWanted(q, rows))

(* The pages are the rows cut into pieces, none of them missing at the end *)
(* and none there twice; one page more is empty; first() is the first.     *)
PagesCut(pages, all) ==
  LET n == pages[1].totalPages
  IN /\ FlattenSeq([k \in 1..n |-> pages[k].rows]) = all
     /\ \A k \in 1..n : pages[k].rows # <<>>
     /\ pages[n + 1].rows = <<>>
     /\ pages[0] = pages[1]

PagesAll(d, q, rows) ==
  \E g \in {Get(d, q, rows).rows} :
    /\ \A per \in {0, 1, 2} :
         PagesCut([k \in 0..(Len(g) + 1) |-> Paginate(d, q, k, per, rows)], g)
    /\ Pluck(d, q, "a", rows) = ColumnOf(g, "a")
    /\ Get(d, First(q), rows).rows = SubSeq(g, 1, IF g = <<>> THEN 0 ELSE 1)

(* The rows that are asked for are those that are changed, deleted and     *)
(* summed up.                                                              *)
ChangesRows(d, q, rows, w) ==
  /\ Update(d, q, <<[col |-> "id", value |-> 9], [col |-> "b", value |-> 7]>>, rows)
       = [ok |-> TRUE, n |-> Cardinality(w), rows |-> (rows \ w) \cup {[r EXCEPT !["b"] = 7] : r \in w}]
  /\ Destroy(d, q, rows) = [ok |-> TRUE, n |-> Cardinality(w), rows |-> rows \ w]

SumsUp(sums, values) ==
  /\ sums["SUM"] = FoldLeft(LAMBDA t, r : t + Column(r, "a"), 0, SetToSeq(values))
  /\ \A r \in values : sums["MIN"] <= Column(r, "a") /\ Column(r, "a") <= sums["MAX"]

ChangesWanted(d, q, rows) ==
  /\ ChangesRows(d, q, rows, {r \in rows : Wanted(<<r>>, q)})
  /\ CountOf(d, q, rows) = Cardinality(RowsWanted(q, rows))
  /\ SumsUp([fn \in {"SUM", "MIN", "MAX"} |-> Aggregate(d, fn, q, "a", rows)],
            {r \in RowsWanted(q, rows) : Column(r, "a") # None})

(* An upsert leaves one row with the values, and what it does not set of a *)
(* row that was there.                                                     *)
UpsertsOne(d, rows) ==
  \A id \in {None, 0, 1}, a \in {0, 1, 2}, r \in rows :
    LET values == [c \in Columns |-> IF c = "id" THEN id ELSE IF c = "a" THEN a ELSE 8]
        u      == Upsert(d, values, <<"a">>, rows)
        is     == {t \in u.rows : t["a"] = a /\ t["b"] = 8}
    IN d # "Mysql" /\ Cardinality({t["a"] : t \in rows}) = Cardinality(rows) =>
         u.ok /\ Cardinality(is) = 1 /\ (r["a"] # a => r \in u.rows)
               /\ (r["a"] = a => \E t \in is : t["id"] = r["id"])

(* In a dialect a query (query.h) answers the rows that its calls ask for: *)
(* each mark of the statement gets the parameter of its own clause, with   *)
(* join, conditions, group and having in one statement and NULL among      *)
(* them.  One that selects no columns and does not group is also paged,    *)
(* counted, summed up, changed and deleted by just those rows.  Not said:  *)
(* what a grouped or DISTINCT query's count and pages are (count() drops   *)
(* both clauses, query.cpp:230-253); what an offset without a limit gives; *)
(* and of two tables' columns with one name, a query can ask for neither,  *)
(* and gets the joined table's value where it asks for all.                *)
QueriesAnswer(d, asked, tables) ==
  \A rows \in tables :
    /\ \A q \in {q \in asked : Clear(q)} :
         /\ GetsWanted(d, q, rows)
         /\ Plain(q) => PagesAll(d, q, rows) /\ ChangesWanted(d, q, rows)
    /\ UpsertsOne(d, rows)
===============================================================================
