----------------------------- MODULE MCDatabase -----------------------------
(* Database for TLC: a pool of two connections and one of a single one. *)
EXTENDS Database, TLC

CONSTANTS e1, e2, e3

MCDbOf == (e1 :> "main" @@ e2 :> "main" @@ e3 :> "other")
MCVersions == <<"create_users", "add_posts">>
MCSymmetry == Permutations(Threads) \cup Permutations({e1, e2})

(* The queries: two conditions of every sort, joined, ordered, projected,  *)
(* grouped and cut.                                                        *)
Q == INSTANCE Queries

Row(i, x, y) == [c \in {"id", "a", "b"} |-> IF c = "id" THEN i ELSE IF c = "a" THEN x ELSE y]

MCTables == {{}, {Row(1, 0, 2), Row(2, 1, 1), Row(3, None, 3)}, {Row(1, 1, 1), Row(2, 1, 1), Row(3, 0, 1)}}

Values == {[col |-> "a", op |-> op, value |-> v] : op \in {"=", "!=", "<", ">="}, v \in {None, 1}}
Lists  == {[col |-> "a", op |-> op, value |-> v] : op \in {"IN", "NOT IN"}, v \in {<<1>>, <<0, 1>>}}
Nulls  == {[col |-> "a", op |-> op, value |-> None] : op \in {"IS NULL", "IS NOT NULL"}}
Others == {[col |-> "id", op |-> ">", value |-> 1], [col |-> "b", op |-> "<=", value |-> 2]}

Asks(q, or, c) == Q!WhereCall(q, or, c.col, c.op, c.value)

Conditions ==
  {Asks(Q!NewQuery, FALSE, c) : c \in Values \cup Lists \cup Nulls}
    \cup {Asks(Asks(Q!NewQuery, FALSE, c), or, d) : c \in Values \cup Lists, or \in BOOLEAN, d \in Others}
    \cup {Asks(Asks(Asks(Q!NewQuery, TRUE, c), or, d), ~or, c) : c \in Lists, or \in BOOLEAN, d \in Others}

(* One row of it for a = 0 and two for a = 1, with an "id" of its own. *)
Posts == [cols |-> {"id", "k", "m"},
          rows |-> {[c \in {"id", "k", "m"} |-> IF c = "id" THEN 7 + i ELSE IF c = "k" THEN i \div 2 ELSE i] : i \in 1..3}]

Joining(q, type) == Q!OrderBy(Q!OrderBy(Q!JoinCall(q, type, Posts, <<>>), "a", FALSE), "m", TRUE)

Shapes(q) ==
  {Q!OrderBy(q, "id", asc) : asc \in BOOLEAN}
    \cup {Joining(q, type) : type \in {"INNER", "LEFT"}}
    \cup {Joining(Q!SelectCall(q, <<"m", "b">>), "LEFT")}
    \cup {Q!OrderBy(Q!SelectCall(q, <<"a", "b">>), "id", TRUE),
          Q!OrderBy(Q!DistinctCall(Q!SelectCall(q, <<"a">>)), "a", FALSE)}
    \cup {Q!OrderBy(Q!HavingCall(Q!GroupBy(Q!SelectCall(q, <<"a">>), <<"a">>), <<Q!Mark>>, <<n>>), "a", TRUE) :
           n \in {1, 2}}

MCAsked == UNION {Shapes(q) : q \in Conditions \cup {Q!NewQuery}}

(* In every dialect a query (query.h) answers the rows that its calls ask  *)
(* for: each mark of the statement gets the parameter of its own clause,   *)
(* with join, conditions, group and having in one statement and NULL among *)
(* them.  One that selects no columns and does not group is also paged,    *)
(* counted, summed up, changed and deleted by just those rows.  Not said:  *)
(* what a grouped or DISTINCT query's count and pages are (count() drops   *)
(* both clauses, query.cpp:230-253); what an offset without a limit gives; *)
(* and of two tables' columns with one name, a query can ask for neither,  *)
(* and gets the joined table's value where it asks for all.  It depends on *)
(* the dialect alone, so it is looked at before the first call.            *)
QueriesAnswer == calls = 0 => Q!QueriesAnswer(dialect, MCAsked, MCTables)
=============================================================================
