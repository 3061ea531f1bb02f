------------------------------ MODULE MCQueries ------------------------------
(* Queries for TLC: a query that is built call by call and asked for. *)
EXTENDS Queries

CONSTANTS
  Dialects,  (* of "Sqlite", "Postgres", "Mysql" *)
  MaxCalls   (* bound: conditions of a query     *)

VARIABLES dialect, rows, query

vars == <<dialect, rows, query>>

Row(i, x) == [c \in {"id", "a", "b"} |-> IF c = "id" THEN i ELSE IF c = "a" THEN x ELSE 5]

Tables == {{}, {Row(0, 1), Row(1, 0), Row(2, None)}}

Init ==
  /\ dialect \in Dialects /\ rows \in Tables
  /\ query = OrderBy(NewQuery, "id", TRUE)

CallsWhere ==
  /\ Len(query.wheres) < MaxCalls
  /\ \E or \in BOOLEAN, column \in {"id", "a"}, op \in {"IN", "NOT IN"}, list \in {<<>>, <<1>>, <<0, 1>>} :
       query' = WhereCall(query, or, column, op, list)
  /\ UNCHANGED <<dialect, rows>>

Spec == Init /\ [][CallsWhere]_vars

(* "IN () is always false; NOT IN () is always true" (query.cpp:138):      *)
(* a query answers the rows whose values are in its lists, or are not,     *)
(* empty lists among them.                                                 *)
EmptyListsMean == GetsWanted(dialect, query, rows)
===============================================================================
