------------------------------ MODULE Database ------------------------------
(***************************************************************************)
(* The connection of a program to MySQL: object/builtins/mysql_builtins.go.*)
(*                                                                         *)
(* db_connection is a pool of connections, made when they are needed: the  *)
(* database may be out of reach when it is made, and come and go later.    *)
(* What the database does with a statement is external; a statement that   *)
(* it has executed may still be answered with an error when the connection *)
(* breaks, which changes nothing for the tables.                           *)
(***************************************************************************)
EXTENDS Naturals, FiniteSets

CONSTANTS Databases, Tables, Rows,
          None          \* the nil pool, or a table that is not there

ASSUME NoneAssumption == None \notin Databases

VARIABLES db_connection,    \* the database whose pool it is
          asked,            \* the database that mysqlConnection was last called with
          reachable,        \* databases
          stored            \* the rows of each table of each database

databaseVars == <<db_connection, asked, reachable, stored>>

DatabaseInit ==
    /\ db_connection = None
    /\ asked = None
    /\ reachable \in SUBSET Databases
    /\ stored = [d \in Databases |-> [t \in Tables |-> None]]

\* The network: a database comes or goes.
Reach ==
    /\ \E d \in Databases : reachable' \in {reachable \cup {d}, reachable \ {d}}
    /\ UNCHANGED <<db_connection, asked, stored>>

-----------------------------------------------------------------------------
(* What the program calls.                                                 *)

\* Faulty variant: the connection is kept until another one answers.
MySqlConnectionIfReached(d) ==
    /\ asked' = d
    /\ db_connection' = IF d \in reachable THEN d ELSE db_connection
    /\ UNCHANGED <<reachable, stored>>

\* sql.Open assigns the pool, nil for a name that it cannot parse, and only then
\* is the database pinged: an error of Ping leaves the pool in place.
MySqlConnection(d) ==
    /\ asked' = d
    /\ db_connection' \in {d, None}
    /\ UNCHANGED <<reachable, stored>>

\* A statement that the database executes: the rows of a table become others.
Exec(t, rows) ==
    /\ db_connection # None
    /\ db_connection \in reachable
    /\ stored' = [stored EXCEPT ![db_connection][t] = rows]
    /\ UNCHANGED <<db_connection, asked, reachable>>

RowsOf(t) == stored[db_connection][t]
HasTable(t) == db_connection # None /\ RowsOf(t) # None

CreateTable(t) == db_connection # None /\ RowsOf(t) = None /\ Exec(t, {})
DeleteTable(t) == HasTable(t) /\ Exec(t, None)
InsertIntoTable(t, row) == HasTable(t) /\ Exec(t, RowsOf(t) \cup {row})

\* The rows that the condition selects are all of them for an empty condition.
UpdateIntoTable(t, row) ==
    /\ HasTable(t)
    /\ \E selected \in SUBSET RowsOf(t) :
          selected # {} /\ Exec(t, (RowsOf(t) \ selected) \cup {row})
DeleteFromTable(t) ==
    HasTable(t) /\ \E selected \in SUBSET RowsOf(t) : Exec(t, RowsOf(t) \ selected)

\* The arrays that mysqlGetFromTable may return, besides an error: rows.Err is
\* not looked at, so that a query that breaks off returns the rows so far.
GetFromTable(t) ==
    IF HasTable(t) /\ db_connection \in reachable THEN SUBSET RowsOf(t) ELSE {}

-----------------------------------------------------------------------------
(* Properties.                                                             *)

\* Whatever calls of mysqlConnection fail in between, a statement changes, and
\* a query shows, the database that was asked for last, or none.
OnlyLatestDatabase ==
    [][ /\ \A d \in Databases : stored'[d] # stored[d] => d = asked
        /\ \A t \in Tables : \A rows \in GetFromTable(t) :
              asked # None /\ stored[asked][t] # None /\ rows \subseteq stored[asked][t] ]_databaseVars
=============================================================================
