--------------------------------- MODULE Tables ---------------------------------
(***************************************************************************)
(* A table of the database as a function from the primary keys in use to   *)
(* the other columns.                                                      *)
(***************************************************************************)
EXTENDS Naturals, FiniteSetsExt, Functions

\* The key that SQLite gives to the next row of a table whose INTEGER PRIMARY KEY
\* is not AUTOINCREMENT: one above the highest, which may have been used before.
NextKey(table) == Max({0} \cup DOMAIN table) + 1

\* INSERT, or INSERT OR REPLACE
Put(table, key, row) ==
    [k \in {key} \cup DOMAIN table |-> IF k = key THEN row ELSE table[k]]

\* DELETE
Without(table, keys) == Restrict(table, DOMAIN table \ keys)
=================================================================================
