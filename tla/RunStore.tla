------------------------------ MODULE RunStore ------------------------------
(***************************************************************************)
(* The table `runs` of ares-output/src/store.rs, as the SQL statements of  *)
(* RunStore see it: a row for each moment at which one was saved, its      *)
(* created_at. A row records who saved it, its name and its asset graph,   *)
(* which is abstracted to the set of assets it holds. A statement is       *)
(* atomic: every caller opens its own connection to one SQLite file.       *)
(***************************************************************************)
EXTENDS Naturals

Row(by, name, graph) == [by |-> by, name |-> name, graph |-> graph]

\* INSERT: created_at is read just before.
Save(rows, moment, row) ==
  [m \in DOMAIN rows \cup {moment} |-> IF m = moment THEN row ELSE rows[m]]

\* ... WHERE name = ?1
Named(rows, name) == {m \in DOMAIN rows : rows[m].name = name}

\* Faulty variant: the LIMIT is forgotten.
LatestUnlimited(rows, name) == {rows[m] : m \in Named(rows, name)}

\* SELECT ... WHERE name = ?1 ORDER BY created_at DESC LIMIT 1: the rows found.
LatestNamed(rows, name) ==
  {rows[m] : m \in {k \in Named(rows, name) : \A n \in Named(rows, name) : n <= k}}

\* DELETE ... WHERE name = ?1
DeleteNamed(rows, name) == [m \in DOMAIN rows \ Named(rows, name) |-> rows[m]]

\* SELECT ... WHERE id = ?1 finds the row.
Stored(rows, row) == \E m \in DOMAIN rows : rows[m] = row
=============================================================================
