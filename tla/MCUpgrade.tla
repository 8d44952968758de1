------------------------------ MODULE MCUpgrade ------------------------------
(***************************************************************************)
(* Upgrade for TLC: the databases it starts from have at most two rows.    *)
(***************************************************************************)
EXTENDS Upgrade, TLC

One == CHOOSE n \in Name : TRUE

OneRow(t, b) == [id |-> t, name |-> One, seen |-> t, bound |-> b]

\* No row, one, or two of one name.
Rows(entries) ==
  {{}} \cup {{OneRow(1, b)} : b \in entries}
       \cup {{OneRow(1, b), OneRow(2, c)} : b, c \in entries}

Tables ==
  {None} \cup
  [columns : Release \cap SUBSET Column, unique : BOOLEAN, rows : Rows(Registered \cup {None})]

MCInit ==
  /\ backend \in {"sqlite", "postgres"}
  /\ registry \in {None} \cup SUBSET Credential
  /\ table \in Tables
  /\ clock = 1 + IF table = None THEN 0 ELSE Cardinality(table.rows)
  /\ Init

MCSpec == MCInit /\ [][Next]_vars

Symmetry == Permutations(Process) \cup Permutations(Credential)
=============================================================================
