----------------------------- MODULE MCSitemap -----------------------------
(***************************************************************************)
(* Sitemap for TLC: names, addresses and calls are interchangeable.  Calls *)
(* in processes of their own are all about one machine, which stays where  *)
(* it is: what they share is the rows of one name.                         *)
(***************************************************************************)
EXTENDS Sitemap, TLC

Symmetry == Permutations(Name) \cup Permutations(Address) \cup Permutations(Call)

OneMachine(n, a) ==
  /\ \A b \in Address : owner[b] = IF b = a THEN n ELSE None
  /\ \A c \in Call : device[c] # None => device[c].ident \in {n, a}
  /\ \A r \in Present : {rows[r].hostname, rows[r].ip} \subseteq {n, a}

\* BOUND: rows inserted before a purge whose deletes are still to come.
Region == shared =>
  /\ moves = 0
  /\ doomed # {} => nextId <= 3
  /\ \E n \in Name, a \in Address : OneMachine(n, a)

MCInit == Init /\ Region

MCSpec == MCInit /\ [][Next /\ Region']_vars
=============================================================================
