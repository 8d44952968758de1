--------------------------- MODULE MCRemoteTools ---------------------------
(***************************************************************************)
(* HostChange and ServiceInstall for TLC.  Both are tools that run remote  *)
(* commands, of which none looks at what the other's leave: a behaviour is *)
(* about one of them.  Calls are interchangeable, and machines but for the *)
(* one that the Docker service starts on.                                  *)
(***************************************************************************)
EXTENDS HostChange, ServiceInstall, TLC

VARIABLE installing

MCNext ==
  /\ \/ installing /\ ServiceNext /\ UNCHANGED vars
     \/ ~installing /\ Next /\ UNCHANGED svars
  /\ UNCHANGED installing

First == CHOOSE h \in Host : TRUE

Together == \A h \in Host : box["docker"][h] = Absent <=> box["lxd"][h] = Absent

\* The part that a behaviour is not about starts in one way only.  BOUND: images and
\* archives are left where the two containers are on one machine.
Scope ==
  /\ box["docker"][First] # Absent
  /\ installing => Together /\ \A h \in Host : image[h] = None
  /\ ~installing => dir = {} /\ (Together <=> \A h \in Host : image[h] # None)

MCInit == Init /\ ServiceInit /\ installing \in BOOLEAN /\ Scope

MCSpec == MCInit /\ [][MCNext]_<<vars, svars, installing>>

Symmetry == Permutations(Host \ {First}) \cup Permutations(Call)
=============================================================================
