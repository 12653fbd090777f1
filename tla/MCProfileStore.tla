--------------------------- MODULE MCProfileStore ---------------------------
(* ProfileStore with the values TLC gives its constants, the symmetry of   *)
(* its processes, and its steps when all commands are requests.            *)
EXTENDS ProfileStore, TLC

CONSTANTS default, work

OneLogin == (default :> 1) @@ (work :> 0)
TwoLogins == (default :> 1) @@ (work :> 2)

ProcSymmetry == Permutations(Procs)

\* No save has begun, and nobody is killed.
Undisturbed == UNCHANGED <<stable, temp, faults>>

\* What OnlyRequests leaves of Next: requests of any number of processes, and the
\* expiry of their tokens.
RequestsNext ==
  \/ \E p \in Procs : \E c \in Command : Begin(p, c) /\ Undisturbed
  \/ \E p \in Procs : Request(p) /\ Undisturbed
  \/ ExpireToken /\ Undisturbed
  \/ Finished /\ Undisturbed

RequestsSpec == Init /\ [][RequestsNext]_vars
=============================================================================
