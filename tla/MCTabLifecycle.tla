--------------------------- MODULE MCTabLifecycle ---------------------------
(***************************************************************************)
(* TabLifecycle on small sets of clients and idle tasks.                   *)
(***************************************************************************)
EXTENDS TabLifecycle, TLC

\* Clients, and idle tasks, differ only by their names; the sweeper does not.
Symmetry == Permutations(Client) \cup Permutations(Task)

=============================================================================
