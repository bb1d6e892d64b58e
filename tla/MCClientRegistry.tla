-------------------------- MODULE MCClientRegistry --------------------------
(***************************************************************************)
(* ClientRegistry on a small instance: two clients, two workers.           *)
(***************************************************************************)
EXTENDS ClientRegistry, TLC

Symmetry == Permutations(Client) \cup Permutations(Worker)
=============================================================================
