--------------------------- MODULE MCHubLifecycle ---------------------------
(* Instances of HubLifecycle for TLC. *)
EXTENDS HubLifecycle, TLC

Symmetry == Permutations(Hubs) \union Permutations(Ports) \union Permutations(Clients)
=============================================================================
