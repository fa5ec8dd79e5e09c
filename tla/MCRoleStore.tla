---------------------------- MODULE MCRoleStore ----------------------------
(***************************************************************************)
(* TLC instance of RoleStore: two clients that start or serve requests.    *)
(***************************************************************************)
EXTENDS RoleStore, TLC

CONSTANTS c1, c2, c3

\* Earlier releases with all special roles, and without the last of them.
MCReleases == {SpecialNames, SpecialNames \ {"Vault Creator"}}

Symmetry == Permutations(Clients)
=============================================================================
