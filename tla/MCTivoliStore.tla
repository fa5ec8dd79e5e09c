--------------------------- MODULE MCTivoliStore ---------------------------
(***************************************************************************)
(* TLC instances of TivoliStore: one deposit, and one or two of its chunks *)
(* (two chunks share the deposit's temporary directory).                   *)
(***************************************************************************)
EXTENDS TivoliStore, TLC

CONSTANTS d1, k1, k2, c1, c2

OneDepositOf == [c \in Chunks |-> d1]

Symmetry == Permutations(Calls) \cup Permutations(Data)

\* The run on two chunks gives each thread a chunk of its own, as the worker's
\* chunk threads have: calls that meet on one file are the other runs' case, and
\* so are deletes, which do not use the directory.
OwnChunk ==
  /\ pc[k1] # "idle" => call[k1].chunk = c1
  /\ pc[k2] # "idle" => call[k2].chunk = c2
  /\ \A k \in Calls : call[k].op # "delete"

\* In the run on one chunk retrieves and deletes go to node 2, where the uploads
\* of failed stores linger.
NodeTwo == \A k \in Calls : call[k].op \in {"retrieve", "delete"} => call[k].node = 2
=============================================================================
