--------------------------- MODULE MCKeyStoreFile ---------------------------
(***************************************************************************)
(* A TLC instance of KeyStoreFile: two aliases of one entry, and a third.  *)
(***************************************************************************)
EXTENDS KeyStoreFile, TLC

MCAliases == {"Key", "key", "other"}
MCEntryOf == [a \in MCAliases |-> IF a = "other" THEN "other" ELSE "key"]
MCLists == {<<"key">>, <<"other", "key">>, <<"Key", "key">>}
Symmetry == Permutations(Keys) \cup Permutations(Runs)
=============================================================================
