---------------------------- MODULE MCSftpStore ----------------------------
(***************************************************************************)
(* TLC instance of SftpStore: a directory in a directory, with a file at   *)
(* both levels, and a single file.                                         *)
(***************************************************************************)
EXTENDS SftpStore, TLC

Bag == [dirs  |-> {<<"bag">>, <<"bag", "data">>},
        files |-> {<<"bag", "tag">>, <<"bag", "data", "item">>}]
Single == [dirs |-> {}, files |-> {<<"file">>}]

MCTrees == {Bag, Single}
MCData == Bag
MCWanted == {<<"bag">>, <<"bag", "tag">>}

Symmetry == Permutations(Calls) \cup Permutations(Stamps) \cup Permutations(Objects)
=============================================================================
