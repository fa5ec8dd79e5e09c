---------------------------- MODULE MCLocalStore ----------------------------
(***************************************************************************)
(* TLC instances of LocalStore: an object that is a file, and one that is  *)
(* a directory with a file and a directory with a file.                    *)
(***************************************************************************)
EXTENDS LocalStore, TLC

MCLocations == <<"first", "second">>
MCVersions == {<<"a", "b", "c">>, <<"d">>}
MCParent == ("chunk" :> NoDir) @@ ("bag" :> NoDir) @@ ("tag" :> "bag")
            @@ ("data" :> "bag") @@ ("item" :> "data")
MCObjectOf == [p \in DOMAIN MCParent |-> IF p = "chunk" THEN "chunk" ELSE "bag"]
=============================================================================
