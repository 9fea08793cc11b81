--------------------------- MODULE MCInotifyWatches ---------------------------
(***************************************************************************)
(* An autoscan directory x/y/a with directories of one level that are      *)
(* renamed into each other, one with a directory of its own.               *)
(***************************************************************************)
EXTENDS InotifyWatches

MCPaths == {Root, <<"x">>, <<"x", "y">>, <<"x", "y", "a">>, <<"x", "y", "a", "b">>,
            <<"x", "y", "a", "c">>, <<"x", "y", "a", "b", "d">>, <<"x", "y", "a", "c", "d">>}
MCFixed == {Root, <<"x">>}
MCRenames == {<<<<"x", "y", "a", "b">>, <<"x", "y", "a", "c">>>>}
MCLocation == [a \in Adirs |-> <<"x", "y", "a">>]
MCKinds == [persistent : BOOLEAN, recursive : BOOLEAN]
===============================================================================
