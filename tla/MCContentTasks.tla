---------------------------- MODULE MCContentTasks ----------------------------
(***************************************************************************)
(* Instances of ContentTasks for TLC: a directory with a subdirectory, one *)
(* autoscan directory at one of them.                                      *)
(***************************************************************************)
EXTENDS ContentTasks

CONSTANTS top, sub, a1, c1

TwoDirs == {top, sub}
TwoSubDirs == {<<top, top>>, <<sub, sub>>, <<sub, top>>}
OneAdir == {a1}
AtTop == [a \in {a1} |-> top]
Nothing == {}
OneCaller == {c1}
JustSub == {sub}
AddCall(path, a, lowPriority) == [path |-> path, adir |-> a, lowPriority |-> lowPriority]
AddSub == {AddCall(sub, NoAdir, TRUE)}
AddEither == {AddCall(sub, a1, TRUE), AddCall(sub, NoAdir, FALSE)}
=============================================================================
