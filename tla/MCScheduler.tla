---------------------------- MODULE MCScheduler ----------------------------
(* Three tasks, the second after the first, and claims of which each pair   *)
(* of neighbours meets: a directory, a file in it beside another directory,*)
(* and a directory inside that one.                                        *)
EXTENDS Scheduler, TLC

CONSTANTS t1, t2, t3

MCNeeds == [t \in Tasks |-> IF t = t2 THEN {t1} ELSE {}]

Directory(path) == [kind |-> "directory", path |-> path]
File(path) == [kind |-> "file", path |-> path]

MCClaimSets ==
  [t \in Tasks |->
     CASE t = t1 -> {{Directory(<<"src">>)}}
       [] t = t2 -> {{File(<<"src", "api", "a">>), Directory(<<"docs">>)}}
       [] t = t3 -> {{Directory(<<"docs", "guide">>), File(<<"readme">>)}}]

MCFiles == {<<"src", "b">>, <<"src", "api", "a">>, <<"docs", "c">>,
            <<"docs", "guide", "d">>, <<"readme">>}

Symmetry == Permutations(Calls)
=============================================================================
