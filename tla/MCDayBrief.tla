----------------------------- MODULE MCDayBrief -----------------------------
(* A bounded instance of DayBrief: three tasks around the midnight between    *)
(* two days.                                                                  *)
EXTENDS DayBrief, TLC

CONSTANTS a, b, c

\* A chain: the titles of a and of c are alike with that of b only, and each
\* task has more to show than those before it.
MCTask  == {a, b, c}
MCPlace == a :> 1 @@ b :> 2 @@ c :> 3
MCRank  == a :> 1 @@ b :> 2 @@ c :> 3
MCDue   == a :> 1 @@ b :> 1 @@ c :> 2
MCAlike == {{a, b}, {b, c}}

MCCommands == {<<"day", 0>>, <<"day", 1>>}
=============================================================================
