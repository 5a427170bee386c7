--------------------------- MODULE MCCommandPipeline ---------------------------
(***************************************************************************)
(* Instances of CommandPipeline for TLC.                                   *)
(***************************************************************************)
EXTENDS CommandPipeline, TLC

CONSTANTS t1, t2, u1, u2

MCOneTab == t1 :> u1                      \* one player, one tab
MCOwnTabs == (t1 :> u1) @@ (t2 :> u2)     \* two players, a tab each
MCSharedStorage == [t \in {t1, t2} |-> u1] \* one player, two tabs of a browser

\* The two tabs of one browser are alike, and so are the payloads.
MCTabsAlike == Permutations({t1, t2}) \cup Permutations(Commands)
===============================================================================
