------------------------------- MODULE MCPlan -------------------------------
(***************************************************************************)
(* A small repository for TLC.                                             *)
(*                                                                         *)
(*      0 --- 1 --- 2 --- 4        0 is root(), 4 merges 2 and 3           *)
(*             \--- 3 ---/                                                 *)
(***************************************************************************)
EXTENDS Plan, TLC

MCCommit == 0..4

MCAnc == 0 :> {0} @@ 1 :> {0, 1} @@ 2 :> {0, 1, 2} @@ 3 :> {0, 1, 3} @@ 4 :> 0..4

\* Two remotes: another bookmark of each may be anywhere on the graph.
TwoRemotes == {"fork", "lab"}
TwoRemoteViews ==
  {[local |-> l, rem |-> [q \in TwoRemotes |-> IF q = "lab" THEN r ELSE {}],
    other |-> [q \in TwoRemotes |-> IF q = "lab" THEN o ELSE f]] :
     l \in {{2}, {4}}, r \in {{}, {1}, {2}}, o \in {{}, {1}}, f \in {{}, {2}, {4}}}
=============================================================================
