------------------------------ MODULE MCCheckCmd ------------------------------
(***************************************************************************)
(* A chain for `bjj check': 0 is root(), 1 is published, 2 is clean, 3 has *)
(* conflicts and a symlink, 4 brings a malformed policy.  The bookmark may *)
(* move between any two steps of the command.                              *)
(***************************************************************************)
EXTENDS CheckCmd, TLC

MCCommit == 0..4

MCAnc == 0 :> {0} @@ 1 :> {0, 1} @@ 2 :> {0, 1, 2} @@ 3 :> {0, 1, 2, 3} @@ 4 :> {0, 1, 4}

\* The bookmark at 2, 3 or 4 with 1 published, or at 2 which is published.
MCViews ==
  {[local |-> {m[1]}, rem |-> "lab" :> {m[2]}, other |-> "lab" :> {}] :
     m \in {<<2, 1>>, <<3, 1>>, <<4, 1>>, <<2, 2>>}}

OneRemote == {"lab"}

MCPrivateRevset == {"none()"}
MCMatch(p, v) == {}

MCPolicyFile ==
  [c \in Commit |-> [outcome |-> IF c = 4 THEN "MALFORMED" ELSE "DEFAULT",
                     policy |-> DefaultPolicy]]

MCCheckID == {"go_test", "gofmt"}
MCProfile == <<"go_test", "gofmt">>

MCPath == {"a.go"}

\* One file in every commit, a symlink in 3.
MCTree ==
  [c \in Commit |->
     "a.go" :> [kind |-> IF c = 3 THEN "symlink" ELSE "file", exec |-> FALSE, fits |-> TRUE]]
=============================================================================
