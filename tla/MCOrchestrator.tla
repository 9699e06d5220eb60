--------------------------- MODULE MCOrchestrator ---------------------------
(***************************************************************************)
(* Two checks and small trees: subject 1 has a plain and an executable     *)
(* file, 2 a file larger than the cap of execx, 3 a file and a symlink, 4  *)
(* nothing at all, 5 the plain file alone.  Other programs and the checks  *)
(* touch "run.sh", which is a file of 1 and a stray one in 5.              *)
(***************************************************************************)
EXTENDS Orchestrator, TLC

MCCheckID == {"go_test", "gofmt"}
MCProfile == <<"go_test", "gofmt">>

MCPath == {"a.go", "run.sh"}
MCTouched == {"run.sh"}

Regular(x, f) == [kind |-> "file", exec |-> x, fits |-> f]
Link == [kind |-> "symlink", exec |-> FALSE, fits |-> TRUE]

AllTree ==
  LET tree(a, b) == "a.go" :> a @@ "run.sh" :> b IN
  1 :> tree(Regular(FALSE, TRUE), Regular(TRUE, TRUE))
  @@ 2 :> tree(Regular(FALSE, FALSE), NoEntry)
  @@ 3 :> tree(Regular(FALSE, TRUE), Link)
  @@ 4 :> tree(NoEntry, NoEntry)
  @@ 5 :> tree(Regular(FALSE, TRUE), NoEntry)

Usual == {1, 3, 4, 5}
Plain == {1}
Large == {2}

\* Tree is declared over Candidate alone.
MCTree == [c \in Candidate |-> AllTree[c]]
=============================================================================
