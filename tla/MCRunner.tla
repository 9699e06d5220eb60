------------------------------ MODULE MCRunner ------------------------------
(***************************************************************************)
(* A check with the rule of gofmt and one without it stand for the four of *)
(* profile v1.                                                             *)
(***************************************************************************)
EXTENDS Runner

MCCheckID == {"go_test", "gofmt"}
=============================================================================
