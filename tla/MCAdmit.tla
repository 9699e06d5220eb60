------------------------------ MODULE MCAdmit ------------------------------
(***************************************************************************)
(* A small repository for `bjj admit'.                                     *)
(*                                                                         *)
(*      0 --- 1 --- 2 --- 4 --- 5    0 is root(); 4 merges 2 and 3         *)
(*             \--- 3 ---/                                                 *)
(*                                                                         *)
(* 6 is another child of 1.                                                *)
(*                                                                         *)
(* 1 has no policy file, 2 a strict and 4 a permissive one, 3 has one      *)
(* whose private set depends on the view, the one of 5 is malformed, and   *)
(* that of 6 has a blank private set.                                      *)
(***************************************************************************)
EXTENDS Admit, TLC

MCCommit == 0..6

MCAnc == 0 :> {0} @@ 1 :> {0, 1} @@ 2 :> {0, 1, 2} @@ 3 :> {0, 1, 3}
         @@ 4 :> 0..4 @@ 5 :> 0..5 @@ 6 :> {0, 1, 6}

MCEmptyDesc  == {3}
MCConflicted == {2}

MCPrivateRevset == {"none()", "wip", "unpublished", Blank}

MCMatch(p, v) ==
  CASE p \in {"none()", Blank} -> {}
    [] p = "wip"               -> {2}
    [] p = "unpublished"       -> Commit \ UNION {Anc[c] : c \in RemoteBookmarks(v)}

MCPolicyFile ==
  LET loaded(new, nff, desc, confl, priv) ==
        [outcome |-> "LOADED",
         policy |-> [allowNew |-> new, allowNFF |-> nff, requireDesc |-> desc,
                     allowConflicted |-> confl, private |-> priv]]
      noFile == [outcome |-> "DEFAULT", policy |-> DefaultPolicy]
  IN  0 :> noFile @@ 1 :> noFile
      @@ 2 :> loaded(FALSE, FALSE, TRUE, TRUE, "wip")
      @@ 3 :> loaded(TRUE, TRUE, FALSE, FALSE, "unpublished")
      @@ 4 :> loaded(TRUE, TRUE, FALSE, FALSE, "none()")
      @@ 5 :> [outcome |-> "MALFORMED", policy |-> DefaultPolicy]
      @@ 6 :> loaded(TRUE, FALSE, TRUE, FALSE, Blank)

OneRemote == {"lab"}

\* A commit that brings a malformed policy, on top of what is published and
\* published itself.
MalformedViews ==
  {[local |-> {5}, rem |-> "lab" :> {c}, other |-> "lab" :> {}] : c \in {4, 5}}

MCViews == MalformedViews \cup
  {[local |-> l, rem |-> "lab" :> r, other |-> "lab" :> o] :
     l \in {{}, {2}, {3}, {4}, {5}, {6}, {2, 3}}, r \in {{}, {1}, {3}, {1, 2}},
     o \in {{}, {1}, {2, 3}}}

\* Two stacked commits above a published one, no private commit anywhere.
StackViews ==
  {[local |-> l, rem |-> "lab" :> {1}, other |-> "lab" :> {1}] : l \in {{2}, {3}, {4}}}
=============================================================================
