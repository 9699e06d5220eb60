------------------------------- MODULE Adapter -------------------------------
(***************************************************************************)
(* internal/jjadapter: one query.  jj prints, execx keeps the beginning of *)
(* what it prints and appends a marker when it cuts, and the output is     *)
(* read line by line: the four listings by the strict parsers of the       *)
(* adapter, the policy file by parsePolicyTOML.                            *)
(*                                                                         *)
(* Nobody asks execx whether it has cut.  The contents of files that are   *)
(* not parsed are the subject of module Orchestrator (Shown).              *)
(***************************************************************************)
EXTENDS PolicyParser

CONSTANTS
  RowLine,    \* the lines that listings are made of
  MaxKept     \* bound: the whole lines that execx keeps

\* ListBookmarks, ListCommits, ListCommitObs and ListTreeEntries.
Listing == {"bookmarks", "commits", "obs", "tree"}

Query == Listing \cup {"policy"}

\* "[execx: output truncated]" on a line of its own: it has no `|', no tab and
\* no `=', and is malformed to every parser.
Marker == [kind |-> "malformed", key |-> "", val |-> ""]

\* A line of a listing is passed over (empty, a "Hint:" among the bookmarks, the
\* root among the tree), malformed, or a row: an id or a path and the rest.
ASSUME AdapterAssumption ==
  /\ RowLine \subseteq LineType /\ Marker \in LineType
  /\ MaxKept \in Nat

VARIABLES
  query,      \* what is asked
  printed,    \* the lines jj prints
  rows        \* the rows of the listing so far, without their order

adapterVars == <<vars, query, printed, rows>>

\* What a line that was cut may read as, with nothing of it missing at most.
Cuts(l) ==
  {x \in Line \cup RowLine :
     x.kind = "pair" => l.kind = "malformed" \/ (l.kind = "pair" /\ l.key = x.key)}

\* Faulty variant: the output is cut without a word.
FaultyCaptured(ls) ==
  IF Len(ls) <= MaxKept THEN {ls}
  ELSE {Append(SubSeq(ls, 1, MaxKept), c) : c \in Cuts(ls[MaxKept + 1])}

\* What the adapter is given of the lines that were printed.
Captured(ls) ==
  IF Len(ls) <= MaxKept THEN {ls}
  ELSE {Append(Append(SubSeq(ls, 1, MaxKept), c), Marker) : c \in Cuts(ls[MaxKept + 1])}

AdapterInit ==
  /\ query \in Query
  /\ \E n \in 0..MaxLines : printed \in [1..n -> IF query = "policy" THEN Line ELSE RowLine]
  /\ rows = {}
  /\ file = <<>> /\ pos = 1 /\ saw = {} /\ policy = Default
  /\ verdict = "asking"

-----------------------------------------------------------------------------
Answer ==
  /\ verdict = "asking"
  /\ file' \in Captured(printed)
  /\ verdict' = "reading"
  /\ UNCHANGED <<pos, saw, policy, query, printed, rows>>

\* `jj file show' says that there is no such path: a policy of its own.
Absent ==
  /\ verdict = "asking" /\ query = "policy" /\ printed = <<>>
  /\ verdict' = "absent"
  /\ UNCHANGED <<file, pos, saw, policy, query, printed, rows>>

\* jj could not be started, was killed or exits with another error; what it has
\* printed is not read.
QueryFailed ==
  /\ verdict = "asking"
  /\ verdict' = "failed"
  /\ UNCHANGED <<file, pos, saw, policy, query, printed, rows>>

ReadPolicy ==
  /\ query = "policy" /\ Next
  /\ UNCHANGED <<query, printed, rows>>

SkipRow ==
  /\ query \in Listing /\ Reading /\ file[pos].kind = "skip"
  /\ pos' = pos + 1
  /\ UNCHANGED <<file, saw, policy, verdict, query, printed, rows>>

TakeRow ==
  /\ query \in Listing /\ Reading /\ file[pos].kind = "pair"
  /\ rows' = rows \cup {file[pos]}
  /\ pos' = pos + 1
  /\ UNCHANGED <<file, saw, policy, verdict, query, printed>>

\* ErrJJParseFailed.
RefuseRow ==
  /\ query \in Listing /\ Reading /\ file[pos].kind = "malformed"
  /\ verdict' = "malformed"
  /\ UNCHANGED <<file, pos, saw, policy, query, printed, rows>>

\* ListTreeEntries sorts its rows, which changes their order only.
EndOfRows ==
  /\ query \in Listing /\ verdict = "reading" /\ pos > Len(file)
  /\ verdict' = "listed"
  /\ UNCHANGED <<file, pos, saw, policy, query, printed, rows>>

AdapterNext ==
  \/ Answer \/ Absent \/ QueryFailed
  \/ ReadPolicy
  \/ SkipRow \/ TakeRow \/ RefuseRow \/ EndOfRows

AdapterSpec == AdapterInit /\ [][AdapterNext]_adapterVars

-----------------------------------------------------------------------------
RowsOf(ls) == {ls[i] : i \in {j \in 1..Len(ls) : ls[j].kind = "pair"}}

(* "The parser NEVER silently drops a row" (jjadapter.go:973), although     *)
(* execx cuts what is long and no caller asks it: an answer that is used is *)
(* the whole of what jj printed, and a listing has every row of it.         *)
NothingIsLost ==
  verdict \in {"loaded", "listed"} =>
    /\ file = printed
    /\ \A i \in 1..Len(printed) : printed[i].kind # "malformed"
    /\ verdict = "listed" => rows = RowsOf(printed)
=============================================================================
