---------------------------- MODULE PolicyParser ----------------------------
(***************************************************************************)
(* internal/admission parsePolicyTOML: the loop over the lines of          *)
(* .bjj/policy.toml.  A line is what is left of it after trimming, the     *)
(* split at the first `=' and the removal of one pair of quotes.           *)
(***************************************************************************)
EXTENDS Integers, Sequences

CONSTANTS
  Line,       \* the lines that files are made of
  MaxLines    \* bound on the length of a file

BoolField == {"allow_new_bookmarks", "allow_non_fast_forward", "require_description",
              "allow_conflicted_commits"}

Field == BoolField \cup {"private_commits"}

\* A line is blank or a comment, has no key, or is a pair.
LineType == [kind : {"skip", "malformed", "pair"}, key : STRING, val : STRING]

ASSUME LineAssumption == Line \subseteq LineType

VARIABLES
  file,       \* the lines of the file
  pos,        \* the line the scanner reads next
  saw,        \* the keys so far
  policy,     \* the policy so far
  verdict     \* "reading", "loaded" or "malformed"

vars == <<file, pos, saw, policy, verdict>>

Default ==
  [f \in Field |-> IF f = "private_commits" THEN "none()"
                  ELSE f \in {"allow_new_bookmarks", "require_description"}]

\* parseBool.
Yes == {"true", "True", "TRUE"}
No  == {"false", "False", "FALSE"}

\* The value is one the key may have; a blank revset passes here.
Legal(key, val) ==
  \/ key = "schema_version" /\ val = "1"
  \/ key \in BoolField /\ val \in Yes \cup No
  \/ key = "private_commits" /\ val # ""

Decoded(key, val) == IF key \in BoolField THEN val \in Yes ELSE val

-----------------------------------------------------------------------------
Init ==
  /\ \E n \in 0..MaxLines : file \in [1..n -> Line]
  /\ pos = 1
  /\ saw = {}
  /\ policy = Default
  /\ verdict = "reading"

Reading == verdict = "reading" /\ pos <= Len(file)

Skip ==
  /\ Reading /\ file[pos].kind = "skip"
  /\ pos' = pos + 1
  /\ UNCHANGED <<file, saw, policy, verdict>>

\* Faulty variant: the last of several lines for a key wins.
FaultyAccept ==
  /\ Reading /\ file[pos].kind = "pair"
  /\ LET l == file[pos] IN
       /\ Legal(l.key, l.val)
       /\ saw' = saw \cup {l.key}
       /\ policy' = IF l.key \in Field
                    THEN [policy EXCEPT ![l.key] = Decoded(l.key, l.val)] ELSE policy
  /\ pos' = pos + 1
  /\ UNCHANGED <<file, verdict>>

\* A known key for the first time, with a legal value.
Accept ==
  /\ Reading /\ file[pos].kind = "pair"
  /\ LET l == file[pos] IN
       /\ l.key \notin saw /\ Legal(l.key, l.val)
       /\ saw' = saw \cup {l.key}
       /\ policy' = IF l.key \in Field
                    THEN [policy EXCEPT ![l.key] = Decoded(l.key, l.val)] ELSE policy
  /\ pos' = pos + 1
  /\ UNCHANGED <<file, verdict>>

\* No key, a key for the second time, an unknown key or an illegal value.
Refuse ==
  /\ Reading /\ file[pos].kind # "skip"
  /\ LET l == file[pos] IN
       l.kind = "malformed" \/ l.key \in saw \/ ~Legal(l.key, l.val)
  /\ verdict' = "malformed"
  /\ UNCHANGED <<file, pos, saw, policy>>

\* schemaSeen is set by the only accepted line with that key.
EndOfFile ==
  /\ verdict = "reading" /\ pos > Len(file)
  /\ verdict' = IF "schema_version" \in saw THEN "loaded" ELSE "malformed"
  /\ UNCHANGED <<file, pos, saw, policy>>

Next == Skip \/ Accept \/ Refuse \/ EndOfFile

Spec == Init /\ [][Next]_vars

-----------------------------------------------------------------------------
(* The schema, without an order of reading.                                *)

Pairs == {i \in 1..Len(file) : file[i].kind = "pair"}

WellFormed ==
  /\ \A i \in 1..Len(file) : file[i].kind # "malformed"
  /\ \A i \in Pairs : Legal(file[i].key, file[i].val)
  /\ \A i, j \in Pairs : file[i].key = file[j].key => i = j
  /\ \E i \in Pairs : file[i].key = "schema_version"

(* A file is loaded exactly when it follows the schema, and the policy is   *)
(* then what the file writes and the default elsewhere: no typo, repeated   *)
(* key or missing version weakens a rule in silence (policy.go:315-334).    *)
PolicyIsWhatIsWritten ==
  /\ verdict = "malformed" => ~WellFormed
  /\ verdict = "loaded" =>
       /\ WellFormed
       /\ \A i \in Pairs :
            file[i].key \in Field => policy[file[i].key] = Decoded(file[i].key, file[i].val)
       /\ \A f \in Field : (\A i \in Pairs : file[i].key # f) => policy[f] = Default[f]
=============================================================================
