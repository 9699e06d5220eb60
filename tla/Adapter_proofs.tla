---------------------------- MODULE Adapter_proofs ----------------------------
(***************************************************************************)
(* Proofs about modules PolicyParser and Adapter.  For every policy file   *)
(* the loop over its lines computes what the schema says, which has no     *)
(* order of reading: the inductive invariant says the same of the lines    *)
(* before pos.  For all lines, outputs of any length and every bound of    *)
(* what is kept, a cut output ends with the marker, so what is taken for   *)
(* an answer was not cut; the loop keeps its invariant inside the query.   *)
(***************************************************************************)
EXTENDS Adapter, SequenceTheorems, TLAPS

(* The loop over the lines of a policy file.                               *)

\* The pairs the loop has accepted.
Before == {i \in 1..Len(file) : i < pos /\ file[i].kind = "pair"}

\* Types, and how far the loop can be.
Position ==
  /\ file \in Seq(LineType)
  /\ pos \in 1..Len(file) + 1
  /\ verdict \in {"reading", "loaded", "malformed"}
  /\ DOMAIN policy = Field
  /\ verdict = "loaded" => pos = Len(file) + 1 /\ "schema_version" \in saw

\* The lines before pos follow the schema.
PrefixFollows ==
  /\ \A i \in 1..Len(file) : i < pos => file[i].kind # "malformed"
  /\ \A i \in Before : Legal(file[i].key, file[i].val)
  /\ \A i, j \in Before : file[i].key = file[j].key => i = j

\* saw and policy are those of the lines before pos.
PrefixIsRead ==
  /\ \A k : k \in saw <=> \E i \in Before : file[i].key = k
  /\ \A i \in Before :
       file[i].key \in Field => policy[file[i].key] = Decoded(file[i].key, file[i].val)
  /\ \A f \in Field : (\A i \in Before : file[i].key # f) => policy[f] = Default[f]

ParserInv ==
  /\ Position
  /\ PrefixFollows
  /\ PrefixIsRead
  /\ verdict = "malformed" => ~WellFormed

-----------------------------------------------------------------------------
LEMMA Init_Inv == Init => ParserInv
<1> SUFFICES ASSUME Init PROVE ParserInv
  OBVIOUS
<1>1. file \in Seq(LineType)
  BY LineAssumption DEF Init
<1>2. Before = {}
  BY <1>1 DEF Init, Before
<1> QED BY <1>1, <1>2
  DEF Init, ParserInv, Position, PrefixFollows, PrefixIsRead, Default

\* A line that is passed over.
LEMMA Skip_Inv == ParserInv /\ Skip => ParserInv'
<1> SUFFICES ASSUME ParserInv, Skip PROVE ParserInv'
  OBVIOUS
<1> USE DEF ParserInv, Position, Skip, Reading
<1>1. Before' = Before
  BY DEF Before
<1>2. Position'
  OBVIOUS
<1>3. PrefixFollows'
  BY <1>1 DEF PrefixFollows
<1>4. PrefixIsRead'
  BY <1>1 DEF PrefixIsRead
<1> QED BY <1>2, <1>3, <1>4

\* A line that is taken in.
LEMMA Accept_Inv == ParserInv /\ Accept => ParserInv'
<1> SUFFICES ASSUME ParserInv, Accept PROVE ParserInv'
  OBVIOUS
<1> DEFINE l == file[pos]
<1>1. /\ file \in Seq(LineType) /\ file' = file /\ pos \in 1..Len(file) /\ pos' = pos + 1
      /\ verdict = "reading" /\ verdict' = "reading" /\ DOMAIN policy = Field
      /\ l.kind = "pair" /\ l.key \notin saw /\ Legal(l.key, l.val)
      /\ saw' = saw \cup {l.key}
      /\ policy' = IF l.key \in Field
                   THEN [policy EXCEPT ![l.key] = Decoded(l.key, l.val)] ELSE policy
  BY DEF ParserInv, Position, Accept, Reading
<1>2. Before' = Before \cup {pos} /\ pos \notin Before
  BY <1>1 DEF Before
<1>3. \A i \in Before : file[i].key # l.key
  BY <1>1 DEF ParserInv, PrefixIsRead
<1>4. Position'
  BY <1>1 DEF Position
<1>5. PrefixFollows'
  <2>1. \A i \in 1..Len(file) : i < pos + 1 => i < pos \/ i = pos
    BY <1>1
  <2> QED BY <1>1, <1>2, <1>3, <2>1 DEF ParserInv, PrefixFollows
<1>6. PrefixIsRead'
  <2>1. \A k : k \in saw' <=> \E i \in Before' : file'[i].key = k
    BY <1>1, <1>2 DEF ParserInv, PrefixIsRead
  <2>2. \A f \in Field : policy'[f] = IF f = l.key THEN Decoded(l.key, l.val) ELSE policy[f]
    BY <1>1
  <2>3. \A i \in Before' :
          file'[i].key \in Field => policy'[file'[i].key] = Decoded(file'[i].key, file'[i].val)
    BY <1>1, <1>2, <1>3, <2>2 DEF ParserInv, PrefixIsRead
  <2>4. \A f \in Field : (\A i \in Before' : file'[i].key # f) => policy'[f] = Default[f]
    BY <1>1, <1>2, <2>2 DEF ParserInv, PrefixIsRead
  <2> QED BY <2>1, <2>3, <2>4 DEF PrefixIsRead
<1> QED BY <1>1, <1>4, <1>5, <1>6 DEF ParserInv

\* A file is refused only for a line that no file of the schema has there.
LEMMA Refuse_Inv == ParserInv /\ Refuse => ParserInv'
<1> SUFFICES ASSUME ParserInv, Refuse PROVE ParserInv'
  OBVIOUS
<1>1. pos \in 1..Len(file) /\ file' = file /\ pos' = pos /\ saw' = saw /\ policy' = policy
  BY DEF ParserInv, Position, Refuse, Reading
<1>2. ~WellFormed
  <2>1. CASE file[pos].kind = "malformed"
    BY <1>1, <2>1 DEF WellFormed
  <2>2. CASE file[pos].kind = "pair" /\ ~Legal(file[pos].key, file[pos].val)
    BY <1>1, <2>2 DEF WellFormed, Pairs
  <2>3. CASE file[pos].kind = "pair" /\ file[pos].key \in saw
    <3>1. PICK i \in Before : file[i].key = file[pos].key
      BY <2>3 DEF ParserInv, PrefixIsRead
    <3>2. i \in Pairs /\ pos \in Pairs /\ i # pos
      BY <1>1, <2>3, <3>1 DEF Before, Pairs
    <3> QED BY <3>1, <3>2 DEF WellFormed
  <2>4. file[pos].kind \in {"skip", "malformed", "pair"}
    <3>1. file[pos] \in LineType
      BY <1>1 DEF ParserInv, Position
    <3> QED BY <3>1 DEF LineType
  <2> QED BY <2>1, <2>2, <2>3, <2>4 DEF Refuse
<1>3. Before' = Before /\ (WellFormed <=> WellFormed')
  BY <1>1 DEF Before, WellFormed, Pairs
<1>4. Position'
  BY <1>1 DEF ParserInv, Position, Refuse, Reading
<1>5. PrefixFollows' /\ PrefixIsRead'
  BY <1>1, <1>3 DEF ParserInv, PrefixFollows, PrefixIsRead
<1> QED BY <1>2, <1>3, <1>4, <1>5 DEF ParserInv

\* At the end every pair has been read.
LEMMA AllRead ==
  ASSUME ParserInv, pos = Len(file) + 1
  PROVE  Before = Pairs
BY DEF ParserInv, Position, Before, Pairs

LEMMA EndOfFile_Inv == ParserInv /\ EndOfFile => ParserInv'
<1> SUFFICES ASSUME ParserInv, EndOfFile PROVE ParserInv'
  OBVIOUS
<1>1. /\ pos = Len(file) + 1 /\ file' = file /\ pos' = pos /\ saw' = saw /\ policy' = policy
      /\ verdict' = IF "schema_version" \in saw THEN "loaded" ELSE "malformed"
  BY DEF ParserInv, Position, EndOfFile
<1>2. "schema_version" \notin saw => ~WellFormed
  BY <1>1, AllRead DEF ParserInv, PrefixIsRead, WellFormed
<1>3. Before' = Before /\ (WellFormed <=> WellFormed')
  BY <1>1 DEF Before, WellFormed, Pairs
<1>4. Position'
  BY <1>1 DEF ParserInv, Position
<1>5. PrefixFollows' /\ PrefixIsRead'
  BY <1>1, <1>3 DEF ParserInv, PrefixFollows, PrefixIsRead
<1> QED BY <1>1, <1>2, <1>3, <1>4, <1>5 DEF ParserInv

LEMMA Next_Inv == ParserInv /\ [Next]_vars => ParserInv'
<1> SUFFICES ASSUME ParserInv, [Next]_vars PROVE ParserInv'
  OBVIOUS
<1>1. CASE Next
  BY <1>1, Skip_Inv, Accept_Inv, Refuse_Inv, EndOfFile_Inv DEF Next
<1>2. CASE UNCHANGED vars
  <2> USE <1>2 DEF vars
  <2>1. Before' = Before /\ (WellFormed <=> WellFormed')
    BY DEF Before, WellFormed, Pairs
  <2> QED BY <2>1 DEF ParserInv, Position, PrefixFollows, PrefixIsRead
<1> QED BY <1>1, <1>2

\* The loop keeps its invariant.
THEOREM ParserInvariant == Spec => []ParserInv
BY Init_Inv, Next_Inv, PTL DEF Spec

LEMMA InvWritten == ParserInv => PolicyIsWhatIsWritten
<1> SUFFICES ASSUME ParserInv, verdict = "loaded"
             PROVE  /\ WellFormed
                    /\ \A i \in Pairs : file[i].key \in Field =>
                         policy[file[i].key] = Decoded(file[i].key, file[i].val)
                    /\ \A f \in Field : (\A i \in Pairs : file[i].key # f) => policy[f] = Default[f]
  BY DEF ParserInv, PolicyIsWhatIsWritten
<1>1. pos = Len(file) + 1 /\ "schema_version" \in saw
  BY DEF ParserInv, Position
<1>2. Before = Pairs
  BY <1>1, AllRead
<1>3. WellFormed
  BY <1>1, <1>2 DEF ParserInv, Position, PrefixFollows, PrefixIsRead, WellFormed
<1> QED BY <1>2, <1>3 DEF ParserInv, PrefixIsRead

\* The policy of a file of any length is what the file writes and the default
\* elsewhere, and every file that breaks the schema is refused.
THEOREM ParsesTheSchema == Spec => []PolicyIsWhatIsWritten
BY ParserInvariant, InvWritten, PTL

-----------------------------------------------------------------------------
(* A query and the capture of its output.                                  *)

\* The output is whole, or the last line of what is left of it is the marker.
WholeOrMarked ==
  \/ file = printed
  \/ Len(file) >= 1 /\ file[Len(file)].kind = "malformed"

AdapterTyped ==
  /\ query \in Query
  /\ printed \in Seq(LineType) /\ file \in Seq(LineType)
  /\ pos \in 1..Len(file) + 1
  /\ verdict \in {"asking", "reading", "loaded", "malformed", "listed", "absent", "failed"}
  /\ verdict = "loaded" => query = "policy"
  /\ verdict = "listed" => query \in Listing

\* The parser of policies is at rest before there is an answer.
AtRest == pos = 1 /\ saw = {} /\ policy = Default

\* The rows of a listing are those of the lines before pos, none malformed.
RowsBefore ==
  /\ \A i \in 1..Len(file) : i < pos => file[i].kind # "malformed"
  /\ rows = {file[i] : i \in {j \in 1..Len(file) : j < pos /\ file[j].kind = "pair"}}
  /\ verdict = "listed" => pos = Len(file) + 1
  /\ verdict = "malformed" => \E i \in 1..Len(file) : file[i].kind = "malformed"

AdapterInv ==
  /\ AdapterTyped
  /\ verdict \in {"asking", "absent", "failed"} => AtRest /\ rows = {} /\ file = <<>>
  /\ verdict \notin {"asking", "absent", "failed"} =>
       /\ WholeOrMarked
       /\ query = "policy" => ParserInv
       /\ query \in Listing => RowsBefore

-----------------------------------------------------------------------------
\* What is left of an output is typed, and marked if it was cut.
LEMMA CapturedIsMarked ==
  ASSUME NEW ls \in Seq(LineType), NEW f \in Captured(ls)
  PROVE  /\ f \in Seq(LineType)
         /\ f = ls \/ (Len(f) >= 1 /\ f[Len(f)].kind = "malformed")
<1>1. CASE Len(ls) <= MaxKept
  BY <1>1 DEF Captured
<1>2. CASE ~(Len(ls) <= MaxKept)
  <2>1. PICK c \in Cuts(ls[MaxKept + 1]) : f = Append(Append(SubSeq(ls, 1, MaxKept), c), Marker)
    BY <1>2 DEF Captured
  <2>2. c \in LineType /\ Marker \in LineType
    <3>1. c \in Line \cup RowLine
      BY <2>1 DEF Cuts
    <3> QED BY <3>1, LineAssumption, AdapterAssumption
  <2>3. SubSeq(ls, 1, MaxKept) \in Seq(LineType)
    <3>1. \A i \in 1..MaxKept : ls[i] \in LineType
      BY <1>2, AdapterAssumption, ElementOfSeq, LenProperties
    <3> QED BY <3>1, AdapterAssumption, SubSeqProperties
  <2> DEFINE s == Append(SubSeq(ls, 1, MaxKept), c)
  <2>4. s \in Seq(LineType) /\ f = Append(s, Marker)
    BY <2>1, <2>2, <2>3, AppendProperties
  <2> HIDE DEF s
  <2>5. f \in Seq(LineType) /\ Len(f) = Len(s) + 1 /\ f[Len(f)] = Marker /\ Len(s) \in Nat
    BY <2>2, <2>4, AppendProperties, LenProperties
  <2>6. Len(f) >= 1
    BY <2>5
  <2>7. Marker.kind = "malformed"
    BY DEF Marker
  <2> QED BY <2>5, <2>6, <2>7
<1> QED BY <1>1, <1>2

LEMMA AdapterInit_Inv == AdapterInit => AdapterInv
<1> SUFFICES ASSUME AdapterInit PROVE AdapterInv
  OBVIOUS
<1>1. printed \in Seq(LineType)
  <2>1. PICK n \in 0..MaxLines : printed \in [1..n -> IF query = "policy" THEN Line ELSE RowLine]
    BY DEF AdapterInit
  <2>2. printed \in [1..n -> LineType] /\ n \in Nat
    BY <2>1, LineAssumption, AdapterAssumption
  <2> QED BY <2>2
<1>2. <<>> \in Seq(LineType) /\ Len(<<>>) = 0
  BY EmptySeq
<1> QED BY <1>1, <1>2 DEF AdapterInit, AdapterInv, AdapterTyped, AtRest

\* The steps before the output is read.
LEMMA Ask_Inv == AdapterInv /\ (Answer \/ Absent \/ QueryFailed) => AdapterInv'
<1> SUFFICES ASSUME AdapterInv, Answer \/ Absent \/ QueryFailed PROVE AdapterInv'
  OBVIOUS
<1>1. CASE Answer
  <2>1. /\ file' \in Captured(printed) /\ verdict' = "reading" /\ AtRest /\ rows = {}
        /\ UNCHANGED <<pos, saw, policy, query, printed, rows>>
    BY <1>1 DEF Answer, AdapterInv
  <2>2. file' \in Seq(LineType) /\ Len(file') \in Nat /\ WholeOrMarked'
    BY <2>1, CapturedIsMarked, LenProperties DEF AdapterInv, AdapterTyped, WholeOrMarked
  <2>3. AdapterTyped'
    BY <2>1, <2>2 DEF AdapterInv, AdapterTyped, AtRest
  <2>4. ParserInv'
    <3>1. Before' = {}
      BY <2>1, <2>2 DEF Before, AtRest
    <3> QED BY <2>1, <2>2, <3>1
      DEF ParserInv, Position, PrefixFollows, PrefixIsRead, AtRest, Default
  <2>5. RowsBefore'
    BY <2>1, <2>2 DEF RowsBefore, AtRest
  <2> QED BY <2>1, <2>2, <2>3, <2>4, <2>5 DEF AdapterInv
<1>2. CASE Absent \/ QueryFailed
  BY <1>2 DEF Absent, QueryFailed, AdapterInv, AdapterTyped, AtRest
<1> QED BY <1>1, <1>2

LEMMA ReadPolicy_Inv == AdapterInv /\ ReadPolicy => AdapterInv'
<1> SUFFICES ASSUME AdapterInv, ReadPolicy PROVE AdapterInv'
  OBVIOUS
<1>1. /\ query = "policy" /\ Next /\ UNCHANGED <<query, printed, rows>>
      /\ verdict = "reading" /\ file' = file
  BY DEF ReadPolicy, Next, Skip, Accept, Refuse, EndOfFile, Reading
<1>2. ParserInv'
  BY <1>1, Next_Inv DEF AdapterInv
<1>3. verdict' \in {"reading", "loaded", "malformed"} /\ pos' \in 1..Len(file') + 1
      /\ file' \in Seq(LineType)
  BY <1>2 DEF ParserInv, Position
<1> QED BY <1>1, <1>2, <1>3 DEF AdapterInv, AdapterTyped, WholeOrMarked, Listing

LEMMA ReadRow_Inv == AdapterInv /\ (SkipRow \/ TakeRow \/ RefuseRow \/ EndOfRows) => AdapterInv'
<1> SUFFICES ASSUME AdapterInv, SkipRow \/ TakeRow \/ RefuseRow \/ EndOfRows PROVE AdapterInv'
  OBVIOUS
<1>1. /\ query \in Listing /\ verdict = "reading" /\ RowsBefore /\ WholeOrMarked
      /\ UNCHANGED <<file, saw, policy, query, printed>>
      /\ file \in Seq(LineType) /\ Len(file) \in Nat /\ pos \in 1..Len(file) + 1
  BY LenProperties
  DEF AdapterInv, AdapterTyped, SkipRow, TakeRow, RefuseRow, EndOfRows, Reading
<1>2. WholeOrMarked' /\ query' # "policy"
  BY <1>1 DEF WholeOrMarked, Listing
<1>3. CASE SkipRow
  <2>1. pos' = pos + 1 /\ verdict' = verdict /\ rows' = rows /\ pos \in 1..Len(file)
        /\ file[pos].kind = "skip"
    BY <1>1, <1>3 DEF SkipRow, Reading
  <2>2. RowsBefore'
    BY <1>1, <2>1 DEF RowsBefore
  <2> QED BY <1>1, <1>2, <2>1, <2>2 DEF AdapterInv, AdapterTyped
<1>4. CASE TakeRow
  <2>1. pos' = pos + 1 /\ verdict' = verdict /\ rows' = rows \cup {file[pos]}
        /\ pos \in 1..Len(file) /\ file[pos].kind = "pair"
    BY <1>1, <1>4 DEF TakeRow, Reading
  <2>2. RowsBefore'
    BY <1>1, <2>1 DEF RowsBefore
  <2> QED BY <1>1, <1>2, <2>1, <2>2 DEF AdapterInv, AdapterTyped
<1>5. CASE RefuseRow
  <2>1. pos' = pos /\ verdict' = "malformed" /\ rows' = rows /\ pos \in 1..Len(file)
        /\ file[pos].kind = "malformed"
    BY <1>1, <1>5 DEF RefuseRow, Reading
  <2>2. RowsBefore'
    BY <1>1, <2>1 DEF RowsBefore
  <2> QED BY <1>1, <1>2, <2>1, <2>2 DEF AdapterInv, AdapterTyped
<1>6. CASE EndOfRows
  <2>1. pos' = pos /\ verdict' = "listed" /\ rows' = rows /\ pos = Len(file) + 1
    BY <1>1, <1>6 DEF EndOfRows
  <2>2. RowsBefore'
    BY <1>1, <2>1 DEF RowsBefore
  <2> QED BY <1>1, <1>2, <2>1, <2>2 DEF AdapterInv, AdapterTyped
<1> QED BY <1>3, <1>4, <1>5, <1>6

LEMMA AdapterNext_Inv == AdapterInv /\ [AdapterNext]_adapterVars => AdapterInv'
<1> SUFFICES ASSUME AdapterInv, [AdapterNext]_adapterVars PROVE AdapterInv'
  OBVIOUS
<1>1. CASE AdapterNext
  BY <1>1, Ask_Inv, ReadPolicy_Inv, ReadRow_Inv DEF AdapterNext
<1>2. CASE UNCHANGED adapterVars
  <2> USE <1>2 DEF adapterVars
  <2>1. query = "policy" /\ ParserInv => ParserInv'
    BY Next_Inv
  <2>2. RowsBefore => RowsBefore'
    BY DEF vars, RowsBefore
  <2> QED BY <2>1, <2>2 DEF vars, AdapterInv, AdapterTyped, AtRest, WholeOrMarked
<1> QED BY <1>1, <1>2

(* AdapterInv is an invariant of a query.                                   *)
THEOREM AdapterInvariant == AdapterSpec => []AdapterInv
BY AdapterInit_Inv, AdapterNext_Inv, PTL DEF AdapterSpec

-----------------------------------------------------------------------------
LEMMA InvNothingLost == AdapterInv => NothingIsLost
<1> SUFFICES ASSUME AdapterInv, verdict \in {"loaded", "listed"}
             PROVE  /\ file = printed
                    /\ \A i \in 1..Len(printed) : printed[i].kind # "malformed"
                    /\ verdict = "listed" => rows = RowsOf(printed)
  BY DEF NothingIsLost
<1>1. WholeOrMarked /\ file \in Seq(LineType) /\ Len(file) \in Nat
  BY LenProperties DEF AdapterInv, AdapterTyped
<1>2. /\ \A i \in 1..Len(file) : file[i].kind # "malformed"
      /\ verdict = "listed" => rows = RowsOf(file)
  <2>1. CASE verdict = "loaded"
    <3>1. ParserInv
      BY <2>1 DEF AdapterInv, AdapterTyped
    <3> QED BY <1>1, <2>1, <3>1 DEF ParserInv, Position, PrefixFollows
  <2>2. CASE verdict = "listed"
    <3>1. RowsBefore /\ pos = Len(file) + 1
      BY <2>2 DEF AdapterInv, AdapterTyped, RowsBefore
    <3>2. {j \in 1..Len(file) : j < pos /\ file[j].kind = "pair"}
            = {j \in 1..Len(file) : file[j].kind = "pair"}
      BY <1>1, <3>1
    <3> QED BY <1>1, <3>1, <3>2 DEF RowsBefore, RowsOf
  <2> QED BY <2>1, <2>2
<1> QED BY <1>1, <1>2 DEF WholeOrMarked

(* No part of an output is lost in silence, however short the bound of the  *)
(* capture is: an answer that is used is all that jj printed                *)
(* (jjadapter.go:973-975).                                                  *)
THEOREM AnswersAreWhole == AdapterSpec => []NothingIsLost
BY AdapterInvariant, InvNothingLost, PTL

(* The policy that a query yields is what the file writes, of which by      *)
(* AnswersAreWhole nothing is missing (policy.go:315-334).                  *)
THEOREM PolicyOfTheQuery == AdapterSpec => []PolicyIsWhatIsWritten
<1>1. AdapterInv => PolicyIsWhatIsWritten
  <2> SUFFICES ASSUME AdapterInv, verdict \in {"loaded", "malformed"}
               PROVE  PolicyIsWhatIsWritten
    BY DEF PolicyIsWhatIsWritten
  <2>1. CASE query = "policy"
    BY <2>1, InvWritten DEF AdapterInv
  <2>2. CASE query \in Listing
    BY <2>2 DEF AdapterInv, AdapterTyped, RowsBefore, PolicyIsWhatIsWritten, WellFormed, Listing
  <2> QED BY <2>1, <2>2 DEF AdapterInv, AdapterTyped, Query
<1> QED BY <1>1, AdapterInvariant, PTL
=============================================================================
