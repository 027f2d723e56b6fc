---------------------------- MODULE QuorumState ----------------------------
(***************************************************************************)
(* The quorum bookkeeping of submitter/quorum.go, as operators on values:  *)
(* the coordinator of submit() owns one quorumState and nobody else        *)
(* touches it.  A log is its index in the strategy; the SCT it returned is *)
(* identified with it.                                                     *)
(*                                                                         *)
(* In every operator, sr is the SubmissionRequest, strategy the function   *)
(* from indices to StrategyMembers, and qs the quorumState:                *)
(*   qs.got            strategyIndices (parallel to responses and scts),   *)
(*                     in the order the successes were accepted            *)
(*   qs.operators      the operators seen so far                           *)
(*   qs.hasRFC6962SCT, qs.hasStaticSCT                                     *)
(***************************************************************************)
EXTENDS Integers, Sequences, FiniteSets

LogTypes == {"LOGTYPE_RFC6962", "LOGTYPE_STATIC"}

\* Every bucket other than EXCLUDED only decides the order of the strategy,
\* which the index already carries.
Buckets == {"EXCLUDED", "RANKED"}

SubmissionRequest ==
  [SCTs : Nat \ {0}, Operators : Nat \ {0},
   RequireAtLeastOneRFC6962SCT : BOOLEAN, PreferAtLeastOneStaticSCT : BOOLEAN]

StrategyMember(OperatorNames) ==
  [Operator : OperatorNames, LogType : LogTypes, Bucket : Buckets]

\* The first or last element of a set of indices, as a set: a loop that stops at
\* the first hit, and may have none.
Least(S)    == {i \in S : \A j \in S : i <= j}
Greatest(S) == {i \in S : \A j \in S : j <= i}

newQuorumState ==
  [got |-> <<>>, operators |-> {}, hasRFC6962SCT |-> FALSE, hasStaticSCT |-> FALSE]

\* Mutant: the log's type is recorded where its operator belongs.
addSuccessWrongField(qs, strategy, idx) ==
  [qs EXCEPT !.got = Append(@, idx), !.operators = @ \cup {strategy[idx].LogType}]

addSuccess(qs, strategy, idx) ==
  [got           |-> Append(qs.got, idx),
   operators     |-> qs.operators \cup {strategy[idx].Operator},
   hasRFC6962SCT |-> qs.hasRFC6962SCT \/ strategy[idx].LogType = "LOGTYPE_RFC6962",
   hasStaticSCT  |-> qs.hasStaticSCT \/ strategy[idx].LogType = "LOGTYPE_STATIC"]

\* The static preference is soft: it never blocks the quorum.
isQuorumMet(qs, sr) ==
  /\ Len(qs.got) >= sr.SCTs
  /\ Cardinality(qs.operators) >= sr.Operators
  /\ sr.RequireAtLeastOneRFC6962SCT => qs.hasRFC6962SCT

---------------------------------------------------------------------------
(***************************************************************************)
(* helpsQuorum judges a success that has arrived, wouldHelp a log not yet  *)
(* contacted, counting the in-flight submissions it is given as successes. *)
(* Both ask the same four questions, of a different tally.                 *)
(***************************************************************************)

Contributes(tally, sr, sm) ==
  \/ tally.scts < sr.SCTs
  \/ Cardinality(tally.operators) < sr.Operators /\ sm.Operator \notin tally.operators
  \/ /\ sr.RequireAtLeastOneRFC6962SCT /\ ~tally.rfc6962
     /\ sm.LogType = "LOGTYPE_RFC6962"
  \/ /\ sr.PreferAtLeastOneStaticSCT /\ ~tally.static
     /\ sm.LogType = "LOGTYPE_STATIC"

OptimisticTally(qs, strategy, indices) ==
  [scts      |-> Len(qs.got) + Cardinality(indices),
   operators |-> qs.operators \cup {strategy[i].Operator : i \in indices},
   rfc6962   |-> qs.hasRFC6962SCT \/ \E i \in indices : strategy[i].LogType = "LOGTYPE_RFC6962",
   static    |-> qs.hasStaticSCT \/ \E i \in indices : strategy[i].LogType = "LOGTYPE_STATIC"]

\* Mutant: a success beyond sr.SCTs is never kept.
helpsByCount(qs, sr, sm) == Len(qs.got) < sr.SCTs

helpsQuorum(qs, sr, sm) ==
  Contributes([scts |-> Len(qs.got), operators |-> qs.operators,
               rfc6962 |-> qs.hasRFC6962SCT, static |-> qs.hasStaticSCT], sr, sm)

\* Mutant: a log is worth contacting only while SCTs are missing.
wouldHelpByCount(qs, sr, sm, strategy, inFlightIndices) ==
  Len(qs.got) + Cardinality(inFlightIndices) < sr.SCTs

wouldHelp(qs, sr, sm, strategy, inFlightIndices) ==
  Contributes(OptimisticTally(qs, strategy, inFlightIndices), sr, sm)

---------------------------------------------------------------------------
(***************************************************************************)
(* trimToQuorum.  selected is a set of positions of qs.got, the boolean    *)
(* slice of the code; its count is its cardinality.                        *)
(***************************************************************************)

OperatorsAt(qs, strategy, positions) == {strategy[qs.got[k]].Operator : k \in positions}

OfType(qs, strategy, positions, type) ==
  {k \in positions : strategy[qs.got[k]].LogType = type}

\* One entry per operator, earliest first, until sr.SCTs are selected.
DiverseSelection(qs, sr, strategy) ==
  LET firsts == {k \in DOMAIN qs.got :
                   strategy[qs.got[k]].Operator \notin OperatorsAt(qs, strategy, 1..(k - 1))}
  IN  {k \in firsts : Cardinality({j \in firsts : j < k}) < sr.SCTs}

\* Mutant: the operator requirement is not looked at.
canDropAnything(dropped, qs, selected, strategy, sr) == TRUE

canDropSafely(dropped, qs, selected, strategy, sr) ==
  LET rest == OperatorsAt(qs, strategy, selected \ {dropped})
  IN  \/ strategy[qs.got[dropped]].Operator \in rest
      \/ Cardinality(rest) >= sr.Operators

\* The earliest unselected entry of a type joins the selection, if there is one.
WithFirst(qs, strategy, selected, type) ==
  selected \cup Least(OfType(qs, strategy, (DOMAIN qs.got) \ selected, type))

\* The latest droppable entry leaves a selection that is too large.
WithoutLast(selected, droppable, sr) ==
  IF Cardinality(selected) > sr.SCTs THEN selected \ Greatest(droppable) ELSE selected

SwapInRFC6962(qs, sr, strategy, selected) ==
  LET rfc6962  == OfType(qs, strategy, selected, "LOGTYPE_RFC6962")
      enlarged == WithFirst(qs, strategy, selected, "LOGTYPE_RFC6962")
  IN  IF sr.RequireAtLeastOneRFC6962SCT /\ rfc6962 = {}
      THEN WithoutLast(enlarged,
             {k \in enlarged \ OfType(qs, strategy, enlarged, "LOGTYPE_RFC6962") :
                canDropSafely(k, qs, enlarged, strategy, sr)},
             sr)
      ELSE selected

\* Mutant: a static SCT is only added where there is still room for it.
SwapInStaticIfRoom(qs, sr, strategy, selected) ==
  IF sr.PreferAtLeastOneStaticSCT /\ Cardinality(selected) < sr.SCTs
  THEN WithFirst(qs, strategy, selected, "LOGTYPE_STATIC")
  ELSE selected

\* A required RFC6962 SCT that is the only one is never dropped.
SwapInStatic(qs, sr, strategy, selected) ==
  LET static   == OfType(qs, strategy, selected, "LOGTYPE_STATIC")
      enlarged == WithFirst(qs, strategy, selected, "LOGTYPE_STATIC")
      rfc6962  == OfType(qs, strategy, enlarged, "LOGTYPE_RFC6962")
  IN  IF sr.PreferAtLeastOneStaticSCT /\ static = {}
      THEN WithoutLast(enlarged,
             {k \in enlarged \ OfType(qs, strategy, enlarged, "LOGTYPE_STATIC") :
                /\ ~(sr.RequireAtLeastOneRFC6962SCT /\ rfc6962 = {k})
                /\ canDropSafely(k, qs, enlarged, strategy, sr)},
             sr)
      ELSE selected

\* Mutant: one entry too many is filled in.
FillOneMore(qs, sr, selected) ==
  LET free == (DOMAIN qs.got) \ selected
  IN  selected \cup
        {k \in free : Cardinality(selected) + Cardinality({j \in free : j < k}) <= sr.SCTs}

FillRemaining(qs, sr, selected) ==
  LET free == (DOMAIN qs.got) \ selected
  IN  selected \cup
        {k \in free : Cardinality(selected) + Cardinality({j \in free : j < k}) < sr.SCTs}

TrimmedPositions(qs, sr, strategy) ==
  IF Len(qs.got) <= sr.SCTs
  THEN DOMAIN qs.got
  ELSE FillRemaining(qs, sr,
         SwapInStatic(qs, sr, strategy,
           SwapInRFC6962(qs, sr, strategy, DiverseSelection(qs, sr, strategy))))

\* The logs whose SCTs survive.  The order the code keeps them in is abstracted.
trimToQuorum(qs, sr, strategy) ==
  {qs.got[k] : k \in TrimmedPositions(qs, sr, strategy)}

---------------------------------------------------------------------------
(***************************************************************************)
(* What a quorum is, stated on the set of logs alone: the requirement the  *)
(* bookkeeping above has to live up to.                                    *)
(***************************************************************************)

Compliant(sr, strategy, logs) ==
  /\ Cardinality(logs) >= sr.SCTs
  /\ Cardinality({strategy[i].Operator : i \in logs}) >= sr.Operators
  /\ sr.RequireAtLeastOneRFC6962SCT =>
       \E i \in logs : strategy[i].LogType = "LOGTYPE_RFC6962"
============================================================================
