---------------------------- MODULE QuorumGrowth ---------------------------
(***************************************************************************)
(* The life of one quorumState: logs answer one after another, in any      *)
(* number and of any operator and type, the coordinator of                 *)
(* submitter/orchestrate.go keeps the answers that help and, once the      *)
(* quorum is met, trims them.  The n-th log to answer is strategy[n], so   *)
(* every order of arrival of every strategy is covered.                    *)
(***************************************************************************)
EXTENDS QuorumState, FiniteSetsExt

CONSTANTS OperatorNames, \* the log operators
          Requests,      \* the submission requests considered
          MaxAnswers     \* bound: the answers that may arrive

ASSUME GrowthAssumption ==
  /\ Requests \subseteq SubmissionRequest
  /\ \A sr \in Requests : sr.Operators <= sr.SCTs
  /\ MaxAnswers \in Nat

VARIABLES sr, strategy, qs

vars == <<sr, strategy, qs>>

TypeOK ==
  /\ sr \in Requests
  /\ strategy \in Seq(StrategyMember(OperatorNames))
  /\ qs.got \in Seq(DOMAIN strategy)
  /\ qs.operators \subseteq OperatorNames
  /\ qs.hasRFC6962SCT \in BOOLEAN /\ qs.hasStaticSCT \in BOOLEAN

Init ==
  /\ sr \in Requests
  /\ strategy = <<>>
  /\ qs = newQuorumState

\* One iteration of the event loop that receives an eventSuccess.
Answer(sm) ==
  /\ Len(strategy) < MaxAnswers
  /\ ~isQuorumMet(qs, sr)
  /\ strategy' = Append(strategy, sm)
  /\ qs' = IF helpsQuorum(qs, sr, sm)
           THEN addSuccess(qs, strategy', Len(strategy'))
           ELSE qs
  /\ UNCHANGED sr

Next == \E sm \in StrategyMember(OperatorNames) : sm.Bucket # "EXCLUDED" /\ Answer(sm)

Spec == Init /\ [][Next]_vars

---------------------------------------------------------------------------
Reply == trimToQuorum(qs, sr, strategy)

Answered == DOMAIN strategy

\* The SCTs that survive the trim are still a quorum: neither swap may drop the
\* entry that alone satisfies another requirement (quorum.go:92-222).
TrimKeepsQuorum == isQuorumMet(qs, sr) => Compliant(sr, strategy, Reply)

\* The trim leaves exactly sr.SCTs entries, when two or more are asked for
\* (quorum.go:89, "reduces the collected SCTs to exactly sr.SCTs").
TrimIsExact ==
  isQuorumMet(qs, sr) /\ sr.SCTs >= 2 => Cardinality(Reply) = sr.SCTs

\* The preference for a static SCT is honoured whenever any choice of sr.SCTs of
\* the kept successes would honour it and be a quorum (quorum.go:148-193).
TrimPrefersStatic ==
  isQuorumMet(qs, sr) /\ sr.PreferAtLeastOneStaticSCT =>
    \/ \E i \in Reply : strategy[i].LogType = "LOGTYPE_STATIC"
    \/ ~ \E choice \in kSubset(sr.SCTs, {qs.got[k] : k \in DOMAIN qs.got}) :
           /\ Compliant(sr, strategy, choice)
           /\ \E i \in choice : strategy[i].LogType = "LOGTYPE_STATIC"

\* An answer thrown away as "doesn't help quorum" is never missed: the kept
\* successes meet the quorum as soon as all the answers together would
\* (orchestrate.go:199-204).
NothingNeededIsDiscarded ==
  Compliant(sr, strategy, Answered) => isQuorumMet(qs, sr)
============================================================================
