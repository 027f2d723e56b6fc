------------------------- MODULE QuorumGrowthProofs ------------------------
(***************************************************************************)
(* What holds of QuorumGrowth for any operators, any requests and any      *)
(* number of answers: the types, that no answer that is needed is thrown   *)
(* away, and that the trim keeps the quorum, its size and the preference.  *)
(***************************************************************************)
EXTENDS QuorumGrowth, QuorumProofs

(***************************************************************************)
(* The inductive invariant: the bookkeeping is true, and what was thrown   *)
(* away does not matter.                                                   *)
(***************************************************************************)
IInv ==
  /\ TypeOK
  /\ Bookkeeping(qs, strategy)
  /\ Weighed(qs, sr, strategy, Answered)

\* A longer strategy changes nothing for the answers there were.
LEMMA LongerStrategy ==
  ASSUME NEW r, NEW q, NEW short, NEW long, DOMAIN short \subseteq DOMAIN long,
         \A i \in DOMAIN short : long[i] = short[i],
         Bookkeeping(q, short), Weighed(q, r, short, DOMAIN short)
  PROVE  Bookkeeping(q, long) /\ Weighed(q, r, long, DOMAIN short)
<1>1. q.got \in Seq(DOMAIN short)
  BY DEF Bookkeeping
<1>2. \A k \in DOMAIN q.got : q.got[k] \in DOMAIN short
  BY <1>1
<1>3. q.got \in Seq(DOMAIN long)
  <2>1. Len(q.got) \in Nat /\ q.got \in [1..Len(q.got) -> DOMAIN long]
    BY <1>1, <1>2
  <2> QED
    BY <2>1
<1>4. /\ OperatorsAt(q, long, DOMAIN q.got) = OperatorsAt(q, short, DOMAIN q.got)
      /\ \A type : OfType(q, long, DOMAIN q.got, type) = OfType(q, short, DOMAIN q.got, type)
  BY <1>2 DEF OperatorsAt, OfType
<1>5. Bookkeeping(q, long)
  BY <1>3, <1>4 DEF Bookkeeping
<1>6. {long[i].Operator : i \in DOMAIN short} = {short[i].Operator : i \in DOMAIN short}
  OBVIOUS
<1>7. Weighed(q, r, long, DOMAIN short)
  BY <1>6 DEF Weighed
<1> QED
  BY <1>5, <1>7

\* The initial state: nothing answered, nothing kept.
LEMMA InvInit == Init => IInv
<1> SUFFICES ASSUME Init PROVE IInv
  OBVIOUS
<1>1. sr \in Requests /\ strategy = <<>> /\ qs = newQuorumState
  BY DEF Init
<1>2. qs.got = <<>> /\ qs.operators = {} /\ qs.hasRFC6962SCT = FALSE /\ qs.hasStaticSCT = FALSE
  BY <1>1 DEF newQuorumState
<1>3. DOMAIN qs.got = {} /\ DOMAIN strategy = {}
  BY <1>1, <1>2
<1>4. qs.got \in Seq(DOMAIN strategy) /\ strategy \in Seq(StrategyMember(OperatorNames))
  BY <1>1, <1>2
<1>5. TypeOK
  BY <1>1, <1>2, <1>4 DEF TypeOK
<1>6. Bookkeeping(qs, strategy)
  BY <1>2, <1>3, <1>4 DEF Bookkeeping, OperatorsAt, OfType
<1>7. Weighed(qs, sr, strategy, Answered)
  BY <1>2, <1>3 DEF Weighed, Answered, GotLogs
<1> QED
  BY <1>5, <1>6, <1>7 DEF IInv

\* An answer is appended to the strategy, and added to the books if it helps.
LEMMA AnswerStep ==
  ASSUME IInv, NEW sm \in StrategyMember(OperatorNames), Answer(sm)
  PROVE  IInv'
<1> DEFINE idx == Len(strategy')
<1>1. /\ strategy \in Seq(StrategyMember(OperatorNames)) /\ sr \in Requests
      /\ sr' = sr /\ strategy' = Append(strategy, sm)
      /\ qs' = IF helpsQuorum(qs, sr, sm) THEN addSuccess(qs, strategy', idx) ELSE qs
  BY DEF IInv, TypeOK, Answer
<1>2. /\ strategy' \in Seq(StrategyMember(OperatorNames))
      /\ DOMAIN strategy = 1..Len(strategy) /\ Len(strategy) \in Nat
      /\ DOMAIN strategy' = 1..(Len(strategy) + 1) /\ idx = Len(strategy) + 1
      /\ \A i \in 1..Len(strategy) : strategy'[i] = strategy[i]
      /\ strategy'[idx] = sm
  BY <1>1
<1>3. /\ DOMAIN strategy \subseteq DOMAIN strategy'
      /\ DOMAIN strategy' = DOMAIN strategy \cup {idx}
      /\ idx \in DOMAIN strategy' /\ idx \notin DOMAIN strategy
  BY <1>2
<1>4. Bookkeeping(qs, strategy') /\ Weighed(qs, sr, strategy', DOMAIN strategy)
  BY <1>2, <1>3, LongerStrategy DEF IInv, Answered
<1>5. sr \in SubmissionRequest
  BY <1>1, GrowthAssumption
<1>6. Weighed(qs', sr, strategy', DOMAIN strategy')
  <2>1. qs' = IF helpsQuorum(qs, sr, strategy'[idx])
              THEN addSuccess(qs, strategy', idx) ELSE qs
    BY <1>1, <1>2
  <2> HIDE DEF idx
  <2>2. Weighed(qs', sr, strategy', DOMAIN strategy \cup {idx})
    BY <1>3, <1>4, <1>5, <2>1, WeighAnswer
  <2> QED
    BY <1>3, <2>2
<1>7. idx \notin GotLogs(qs)
  BY <1>3, <1>4 DEF Weighed
<1>8. Bookkeeping(qs', strategy')
  BY <1>1, <1>3, <1>4, <1>7, AddKeepsBooks
<1>9. TypeOK'
  <2>1. qs'.got \in Seq(DOMAIN strategy')
    BY <1>8 DEF Bookkeeping
  <2>2. sm.Operator \in OperatorNames /\ strategy'[idx] = sm
    BY <1>2 DEF StrategyMember
  <2>3. /\ qs'.operators \subseteq OperatorNames
        /\ qs'.hasRFC6962SCT \in BOOLEAN /\ qs'.hasStaticSCT \in BOOLEAN
    <3>1. /\ qs.operators \subseteq OperatorNames
          /\ qs.hasRFC6962SCT \in BOOLEAN /\ qs.hasStaticSCT \in BOOLEAN
      BY DEF IInv, TypeOK
    <3>2. CASE helpsQuorum(qs, sr, sm)
      BY <1>1, <2>2, <3>1, <3>2 DEF addSuccess
    <3>3. CASE ~helpsQuorum(qs, sr, sm)
      BY <1>1, <3>1, <3>3
    <3> QED
      BY <3>2, <3>3
  <2> QED
    BY <1>1, <1>2, <2>1, <2>3 DEF TypeOK
<1> QED
  BY <1>1, <1>6, <1>8, <1>9 DEF IInv, Answered

LEMMA InvStep == IInv /\ [Next]_vars => IInv'
<1> SUFFICES ASSUME IInv, [Next]_vars PROVE IInv'
  OBVIOUS
<1>1. CASE Next
  BY <1>1, AnswerStep DEF Next
<1>2. CASE UNCHANGED vars
  BY <1>2 DEF vars, IInv, TypeOK, Bookkeeping, Weighed, GotLogs, OperatorsAt, OfType, Answered
<1> QED
  BY <1>1, <1>2

\* Once the quorum is met, the trim has what it needs.
LEMMA QuorumIsTrimmable ==
  ASSUME IInv, isQuorumMet(qs, sr)
  PROVE  Trimmable(qs, sr, strategy)
<1>1. sr \in SubmissionRequest /\ sr.Operators <= sr.SCTs
  BY GrowthAssumption DEF IInv, TypeOK
<1>2. \A i \in DOMAIN strategy : strategy[i].LogType \in LogTypes
  <2>1. strategy \in Seq(StrategyMember(OperatorNames))
    BY DEF IInv, TypeOK
  <2>2. \A i \in DOMAIN strategy : strategy[i] \in StrategyMember(OperatorNames)
    BY <2>1
  <2> QED
    BY <2>2 DEF StrategyMember
<1> QED
  BY <1>1, <1>2 DEF Trimmable, IInv

---------------------------------------------------------------------------
(***************************************************************************)
(* The theorems.                                                           *)
(***************************************************************************)

\* The variables keep their types, and the books are true to the responses that are kept:
\* these are of different logs, the operators are exactly theirs, and each of the two flags
\* says whether there is one of its type (quorum.go:43-57).
THEOREM BooksAreTrue == Spec => [](TypeOK /\ Bookkeeping(qs, strategy))
<1>1. IInv => TypeOK /\ Bookkeeping(qs, strategy)
  BY DEF IInv
<1> QED
  BY <1>1, InvInit, InvStep, PTL DEF Spec

\* The SCTs that survive the trim are a quorum.
THEOREM TrimmedIsCompliant == Spec => []TrimKeepsQuorum
<1>1. IInv => TrimKeepsQuorum
  BY QuorumIsTrimmable, TrimIsSound DEF TrimKeepsQuorum, Reply
<1> QED
  BY <1>1, InvInit, InvStep, PTL DEF Spec

\* There are as many as the request asks for, when it asks for two or more.
THEOREM TrimmedIsExact == Spec => []TrimIsExact
<1>1. IInv => TrimIsExact
  BY QuorumIsTrimmable, TrimIsSound DEF TrimIsExact, Reply
<1> QED
  BY <1>1, InvInit, InvStep, PTL DEF Spec

\* A preferred static SCT is among them if any choice of the kept ones has it.
THEOREM TrimmedPrefersStatic == Spec => []TrimPrefersStatic
<1>1. IInv => TrimPrefersStatic
  <2> SUFFICES ASSUME IInv, isQuorumMet(qs, sr), sr.PreferAtLeastOneStaticSCT,
                      NEW choice \in kSubset(sr.SCTs, {qs.got[k] : k \in DOMAIN qs.got}),
                      \E i \in choice : strategy[i].LogType = "LOGTYPE_STATIC"
               PROVE  \E i \in Reply : strategy[i].LogType = "LOGTYPE_STATIC"
    BY DEF TrimPrefersStatic
  <2>1. choice \subseteq {qs.got[k] : k \in DOMAIN qs.got}
    BY DEF kSubset
  <2>2. OfType(qs, strategy, DOMAIN qs.got, "LOGTYPE_STATIC") # {}
    BY <2>1 DEF OfType
  <2>3. qs.hasStaticSCT
    BY <2>2 DEF IInv, Bookkeeping
  <2> QED
    BY <2>3, QuorumIsTrimmable, TrimIsSound DEF Reply
<1> QED
  BY <1>1, InvInit, InvStep, PTL DEF Spec

\* The kept successes are a quorum as soon as all the answers are.
THEOREM DiscardedIsNotNeeded == Spec => []NothingNeededIsDiscarded
<1>1. IInv => NothingNeededIsDiscarded
  <2> SUFFICES ASSUME IInv, Compliant(sr, strategy, Answered) PROVE isQuorumMet(qs, sr)
    BY DEF NothingNeededIsDiscarded
  <2>1. sr \in SubmissionRequest
    BY GrowthAssumption DEF IInv, TypeOK
  <2> QED
    BY <2>1, NothingMissed DEF IInv
<1> QED
  BY <1>1, InvInit, InvStep, PTL DEF Spec
============================================================================
