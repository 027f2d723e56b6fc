---------------------------- MODULE SubmitProofs ---------------------------
(***************************************************************************)
(* What holds of Submit for any number of logs, any strategies and any     *)
(* requests.                                                               *)
(*   IInv     types, the channel, the in-flight accounting: the counter    *)
(*            never disagrees with the goroutines and the channel, submit  *)
(*            leaves no goroutine behind, no log is contacted twice or     *)
(*            once the quorum is met                                       *)
(*   Pace     a log is slow once, and the submissions in flight that are   *)
(*            not slow never outnumber the SCTs asked for                  *)
(*   Answers  the bookkeeping of the quorum, the marks of the logs and the *)
(*            reply: what is granted is a quorum, the marks tell of it,    *)
(*            and no quorum is missed                                      *)
(* Pace and Answers are inductive relative to IInv.  Submit implements     *)
(* SubmissionService on these grounds.                                     *)
(***************************************************************************)
EXTENDS Submit, QuorumProofs, SequenceTheorems

(***************************************************************************)
(* The inductive invariant.                                                *)
(***************************************************************************)

\* The final event of a goroutine is its last one in the channel.
NothingAfterFinal ==
  \A j, k \in DOMAIN events :
    j < k /\ events[j].eventType \in FinalEvents
      => events[k].strategyIdx # events[j].strategyIdx

\* A goroutine that has sent its final event is gone.
FinalMeansGone ==
  \A k \in DOMAIN events :
    events[k].eventType \in FinalEvents => goroutine[events[k].strategyIdx].at = "gone"

\* An event in the channel is from a log whose final event is still to come.
EventsOfUnreported ==
  \A k \in DOMAIN events : events[k].strategyIdx \in Unreported

\* attempted tells which goroutines were started.
AttemptedMeansStarted ==
  \A i \in Logs : i \in attempted <=> goroutine[i].at # "none"

Channel ==
  NothingAfterFinal /\ FinalMeansGone /\ EventsOfUnreported /\ AttemptedMeansStarted

\* A goroutine that has a timer event to send, or was through with one, has noted it.
TimersNoted ==
  \A i \in Logs :
    /\ goroutine[i].at = "sendTryNext" => "eventTryNext" \in goroutine[i].sent
    /\ goroutine[i].at = "sendSlow" => "eventSlow" \in goroutine[i].sent
    /\ goroutine[i].at = "none" => goroutine[i].sent = {}

\* Before the first launch nothing is attempted, and submit() returns idle.
IdleAtTheEnds ==
  /\ phase = "start" => attempted = {} /\ slowInFlightIndices = {} /\ qs = newQuorumState
  /\ phase = "returned" => inFlight = 0

\* The check after the loop finds no quorum.
LoopHasNoQuorum ==
  phase = "loop" => ~isQuorumMet(qs, sr)

IInv ==
  /\ TypeOK
  /\ Channel
  /\ TimersNoted
  /\ IdleAtTheEnds
  /\ LoopHasNoQuorum
  /\ InFlightAccounting

---------------------------------------------------------------------------
(***************************************************************************)
(* Finite sets of logs, and the operators the actions are made of.         *)
(***************************************************************************)

\* Sets of logs are finite, so that their cardinalities are numbers.
LEMMA LogsFinite ==
  ASSUME NEW S \in SUBSET Logs
  PROVE  IsFiniteSet(S) /\ Cardinality(S) \in Nat
<1>1. IsFiniteSet(Logs)
  BY FS_Interval, SubmitAssumption DEF Logs
<1> QED
  BY <1>1, FS_Subset, FS_CardinalityType

\* startNextEligible picks an eligible log that was not contacted yet.
LEMMA NextEligibleIsNew ==
  ASSUME NEW newQs, NEW normal
  PROVE  NextEligible(newQs, normal) \subseteq eligible \ attempted
BY DEF NextEligible, Unattempted, Least, OfLogType

\* The initial batch is made of eligible logs.
LEMMA InitialBatchIsEligible ==
  InitialBatch \subseteq eligible
BY DEF InitialBatch, Least, OfLogType

\* Whatever trimToQuorum selects was among the responses.
LEMMA TrimSelects ==
  ASSUME TypeOK
  PROVE  Trimmed \subseteq {qs.got[k] : k \in DOMAIN qs.got} /\ Trimmed \subseteq Logs
<1> DEFINE P  == DOMAIN qs.got
           S1 == DiverseSelection(qs, sr, strategy)
           S2 == SwapInRFC6962(qs, sr, strategy, S1)
           S3 == SwapInStatic(qs, sr, strategy, S2)
<1>a. S1 \subseteq P
  BY DEF DiverseSelection
<1>b. ASSUME NEW T \in SUBSET P, NEW type
      PROVE  WithFirst(qs, strategy, T, type) \subseteq P
  BY DEF WithFirst, OfType, Least
<1>c. ASSUME NEW T \in SUBSET P, NEW D
      PROVE  WithoutLast(T, D, sr) \subseteq P
  BY DEF WithoutLast
<1>d. S2 \subseteq P
  BY <1>a, <1>b, <1>c DEF SwapInRFC6962
<1>e. S3 \subseteq P
  BY <1>b, <1>c, <1>d DEF SwapInStatic
<1>f. FillRemaining(qs, sr, S3) \subseteq P
  BY <1>e DEF FillRemaining
<1>1. TrimmedPositions(qs, sr, strategy) \subseteq P
  BY <1>f DEF TrimmedPositions
<1>2. \A k \in DOMAIN qs.got : qs.got[k] \in Logs
  <2>1. qs.got \in Seq(Logs)
    BY DEF TypeOK, quorumState
  <2> QED
    BY <2>1
<1> QED
  BY <1>1, <1>2 DEF Trimmed, trimToQuorum

\* What is known of the oldest event, and of the channel without it.
LEMMA OldestEvent ==
  ASSUME TypeOK, events # <<>>
  PROVE  /\ Oldest \in EventRecord /\ Oldest = events[1] /\ 1 \in DOMAIN events
         /\ Tail(events) \in Seq(EventRecord)
         /\ DOMAIN Tail(events) = 1..(Len(events) - 1)
         /\ \A k \in 1..(Len(events) - 1) : Tail(events)[k] = events[k + 1]
         /\ DOMAIN events = 1..Len(events) /\ Len(events) \in Nat \ {0}
<1>1. events \in Seq(EventRecord)
  BY DEF TypeOK
<1> QED
  BY <1>1 DEF Oldest

---------------------------------------------------------------------------
(***************************************************************************)
(* Types.                                                                  *)
(***************************************************************************)

\* A launch leaves the coordinator's counters and sets well typed.
LEMMA LaunchTypes ==
  ASSUME TypeOK, NEW S \in SUBSET Logs, NEW remaining \in Nat, NEW normal \in SUBSET Logs,
         Launch(S, remaining, normal)
  PROVE  /\ inFlight' \in Nat /\ inFlightIndices' \subseteq Logs /\ attempted' \subseteq Logs
         /\ goroutine' \in [Logs -> GoroutineState]
<1>1. Started \in GoroutineState
  BY DEF Started, GoroutineState
<1>2. goroutine' \in [Logs -> GoroutineState]
  BY <1>1 DEF Launch, TypeOK
<1>3. Cardinality(S) \in Nat
  BY LogsFinite
<1>4. inFlight' \in Nat
  BY <1>3 DEF Launch
<1>5. inFlightIndices' \subseteq Logs
  BY DEF Launch
<1>6. attempted \subseteq Logs
  BY DEF TypeOK
<1>7. attempted' \subseteq Logs
  BY <1>6 DEF Launch
<1> QED
  BY <1>2, <1>4, <1>5, <1>7

\* Taking an event off the channel leaves it well typed, and the counter is not 0.
LEMMA ReceiveTypes ==
  ASSUME TypeOK, NEW types, Receive(types)
  PROVE  /\ events # <<>> /\ inFlight - 1 \in Nat
         /\ Oldest.strategyIdx \in Logs /\ Oldest.outcome \in Annotations
         /\ events' = Tail(events) /\ events' \in Seq(EventRecord)
<1>1. inFlight \in Nat
  BY DEF TypeOK
<1>2. events # <<>> /\ inFlight > 0 /\ events' = Tail(events)
  BY DEF Receive
<1>3. Oldest \in EventRecord /\ Tail(events) \in Seq(EventRecord)
  BY <1>2, OldestEvent
<1>4. inFlight - 1 \in Nat
  BY <1>1, <1>2
<1>5. Oldest.strategyIdx \in Logs /\ Oldest.outcome \in Annotations
  BY <1>3 DEF EventRecord, Annotations
<1> QED
  BY <1>2, <1>3, <1>4, <1>5

\* A step of a goroutine leaves it in one of its states.
LEMMA StepToTypes ==
  ASSUME TypeOK, NEW i \in Logs,
         NEW at \in {"none", "select", "gone"} \cup Sends, StepTo(i, at)
  PROVE  goroutine' \in [Logs -> GoroutineState]
<1>1. goroutine[i] \in GoroutineState
  BY DEF TypeOK
<1>2. [goroutine[i] EXCEPT !.at = at] \in GoroutineState
  BY <1>1 DEF GoroutineState
<1> QED
  BY <1>2 DEF StepTo, TypeOK

\* Every step keeps every variable in its type.
LEMMA TypeStep == TypeOK /\ [Next]_vars => TypeOK'
<1> SUFFICES ASSUME TypeOK, [Next]_vars PROVE TypeOK'
  OBVIOUS
<1>e. eligible \subseteq Logs
  BY DEF eligible
<1>1. CASE StartFails
  <2>1. reply' \in Reply
    BY <1>1 DEF StartFails, Reply
  <2> QED
    BY <1>1, <2>1 DEF StartFails, TypeOK
<1>2. CASE Start
  <2>1. Launch(InitialBatch, 0, {})
    BY <1>2 DEF Start
  <2>2. InitialBatch \in SUBSET Logs
    BY <1>e, InitialBatchIsEligible
  <2> QED
    BY <1>2, <2>1, <2>2, LaunchTypes DEF Start, TypeOK
<1>3. CASE ReceiveSuccess
  <2> DEFINE idx    == Oldest.strategyIdx
             newQs  == IF helpsQuorum(qs, sr, strategy[idx])
                       THEN addSuccess(qs, strategy, idx) ELSE qs
             mark   == [outcome EXCEPT ![idx] = IF helpsQuorum(qs, sr, strategy[idx])
                                               THEN Oldest.outcome ELSE "doesn't help quorum"]
             normal == inFlightIndices \ {idx}
             slow   == slowInFlightIndices \ {idx}
  <2>1. Receive({"eventSuccess"})
    BY <1>3 DEF ReceiveSuccess
  <2>2. /\ inFlight - 1 \in Nat
        /\ idx \in Logs /\ Oldest.outcome \in Annotations /\ events' \in Seq(EventRecord)
    BY <2>1, ReceiveTypes
  <2>3. strategy[idx] \in StrategyMember(OperatorNames)
    BY <2>2, SubmitAssumption DEF TypeOK, Logs
  <2>4. qs' = newQs /\ newQs \in quorumState
    <3>1. qs \in quorumState /\ strategy[idx].Operator \in OperatorNames
      BY <2>3 DEF TypeOK, StrategyMember
    <3>2. Append(qs.got, idx) \in Seq(Logs)
      BY <2>2, <3>1 DEF quorumState
    <3>3. addSuccess(qs, strategy, idx) \in quorumState
      BY <3>1, <3>2 DEF addSuccess, quorumState
    <3> QED
      BY <1>3, <3>1, <3>3 DEF ReceiveSuccess
  <2>5. mark \in [Logs -> Annotations]
    BY <2>2 DEF TypeOK, Annotations
  <2>6. outcome' \in [Logs -> Annotations]
    BY <1>3, <2>5 DEF ReceiveSuccess, MarkCancelled, Annotations
  <2>7. \E S \in SUBSET Logs : Launch(S, inFlight - 1, normal)
    BY <1>3, <1>e, NextEligibleIsNew DEF ReceiveSuccess
  <2>8. normal \in SUBSET Logs /\ slowInFlightIndices' \subseteq Logs
    BY <1>3 DEF ReceiveSuccess, TypeOK
  <2>9. /\ inFlight' \in Nat /\ inFlightIndices' \subseteq Logs /\ attempted' \subseteq Logs
        /\ goroutine' \in [Logs -> GoroutineState]
    BY <2>2, <2>7, <2>8, LaunchTypes
  <2>10. phase' \in {"loop", "drain quorum"} /\ cause' \in {"none", "quorum met", "request"}
    BY <1>3 DEF ReceiveSuccess, TypeOK
  <2> QED
    BY <1>3, <2>2, <2>4, <2>6, <2>8, <2>9, <2>10 DEF ReceiveSuccess, TypeOK
<1>4. CASE ReceiveFailure
  <2>1. Receive({"eventFailure"})
    BY <1>4 DEF ReceiveFailure
  <2>2. /\ inFlight - 1 \in Nat
        /\ Oldest.strategyIdx \in Logs /\ Oldest.outcome \in Annotations
        /\ events' \in Seq(EventRecord)
    BY <2>1, ReceiveTypes
  <2>3. \E S \in SUBSET Logs : Launch(S, inFlight - 1, inFlightIndices \ {Oldest.strategyIdx})
    BY <1>4, <1>e, NextEligibleIsNew DEF ReceiveFailure
  <2>4. inFlightIndices \ {Oldest.strategyIdx} \in SUBSET Logs
    BY DEF TypeOK
  <2>5. /\ inFlight' \in Nat /\ inFlightIndices' \subseteq Logs /\ attempted' \subseteq Logs
        /\ goroutine' \in [Logs -> GoroutineState]
    BY <2>2, <2>3, <2>4, LaunchTypes
  <2> QED
    BY <1>4, <2>2, <2>5 DEF ReceiveFailure, TypeOK
<1>5. CASE ReceiveTryNext
  <2>1. Receive({"eventTryNext"})
    BY <1>5 DEF ReceiveTryNext
  <2>2. Oldest.strategyIdx \in Logs /\ events' \in Seq(EventRecord)
    BY <2>1, ReceiveTypes
  <2>3. \E S \in SUBSET Logs : Launch(S, inFlight, inFlightIndices \ {Oldest.strategyIdx})
    BY <1>5, <1>e, NextEligibleIsNew DEF ReceiveTryNext
  <2>4. inFlightIndices \ {Oldest.strategyIdx} \in SUBSET Logs /\ inFlight \in Nat
    BY DEF TypeOK
  <2>5. /\ inFlight' \in Nat /\ inFlightIndices' \subseteq Logs /\ attempted' \subseteq Logs
        /\ goroutine' \in [Logs -> GoroutineState]
    BY <2>3, <2>4, LaunchTypes
  <2> QED
    BY <1>5, <2>2, <2>5 DEF ReceiveTryNext, TypeOK
<1>6. CASE ReceiveSlow
  <2>1. events' \in Seq(EventRecord)
    BY <1>6, ReceiveTypes DEF ReceiveSlow
  <2> QED
    BY <1>6, <2>1 DEF ReceiveSlow, TypeOK, coordinatorVars
<1>7. CASE NoticeContext
  BY <1>7 DEF NoticeContext, TypeOK
<1>8. CASE DrainAfterQuorum
  <2>1. Receive(TimerEvents \cup FinalEvents) /\ inFlight' \in {inFlight, inFlight - 1}
    BY <1>8 DEF DrainAfterQuorum, DrainEvent
  <2>2. inFlight' \in Nat /\ events' \in Seq(EventRecord)
    BY <2>1, ReceiveTypes DEF TypeOK
  <2> QED
    BY <1>8, <2>2 DEF DrainAfterQuorum, TypeOK
<1>9. CASE DrainAfterContext
  <2>1. Receive(TimerEvents \cup FinalEvents) /\ inFlight' \in {inFlight, inFlight - 1}
    BY <1>9 DEF DrainAfterContext, DrainEvent
  <2>2. /\ inFlight' \in Nat /\ events' \in Seq(EventRecord)
        /\ Oldest.outcome \in Annotations
    BY <2>1, ReceiveTypes DEF TypeOK
  <2>3. outcome' \in [Logs -> Annotations]
    BY <1>9, <2>2 DEF DrainAfterContext, TypeOK
  <2> QED
    BY <1>9, <2>2, <2>3 DEF DrainAfterContext, TypeOK
<1>10. CASE ReturnQuorum
  <2>1. MarkTrimmed \in [Logs -> Annotations]
    BY DEF MarkTrimmed, TypeOK, Annotations
  <2>2. outcome' \in [Logs -> Annotations]
    BY <1>10, <2>1 DEF ReturnQuorum, Return, AnnotateUnattempted, Annotations
  <2>3. reply' \in Reply
    BY <1>10, TrimSelects DEF ReturnQuorum, Return, Reply
  <2> QED
    BY <1>10, <2>2, <2>3 DEF ReturnQuorum, Return, TypeOK
<1>11. CASE ReturnNoQuorum \/ ReturnContext
  <2>1. outcome' \in [Logs -> Annotations]
    BY <1>11 DEF ReturnNoQuorum, ReturnContext, Return, AnnotateUnattempted, Annotations, TypeOK
  <2>2. \E status \in {"refused", "aborted"} : reply' = [status |-> status, scts |-> {}]
    BY <1>11 DEF ReturnNoQuorum, ReturnContext, Return
  <2>3. reply' \in Reply
    BY <2>2 DEF Reply
  <2> QED
    BY <1>11, <2>1, <2>3 DEF ReturnNoQuorum, ReturnContext, Return, TypeOK
<1>12. ASSUME NEW i \in Logs, Goroutine(i)
       PROVE  TypeOK'
  <2>1. CASE TimerFires(i, "eventTryNext", "sendTryNext") \/ TimerFires(i, "eventSlow", "sendSlow")
    <3>1. goroutine[i] \in GoroutineState
      BY <1>12 DEF TypeOK
    <3>2. PICK type \in TimerEvents, at \in Sends : TimerFires(i, type, at)
      BY <2>1 DEF TimerEvents, Sends
    <3>3. [at |-> at, sent |-> goroutine[i].sent \cup {type}] \in GoroutineState
      BY <3>1, <3>2 DEF GoroutineState
    <3>4. goroutine' \in [Logs -> GoroutineState]
      BY <1>12, <3>2, <3>3 DEF TimerFires, TypeOK
    <3> QED
      BY <3>2, <3>4 DEF TimerFires, TypeOK, coordinatorVars
  <2>2. CASE FinishRequest(i)
    <3>1. goroutine' \in [Logs -> GoroutineState]
      BY <1>12, <2>2, StepToTypes DEF FinishRequest, Sends
    <3> QED
      BY <2>2, <3>1 DEF FinishRequest, TypeOK, coordinatorVars
  <2>3. CASE Send(i)
    <3>1. EventToSend(i) \in EventRecord
      BY <1>12, <2>3 DEF Send, Sends, EventToSend, EventRecord, TimerEvents, FinalEvents
    <3>2. events' \in Seq(EventRecord)
      <4>1. events \in Seq(EventRecord)
        BY DEF TypeOK
      <4> QED
        BY <2>3, <3>1, <4>1 DEF Send
    <3>3. goroutine' \in [Logs -> GoroutineState]
      BY <1>12, <2>3, StepToTypes DEF Send
    <3> QED
      BY <2>3, <3>2, <3>3 DEF Send, TypeOK, coordinatorVars
  <2> QED
    BY <1>12, <2>1, <2>2, <2>3 DEF Goroutine
<1>13. CASE EndContext
  BY <1>13 DEF EndContext, TypeOK, coordinatorVars
<1>14. CASE UNCHANGED vars
  BY <1>14 DEF vars, TypeOK
<1> QED
  BY <1>1, <1>2, <1>3, <1>4, <1>5, <1>6, <1>7, <1>8, <1>9, <1>10, <1>11, <1>12, <1>13, <1>14
     DEF Next, Coordinator, Terminated

\* The initial state is well typed.
LEMMA TypeCorrectInit == Init => TypeOK
<1>1. newQuorumState \in quorumState
  BY DEF newQuorumState, quorumState
<1>2. NoGoroutine \in GoroutineState
  BY DEF NoGoroutine, GoroutineState
<1>3. [status |-> "pending", scts |-> {}] \in Reply
  BY DEF Reply
<1>4. [i \in Logs |-> ""] \in [Logs -> Annotations]
  BY DEF Annotations
<1>5. <<>> \in Seq(EventRecord)
  OBVIOUS
<1>6. Init => cause \in {"none", "quorum met", "request"}
  BY DEF Init
<1>7. 0 \in Nat
  OBVIOUS
<1> QED
  BY <1>1, <1>2, <1>3, <1>4, <1>5, <1>6, <1>7 DEF Init, TypeOK

\* The variables keep their types in every execution, for every NumLogs, Strategies
\* and Requests.
THEOREM TypeCorrect == Spec => []TypeOK
BY TypeCorrectInit, TypeStep, PTL DEF Spec

---------------------------------------------------------------------------
(***************************************************************************)
(* The channel.                                                            *)
(***************************************************************************)

\* How many are in a set of logs that loses one, or none, and gains new ones.
LEMMA CardinalityChange ==
  ASSUME NEW U \in SUBSET Logs, NEW S \in SUBSET Logs, S \cap U = {}
  PROVE  /\ Cardinality(U \cup S) = Cardinality(U) + Cardinality(S)
         /\ \A x \in U : Cardinality((U \ {x}) \cup S) = Cardinality(U) - 1 + Cardinality(S)
<1>1. IsFiniteSet(U) /\ IsFiniteSet(S) /\ Cardinality(U) \in Nat /\ Cardinality(S) \in Nat
  BY LogsFinite
<1>2. Cardinality(U \cup S) = Cardinality(U) + Cardinality(S)
  <2>1. Cardinality(U \cap S) = 0
    BY FS_EmptySet, U \cap S = {}
  <2>2. Cardinality(U \cup S) = Cardinality(U) + Cardinality(S) - Cardinality(U \cap S)
    BY <1>1, FS_Union
  <2> QED
    BY <1>1, <2>1, <2>2
<1>3. ASSUME NEW x \in U
      PROVE  Cardinality((U \ {x}) \cup S) = Cardinality(U) - 1 + Cardinality(S)
  <2>1. IsFiniteSet(U \ {x}) /\ Cardinality(U \ {x}) = Cardinality(U) - 1
    BY <1>1, FS_RemoveElement
  <2>2. Cardinality((U \ {x}) \cap S) = 0
    BY FS_EmptySet, (U \ {x}) \cap S = {}
  <2> QED
    BY <1>1, <2>1, <2>2, FS_Union
<1> QED
  BY <1>2, <1>3

\* A log not contacted yet has no final event to come.
LEMMA NewLogsAreQuiet ==
  ASSUME TypeOK, Channel, NEW S \in SUBSET (Logs \ attempted)
  PROVE  S \cap Unreported = {}
<1> SUFFICES ASSUME NEW i \in S PROVE i \notin Unreported
  OBVIOUS
<1>1. goroutine[i].at = "none"
  BY DEF Channel, AttemptedMeansStarted
<1>2. ~ \E k \in DOMAIN events : events[k].strategyIdx = i /\ events[k].eventType \in FinalEvents
  BY <1>1 DEF Channel, FinalMeansGone
<1> QED
  BY <1>1, <1>2 DEF Unreported, Sends

\* Receiving an event, and starting goroutines for the logs S: exactly the final
\* events settle a log, and the channel keeps its order.
LEMMA ReceiveChannel ==
  ASSUME TypeOK, Channel, NEW types, Receive(types), NEW S \in SUBSET (Logs \ attempted),
         goroutine' = [i \in Logs |-> IF i \in S THEN Started ELSE goroutine[i]],
         attempted' = attempted \cup S
  PROVE  /\ Oldest.strategyIdx \in Unreported
         /\ Unreported' = (IF Oldest.eventType \in FinalEvents
                           THEN Unreported \ {Oldest.strategyIdx} ELSE Unreported) \cup S
         /\ Channel'
<1> DEFINE n == Len(events)
           x == Oldest.strategyIdx
           final == Oldest.eventType \in FinalEvents
           rest == IF final THEN Unreported \ {x} ELSE Unreported
<1>1. events # <<>> /\ events' = Tail(events)
  BY DEF Receive
<1>2. /\ Oldest = events[1] /\ 1 \in DOMAIN events /\ DOMAIN events = 1..n
      /\ n \in Nat \ {0}
      /\ DOMAIN events' = 1..(n - 1)
      /\ \A k \in 1..(n - 1) : events'[k] = events[k + 1]
  BY <1>1, OldestEvent
<1>3. \A k \in DOMAIN events' : k + 1 \in DOMAIN events /\ 1 < k + 1 /\ events'[k] = events[k + 1]
  BY <1>2
<1>4. x \in Unreported
  BY <1>2 DEF Channel, EventsOfUnreported
<1>5. final => /\ \A k \in DOMAIN events' : events'[k].strategyIdx # x
               /\ goroutine[x].at = "gone"
  BY <1>2, <1>3 DEF Channel, NothingAfterFinal, FinalMeansGone
<1>6. \A i \in Logs : /\ i \in S => goroutine'[i].at = "select"
                      /\ i \notin S => goroutine'[i] = goroutine[i]
  BY DEF Started
<1>7. \A k \in DOMAIN events : events[k].strategyIdx \in Unreported \ S
  BY NewLogsAreQuiet DEF Channel, EventsOfUnreported
<1>8. ASSUME NEW i \in Logs, i \notin S
      PROVE  (\E k \in DOMAIN events' : /\ events'[k].strategyIdx = i
                                        /\ events'[k].eventType \in FinalEvents)
             <=> /\ \E k \in DOMAIN events : /\ events[k].strategyIdx = i
                                              /\ events[k].eventType \in FinalEvents
                 /\ ~(final /\ i = x)
  <2>1. ASSUME NEW k \in DOMAIN events, events[k].strategyIdx = i,
               events[k].eventType \in FinalEvents, ~(final /\ i = x)
        PROVE  \E m \in DOMAIN events' : /\ events'[m].strategyIdx = i
                                         /\ events'[m].eventType \in FinalEvents
    <3>1. k # 1
      BY <1>2, <2>1
    <3>2. k - 1 \in DOMAIN events' /\ events'[k - 1] = events[k]
      BY <1>2, <3>1
    <3> QED
      BY <2>1, <3>2
  <2> QED
    BY <1>3, <1>5, <2>1
<1>9. Unreported' = rest \cup S
  <2>1. ASSUME NEW i \in Logs
        PROVE  i \in Unreported' <=> i \in rest \cup S
    <3>1. CASE i \in S
      BY <1>6, <3>1 DEF Unreported
    <3>2. CASE i \notin S
      <4>1. goroutine'[i].at = goroutine[i].at
        BY <1>6, <3>2
      <4>2. final /\ i = x => goroutine[i].at \notin {"select"} \cup Sends
        BY <1>5 DEF Sends
      <4> QED
        BY <1>8, <3>2, <4>1, <4>2 DEF Unreported
    <3> QED
      BY <3>1, <3>2
  <2>2. Unreported' \subseteq Logs /\ rest \cup S \subseteq Logs
    BY DEF Unreported
  <2> QED
    BY <2>1, <2>2
<1>10. NothingAfterFinal'
  <2> SUFFICES ASSUME NEW j \in DOMAIN events', NEW k \in DOMAIN events', j < k,
                      events'[j].eventType \in FinalEvents
               PROVE  events'[k].strategyIdx # events'[j].strategyIdx
    BY DEF NothingAfterFinal
  <2>1. j + 1 \in DOMAIN events /\ k + 1 \in DOMAIN events /\ j + 1 < k + 1
    BY <1>2
  <2> QED
    BY <1>3, <2>1 DEF Channel, NothingAfterFinal
<1>11. FinalMeansGone'
  <2> SUFFICES ASSUME NEW k \in DOMAIN events', events'[k].eventType \in FinalEvents
               PROVE  goroutine'[events'[k].strategyIdx].at = "gone"
    BY DEF FinalMeansGone
  <2>1. events[k + 1].strategyIdx \in Logs /\ events[k + 1].strategyIdx \notin S
    BY <1>3, <1>7 DEF Unreported
  <2> QED
    BY <1>3, <1>6, <2>1 DEF Channel, FinalMeansGone
<1>12. EventsOfUnreported'
  BY <1>3, <1>5, <1>7, <1>9 DEF EventsOfUnreported
<1>13. AttemptedMeansStarted'
  BY <1>6 DEF Channel, AttemptedMeansStarted
<1> QED
  BY <1>4, <1>9, <1>10, <1>11, <1>12, <1>13 DEF Channel

\* Sending an event changes nothing in what is still to be reported.
LEMMA SendChannel ==
  ASSUME TypeOK, Channel, NEW i \in Logs, Send(i)
  PROVE  Unreported' = Unreported /\ Channel'
<1> DEFINE n == Len(events)
           e == EventToSend(i)
           final == e.eventType \in FinalEvents
<1>1. events \in Seq(EventRecord)
  BY DEF TypeOK
<1>2. events' = Append(events, e)
  BY DEF Send
<1>3. /\ n \in Nat /\ DOMAIN events = 1..n /\ DOMAIN events' = 1..(n + 1)
      /\ events'[n + 1] = e
      /\ \A k \in 1..n : events'[k] = events[k]
  BY <1>1, <1>2
<1>4. goroutine[i].at \in Sends /\ attempted' = attempted
  BY DEF Send, coordinatorVars
<1>5. e.strategyIdx = i
  BY <1>4 DEF EventToSend, Sends
<1>6. /\ goroutine'[i].at = IF final THEN "gone" ELSE "select"
      /\ \A j \in Logs \ {i} : goroutine'[j] = goroutine[j]
  <2>1. goroutine[i] \in GoroutineState
    BY DEF TypeOK
  <2> QED
    BY <2>1 DEF Send, StepTo, TypeOK, GoroutineState
<1>7. i \in Unreported
  BY <1>4 DEF Unreported
<1>8. \A k \in 1..n : events[k].eventType \in FinalEvents => events[k].strategyIdx # i
  BY <1>3, <1>4 DEF Channel, FinalMeansGone, Sends
<1>9. Unreported' = Unreported
  <2>1. ASSUME NEW j \in Logs
        PROVE  j \in Unreported' <=> j \in Unreported
    <3>1. CASE j = i
      <4>1. CASE final
        <5>1. n + 1 \in DOMAIN events'
          BY <1>3
        <5> QED
          BY <1>3, <1>5, <1>7, <3>1, <4>1, <5>1 DEF Unreported
      <4>2. CASE ~final
        BY <1>6, <1>7, <3>1, <4>2 DEF Unreported
      <4> QED
        BY <4>1, <4>2
    <3>2. CASE j # i
      <4>1. goroutine'[j] = goroutine[j]
        BY <1>6, <3>2
      <4>2. (\E k \in DOMAIN events' : /\ events'[k].strategyIdx = j
                                       /\ events'[k].eventType \in FinalEvents)
            <=> \E k \in DOMAIN events : /\ events[k].strategyIdx = j
                                         /\ events[k].eventType \in FinalEvents
        <5>1. \A k \in 1..(n + 1) : k \in 1..n \/ events'[k].strategyIdx = i
          BY <1>3, <1>5
        <5>2. \A k \in 1..n : k \in 1..(n + 1)
          BY <1>3
        <5> QED
          BY <1>3, <3>2, <5>1, <5>2
      <4> QED
        BY <4>1, <4>2 DEF Unreported
    <3> QED
      BY <3>1, <3>2
  <2>2. Unreported' \subseteq Logs /\ Unreported \subseteq Logs
    BY DEF Unreported
  <2> QED
    BY <2>1, <2>2
<1>10. NothingAfterFinal'
  <2> SUFFICES ASSUME NEW j \in DOMAIN events', NEW k \in DOMAIN events', j < k,
                      events'[j].eventType \in FinalEvents
               PROVE  events'[k].strategyIdx # events'[j].strategyIdx
    BY DEF NothingAfterFinal
  <2>1. j \in 1..n /\ (k \in 1..n \/ k = n + 1)
    BY <1>3
  <2> QED
    BY <1>3, <1>5, <1>8, <2>1 DEF Channel, NothingAfterFinal
<1>11. FinalMeansGone'
  <2> SUFFICES ASSUME NEW k \in DOMAIN events', events'[k].eventType \in FinalEvents
               PROVE  goroutine'[events'[k].strategyIdx].at = "gone"
    BY DEF FinalMeansGone
  <2>1. CASE k = n + 1
    BY <1>3, <1>5, <1>6, <2>1
  <2>2. CASE k # n + 1
    <3>1. k \in 1..n
      BY <1>3, <2>2
    <3>2. events[k].strategyIdx \in Logs \ {i}
      BY <1>3, <1>8, <3>1 DEF Channel, EventsOfUnreported, Unreported
    <3> QED
      BY <1>3, <1>6, <3>1, <3>2 DEF Channel, FinalMeansGone
  <2> QED
    BY <2>1, <2>2
<1>12. EventsOfUnreported'
  <2> SUFFICES ASSUME NEW k \in DOMAIN events'
               PROVE  events'[k].strategyIdx \in Unreported
    BY <1>9 DEF EventsOfUnreported
  <2>1. k \in 1..n \/ k = n + 1
    BY <1>3
  <2> QED
    BY <1>3, <1>5, <1>7, <2>1 DEF Channel, EventsOfUnreported
<1>13. AttemptedMeansStarted'
  BY <1>4, <1>6 DEF Channel, AttemptedMeansStarted, Sends
<1> QED
  BY <1>9, <1>10, <1>11, <1>12, <1>13 DEF Channel

\* Nor does any other step of a goroutine.
LEMMA StepChannel ==
  ASSUME TypeOK, Channel, NEW i \in Logs, NEW s \in GoroutineState,
         goroutine[i].at = "select", s.at \in Sends,
         goroutine' = [goroutine EXCEPT ![i] = s],
         UNCHANGED <<events, attempted>>
  PROVE  Unreported' = Unreported /\ Channel'
<1>1. /\ goroutine'[i].at \in Sends
      /\ \A j \in Logs \ {i} : goroutine'[j] = goroutine[j]
  BY DEF TypeOK
<1>2. Unreported' = Unreported
  BY <1>1 DEF Unreported
<1>3. NothingAfterFinal' /\ EventsOfUnreported'
  BY <1>2 DEF Channel, NothingAfterFinal, EventsOfUnreported
<1>4. FinalMeansGone'
  <2>1. \A k \in DOMAIN events : events[k].strategyIdx \in Logs
    BY DEF Channel, EventsOfUnreported, Unreported
  <2> QED
    BY <1>1, <2>1 DEF Channel, FinalMeansGone
<1>5. AttemptedMeansStarted'
  BY <1>1 DEF Channel, AttemptedMeansStarted, Sends
<1> QED
  BY <1>2, <1>3, <1>4, <1>5 DEF Channel

---------------------------------------------------------------------------
(***************************************************************************)
(* The in-flight accounting, action by action.                             *)
(***************************************************************************)

\* After an event was received and logs were launched, the counter is right again.
LEMMA ReceiveAccounting ==
  ASSUME TypeOK, Channel, InFlightAccounting, NEW types, Receive(types),
         NEW S \in SUBSET (Logs \ attempted), NEW remaining, NEW normal,
         Launch(S, remaining, normal),
         remaining = IF Oldest.eventType \in FinalEvents THEN inFlight - 1 ELSE inFlight
  PROVE  /\ Channel'
         /\ inFlight' = Cardinality(Unreported')
         /\ Oldest.strategyIdx \in Unreported
         /\ Unreported' = (IF Oldest.eventType \in FinalEvents
                           THEN Unreported \ {Oldest.strategyIdx} ELSE Unreported) \cup S
<1>1. /\ goroutine' = [i \in Logs |-> IF i \in S THEN Started ELSE goroutine[i]]
      /\ attempted' = attempted \cup S /\ inFlight' = remaining + Cardinality(S)
  BY DEF Launch
<1>2. /\ Channel' /\ Oldest.strategyIdx \in Unreported
      /\ Unreported' = (IF Oldest.eventType \in FinalEvents
                        THEN Unreported \ {Oldest.strategyIdx} ELSE Unreported) \cup S
  BY <1>1, ReceiveChannel
<1>3. S \cap Unreported = {} /\ Unreported \subseteq Logs
  BY NewLogsAreQuiet DEF Unreported
<1>4. inFlight = Cardinality(Unreported)
  BY DEF InFlightAccounting
<1>5. inFlight' = Cardinality(Unreported')
  BY <1>1, <1>2, <1>3, <1>4, CardinalityChange
<1> QED
  BY <1>2, <1>5

\* The same for an event that is received without launching anything.
LEMMA DrainAccounting ==
  ASSUME TypeOK, Channel, InFlightAccounting, NEW types, Receive(types),
         UNCHANGED <<goroutine, attempted>>,
         inFlight' = IF Oldest.eventType \in FinalEvents THEN inFlight - 1 ELSE inFlight
  PROVE  /\ Channel'
         /\ inFlight' = Cardinality(Unreported')
         /\ Unreported' = IF Oldest.eventType \in FinalEvents
                          THEN Unreported \ {Oldest.strategyIdx} ELSE Unreported
<1>1. /\ goroutine' = [i \in Logs |-> IF i \in {} THEN Started ELSE goroutine[i]]
      /\ attempted' = attempted \cup {} /\ {} \in SUBSET (Logs \ attempted)
  BY DEF TypeOK
<1>2. /\ Channel' /\ Oldest.strategyIdx \in Unreported
      /\ Unreported' = IF Oldest.eventType \in FinalEvents
                       THEN Unreported \ {Oldest.strategyIdx} ELSE Unreported
  <2>1. /\ Channel' /\ Oldest.strategyIdx \in Unreported
        /\ Unreported' = (IF Oldest.eventType \in FinalEvents
                          THEN Unreported \ {Oldest.strategyIdx} ELSE Unreported) \cup {}
    BY <1>1, ReceiveChannel
  <2> QED
    BY <2>1
<1>3. IsFiniteSet(Unreported) /\ inFlight = Cardinality(Unreported)
  BY LogsFinite DEF InFlightAccounting, Unreported
<1>4. inFlight' = Cardinality(Unreported')
  BY <1>2, <1>3, FS_RemoveElement
<1> QED
  BY <1>2, <1>4

\* Launching keeps the notes of the timers.
LEMMA LaunchTimers ==
  ASSUME TypeOK, TimersNoted, NEW S, NEW remaining, NEW normal, Launch(S, remaining, normal)
  PROVE  TimersNoted'
BY DEF Launch, TimersNoted, Started

\* A request asks for an SCT at least, so that an empty quorumState is no quorum.
LEMMA NewStateHasNoQuorum ==
  ASSUME TypeOK
  PROVE  ~isQuorumMet(newQuorumState, sr)
<1>1. sr.SCTs \in Nat \ {0}
  BY SubmitAssumption DEF TypeOK, SubmissionRequest
<1>2. Len(newQuorumState.got) = 0
  BY DEF newQuorumState
<1> QED
  BY <1>1, <1>2 DEF isQuorumMet

\* Start.
LEMMA StartStep == IInv /\ Start => IInv'
<1> SUFFICES ASSUME IInv, Start PROVE IInv'
  OBVIOUS
<1> USE DEF IInv
<1>1. TypeOK'
  BY TypeStep DEF Next, Coordinator
<1>2. /\ Launch(InitialBatch, 0, {}) /\ phase = "start" /\ phase' = "loop"
      /\ UNCHANGED <<sr, events, qs, slowInFlightIndices>>
  BY DEF Start
<1>3. /\ attempted = {} /\ slowInFlightIndices = {} /\ qs = newQuorumState
      /\ InitialBatch \in SUBSET Logs
  BY <1>2, InitialBatchIsEligible DEF IdleAtTheEnds, eligible
<1>4. \A i \in Logs : goroutine[i].at = "none"
  BY <1>3 DEF Channel, AttemptedMeansStarted
<1>5. Unreported = {} /\ DOMAIN events = {}
  <2>1. \A i \in Logs : i \notin Unreported
    BY <1>3, NewLogsAreQuiet
  <2>2. Unreported = {}
    BY <2>1 DEF Unreported
  <2> QED
    BY <2>2 DEF Channel, EventsOfUnreported
<1>6. \A i \in Logs : goroutine'[i].at = IF i \in InitialBatch THEN "select" ELSE "none"
  BY <1>2, <1>4 DEF Launch, Started
<1>7. Unreported' = InitialBatch
  BY <1>2, <1>3, <1>5, <1>6 DEF Unreported, Sends
<1>8. Channel'
  BY <1>2, <1>3, <1>5, <1>6 DEF Channel, NothingAfterFinal, FinalMeansGone,
     EventsOfUnreported, AttemptedMeansStarted, Launch
<1>9. InFlightAccounting'
  BY <1>2, <1>3, <1>7, LogsFinite DEF InFlightAccounting, Launch
<1>10. IdleAtTheEnds' /\ LoopHasNoQuorum'
  BY <1>2, <1>3, NewStateHasNoQuorum DEF IdleAtTheEnds, LoopHasNoQuorum, isQuorumMet
<1> QED
  BY <1>1, <1>2, <1>8, <1>9, <1>10, LaunchTimers

\* The three receptions after which a log may be launched.
LEMMA SuccessStep == IInv /\ ReceiveSuccess => IInv'
<1> SUFFICES ASSUME IInv, ReceiveSuccess PROVE IInv'
  OBVIOUS
<1> USE DEF IInv
<1> DEFINE idx    == Oldest.strategyIdx
           normal == inFlightIndices \ {idx}
<1>1. TypeOK'
  BY TypeStep DEF Next, Coordinator
<1>2. /\ phase = "loop" /\ Receive({"eventSuccess"}) /\ Oldest.eventType \in FinalEvents
      /\ slowInFlightIndices' = slowInFlightIndices \ {idx} /\ sr' = sr
  BY DEF ReceiveSuccess, Receive, FinalEvents
<1>3. PICK S \in SUBSET (Logs \ attempted) : Launch(S, inFlight - 1, normal)
  BY NextEligibleIsNew DEF ReceiveSuccess, eligible
<1>4. /\ Channel' /\ inFlight' = Cardinality(Unreported') /\ idx \in Unreported
      /\ Unreported' = (Unreported \ {idx}) \cup S
  BY <1>2, <1>3, ReceiveAccounting
<1>5. InFlightAccounting'
  <2>1. S \cap Unreported = {}
    BY <1>3, NewLogsAreQuiet
  <2> QED
    BY <1>2, <1>3, <1>4, <2>1 DEF InFlightAccounting, Launch
<1>6. phase' = "drain quorum" \/ (phase' = "loop" /\ ~isQuorumMet(qs', sr))
  BY <1>2 DEF ReceiveSuccess, QuorumNow
<1>7. IdleAtTheEnds' /\ LoopHasNoQuorum'
  BY <1>2, <1>6 DEF IdleAtTheEnds, LoopHasNoQuorum
<1> QED
  BY <1>1, <1>3, <1>4, <1>5, <1>7, LaunchTimers

LEMMA FailureStep == IInv /\ ReceiveFailure => IInv'
<1> SUFFICES ASSUME IInv, ReceiveFailure PROVE IInv'
  OBVIOUS
<1> USE DEF IInv
<1> DEFINE idx    == Oldest.strategyIdx
           normal == inFlightIndices \ {idx}
<1>1. TypeOK'
  BY TypeStep DEF Next, Coordinator
<1>2. /\ phase = "loop" /\ Receive({"eventFailure"}) /\ Oldest.eventType \in FinalEvents
      /\ slowInFlightIndices' = slowInFlightIndices \ {idx}
      /\ UNCHANGED <<sr, phase, qs>>
  BY DEF ReceiveFailure, Receive, FinalEvents
<1>3. PICK S \in SUBSET (Logs \ attempted) : Launch(S, inFlight - 1, normal)
  BY NextEligibleIsNew DEF ReceiveFailure, eligible
<1>4. /\ Channel' /\ inFlight' = Cardinality(Unreported') /\ idx \in Unreported
      /\ Unreported' = (Unreported \ {idx}) \cup S
  BY <1>2, <1>3, ReceiveAccounting
<1>5. InFlightAccounting'
  <2>1. S \cap Unreported = {}
    BY <1>3, NewLogsAreQuiet
  <2> QED
    BY <1>2, <1>3, <1>4, <2>1 DEF InFlightAccounting, Launch
<1>6. IdleAtTheEnds' /\ LoopHasNoQuorum'
  BY <1>2 DEF IdleAtTheEnds, LoopHasNoQuorum
<1> QED
  BY <1>1, <1>3, <1>4, <1>5, <1>6, LaunchTimers

LEMMA TryNextStep == IInv /\ ReceiveTryNext => IInv'
<1> SUFFICES ASSUME IInv, ReceiveTryNext PROVE IInv'
  OBVIOUS
<1> USE DEF IInv
<1> DEFINE idx    == Oldest.strategyIdx
           normal == inFlightIndices \ {idx}
<1>1. TypeOK'
  BY TypeStep DEF Next, Coordinator
<1>2. /\ phase = "loop" /\ Receive({"eventTryNext"}) /\ Oldest.eventType \notin FinalEvents
      /\ slowInFlightIndices' = slowInFlightIndices \cup {idx}
      /\ UNCHANGED <<sr, phase, qs>>
  BY DEF ReceiveTryNext, Receive, FinalEvents
<1>3. PICK S \in SUBSET (Logs \ attempted) : Launch(S, inFlight, normal)
  BY NextEligibleIsNew DEF ReceiveTryNext, eligible
<1>4. /\ Channel' /\ inFlight' = Cardinality(Unreported') /\ idx \in Unreported
      /\ Unreported' = Unreported \cup S
  BY <1>2, <1>3, ReceiveAccounting
<1>5. InFlightAccounting'
  <2>1. S \cap Unreported = {}
    BY <1>3, NewLogsAreQuiet
  <2> QED
    BY <1>2, <1>3, <1>4, <2>1 DEF InFlightAccounting, Launch
<1>6. IdleAtTheEnds' /\ LoopHasNoQuorum'
  BY <1>2 DEF IdleAtTheEnds, LoopHasNoQuorum
<1> QED
  BY <1>1, <1>3, <1>4, <1>5, <1>6, LaunchTimers

\* The receptions that launch nothing.
LEMMA DrainStep ==
  IInv /\ (ReceiveSlow \/ DrainAfterQuorum \/ DrainAfterContext) => IInv'
<1> SUFFICES ASSUME IInv, ReceiveSlow \/ DrainAfterQuorum \/ DrainAfterContext PROVE IInv'
  OBVIOUS
<1> USE DEF IInv
<1>1. TypeOK'
  BY TypeStep DEF Next, Coordinator
<1>2. /\ UNCHANGED <<goroutine, attempted, sr, phase, qs, inFlightIndices, slowInFlightIndices>>
      /\ \E types : Receive(types)
      /\ inFlight' = IF Oldest.eventType \in FinalEvents THEN inFlight - 1 ELSE inFlight
      /\ phase = "loop" => Oldest.eventType \notin FinalEvents
  <2>1. CASE ReceiveSlow
    BY <2>1 DEF ReceiveSlow, Receive, FinalEvents, coordinatorVars
  <2>2. CASE DrainAfterQuorum \/ DrainAfterContext
    BY <2>2 DEF DrainAfterQuorum, DrainAfterContext, DrainEvent
  <2> QED
    BY <2>1, <2>2
<1>3. /\ Channel' /\ inFlight' = Cardinality(Unreported')
      /\ Unreported' = IF Oldest.eventType \in FinalEvents
                       THEN Unreported \ {Oldest.strategyIdx} ELSE Unreported
  BY <1>2, DrainAccounting
<1>4. phase \in {"loop", "drain quorum", "drain context"}
  BY DEF ReceiveSlow, DrainAfterQuorum, DrainAfterContext
<1>5. InFlightAccounting'
  BY <1>2, <1>3, <1>4 DEF InFlightAccounting
<1>6. IdleAtTheEnds' /\ LoopHasNoQuorum'
  BY <1>2, <1>4 DEF IdleAtTheEnds, LoopHasNoQuorum
<1>7. TimersNoted'
  BY <1>2 DEF TimersNoted
<1> QED
  BY <1>1, <1>3, <1>5, <1>6, <1>7

\* The steps of the coordinator and of the context that leave the channel, the
\* goroutines and the counters alone.
LEMMA QuietStep ==
  IInv /\ (\/ StartFails \/ NoticeContext \/ ReturnQuorum \/ ReturnNoQuorum
           \/ ReturnContext \/ EndContext \/ UNCHANGED vars)
  => IInv'
<1> SUFFICES ASSUME IInv,
                    \/ StartFails \/ NoticeContext \/ ReturnQuorum \/ ReturnNoQuorum
                    \/ ReturnContext \/ EndContext \/ UNCHANGED vars
             PROVE  IInv'
  OBVIOUS
<1> USE DEF IInv
<1>1. TypeOK'
  BY TypeStep DEF Next, Coordinator
<1>2. /\ UNCHANGED <<events, goroutine, attempted, sr, qs, inFlight, inFlightIndices,
                     slowInFlightIndices>>
      /\ \/ phase' = phase
         \/ phase' = "drain context"
         \/ phase' = "returned" /\ (inFlight = 0 \/ phase = "start")
  BY DEF StartFails, NoticeContext, ReturnQuorum, ReturnNoQuorum, ReturnContext, Return,
         EndContext, coordinatorVars, vars
<1>3. Unreported' = Unreported
  BY <1>2 DEF Unreported
<1>4. Channel' /\ TimersNoted'
  BY <1>2, <1>3 DEF Channel, NothingAfterFinal, FinalMeansGone, EventsOfUnreported,
     AttemptedMeansStarted, TimersNoted
<1>5. phase = "start" => inFlight = 0
  <2>1. phase = "start" => Unreported = {}
    BY NewLogsAreQuiet, Logs \ {} = Logs DEF IdleAtTheEnds, Unreported
  <2> QED
    BY <2>1, FS_EmptySet DEF InFlightAccounting
<1>6. InFlightAccounting' /\ IdleAtTheEnds' /\ LoopHasNoQuorum'
  BY <1>2, <1>3, <1>5 DEF InFlightAccounting, IdleAtTheEnds, LoopHasNoQuorum
<1> QED
  BY <1>1, <1>4, <1>6

\* The steps of a goroutine, none of which settles a log.
LEMMA GoroutineStep ==
  ASSUME IInv, NEW i \in Logs, Goroutine(i)
  PROVE  IInv' /\ Unreported' = Unreported
<1> USE DEF IInv
<1>1. TypeOK'
  BY TypeStep DEF Next
<1>2. UNCHANGED <<attempted, sr, phase, qs, inFlight, inFlightIndices, slowInFlightIndices>>
  BY DEF Goroutine, TimerFires, FinishRequest, Send, coordinatorVars
<1>3. goroutine[i] \in GoroutineState
  BY DEF TypeOK
<1>4. Unreported' = Unreported /\ Channel' /\ TimersNoted'
  <2>1. CASE \/ TimerFires(i, "eventTryNext", "sendTryNext")
             \/ TimerFires(i, "eventSlow", "sendSlow")
    <3>1. PICK type \in TimerEvents, at \in Sends :
            /\ TimerFires(i, type, at)
            /\ at = "sendTryNext" => type = "eventTryNext"
            /\ at = "sendSlow" => type = "eventSlow"
      BY <2>1 DEF TimerEvents, Sends
    <3> DEFINE s == [at |-> at, sent |-> goroutine[i].sent \cup {type}]
    <3>2. /\ s \in GoroutineState /\ s.at \in Sends
          /\ goroutine[i].at = "select" /\ goroutine' = [goroutine EXCEPT ![i] = s]
          /\ UNCHANGED <<events, attempted>>
      BY <1>3, <3>1 DEF TimerFires, GoroutineState, coordinatorVars
    <3>3. TimersNoted'
      <4>1. goroutine'[i] = s /\ \A j \in Logs \ {i} : goroutine'[j] = goroutine[j]
        BY <3>2 DEF TypeOK
      <4> QED
        BY <3>1, <4>1 DEF TimersNoted, Sends
    <3> QED
      BY <3>2, <3>3, StepChannel
  <2>2. CASE FinishRequest(i)
    <3>1. PICK at \in {"sendSuccess", "sendFailure", "sendCancelled"} : StepTo(i, at)
      BY <2>2 DEF FinishRequest
    <3> DEFINE s == [goroutine[i] EXCEPT !.at = at]
    <3>2. /\ s \in GoroutineState /\ s.at = at /\ at \in Sends
          /\ goroutine[i].at = "select" /\ goroutine' = [goroutine EXCEPT ![i] = s]
          /\ UNCHANGED <<events, attempted>>
      BY <1>3, <2>2, <3>1 DEF FinishRequest, StepTo, GoroutineState, Sends, coordinatorVars
    <3>3. TimersNoted'
      <4>1. goroutine'[i] = s /\ \A j \in Logs \ {i} : goroutine'[j] = goroutine[j]
        BY <3>2 DEF TypeOK
      <4> QED
        BY <3>2, <4>1 DEF TimersNoted
    <3> QED
      BY <3>2, <3>3, StepChannel
  <2>3. CASE Send(i)
    <3>1. /\ goroutine'[i].at \in {"gone", "select"}
          /\ \A j \in Logs \ {i} : goroutine'[j] = goroutine[j]
      BY <1>3, <2>3 DEF Send, StepTo, GoroutineState, TypeOK
    <3>2. TimersNoted'
      BY <3>1 DEF TimersNoted
    <3> QED
      BY <2>3, <3>2, SendChannel
  <2> QED
    BY <2>1, <2>2, <2>3 DEF Goroutine
<1>5. InFlightAccounting' /\ IdleAtTheEnds' /\ LoopHasNoQuorum'
  BY <1>2, <1>4 DEF InFlightAccounting, IdleAtTheEnds, LoopHasNoQuorum
<1> QED
  BY <1>1, <1>4, <1>5

\* The invariant holds initially, and every step keeps it.
LEMMA InvInit == Init => IInv
<1> SUFFICES ASSUME Init PROVE IInv
  OBVIOUS
<1>1. TypeOK
  BY TypeCorrectInit
<1>2. /\ events = <<>> /\ attempted = {} /\ inFlight = 0 /\ phase = "start"
      /\ inFlightIndices = {} /\ slowInFlightIndices = {} /\ qs = newQuorumState
      /\ goroutine = [i \in Logs |-> NoGoroutine]
  BY DEF Init
<1>3. \A i \in Logs : goroutine[i].at = "none" /\ goroutine[i].sent = {}
  BY <1>2 DEF NoGoroutine
<1>4. DOMAIN events = {}
  BY <1>2
<1>5. Unreported = {}
  BY <1>3, <1>4 DEF Unreported, Sends
<1>6. Channel /\ TimersNoted
  BY <1>2, <1>3, <1>4 DEF Channel, NothingAfterFinal, FinalMeansGone, EventsOfUnreported,
     AttemptedMeansStarted, TimersNoted
<1>7. InFlightAccounting /\ IdleAtTheEnds /\ LoopHasNoQuorum
  BY <1>2, <1>5, FS_EmptySet DEF InFlightAccounting, IdleAtTheEnds, LoopHasNoQuorum
<1> QED
  BY <1>1, <1>6, <1>7 DEF IInv

LEMMA InvStep == IInv /\ [Next]_vars => IInv'
BY StartStep, SuccessStep, FailureStep, TryNextStep, DrainStep, QuietStep, GoroutineStep
   DEF Next, Coordinator, Terminated

---------------------------------------------------------------------------
(***************************************************************************)
(* The theorems.                                                           *)
(***************************************************************************)

\* The in-flight counter and sets agree with the goroutines and the channel.
THEOREM Accounting == Spec => []InFlightAccounting
<1>1. IInv => InFlightAccounting
  BY DEF IInv
<1> QED
  BY <1>1, InvInit, InvStep, PTL DEF Spec

\* When submit() has returned, every goroutine is gone and the channel is empty.
THEOREM NothingLeftBehind == Spec => []NoGoroutineLeftBehind
<1>1. IInv => NoGoroutineLeftBehind
  <2> SUFFICES ASSUME IInv, phase = "returned"
               PROVE  events = <<>> /\ \A i \in Logs : goroutine[i].at \in {"none", "gone"}
    BY DEF NoGoroutineLeftBehind
  <2>1. Cardinality(Unreported) = 0 /\ Unreported \subseteq Logs
    BY DEF IInv, IdleAtTheEnds, InFlightAccounting, Unreported
  <2>2. Unreported = {}
    BY <2>1, LogsFinite, FS_EmptySet
  <2>3. events = <<>>
    <3> SUFFICES ASSUME events # <<>> PROVE FALSE
      OBVIOUS
    <3>1. 1 \in DOMAIN events
      BY OldestEvent DEF IInv
    <3> QED
      BY <2>2, <3>1 DEF IInv, Channel, EventsOfUnreported
  <2>4. ASSUME NEW i \in Logs
        PROVE  goroutine[i].at \in {"none", "gone"}
    <3>1. goroutine[i].at \in {"none", "select", "gone"} \cup Sends
      BY DEF IInv, TypeOK, GoroutineState
    <3> QED
      BY <2>2, <3>1 DEF Unreported
  <2> QED
    BY <2>3, <2>4
<1> QED
  BY <1>1, InvInit, InvStep, PTL DEF Spec

\* Launching contacts only logs that were not contacted before.
LEMMA LaunchIsFirst ==
  ASSUME IInv, NEW S \in SUBSET (Logs \ attempted), NEW remaining, NEW normal,
         Launch(S, remaining, normal),
         NEW i \in Logs, goroutine[i] # Started, goroutine'[i] = Started
  PROVE  goroutine[i] = NoGoroutine /\ S # {}
<1>1. i \in S
  BY DEF Launch
<1>2. goroutine[i].at = "none" /\ goroutine[i].sent = {}
  BY <1>1 DEF IInv, Channel, AttemptedMeansStarted, TimersNoted
<1>3. goroutine[i] \in GoroutineState
  BY DEF IInv, TypeOK
<1>4. goroutine[i] = [at |-> "none", sent |-> {}]
  BY <1>2, <1>3 DEF GoroutineState
<1> QED
  BY <1>1, <1>4 DEF NoGoroutine

\* A goroutine's own steps never bring it back to where it started.
LEMMA StepsDoNotRestart ==
  ASSUME IInv, NEW i \in Logs, Goroutine(i),
         NEW j \in Logs, goroutine[j] # Started
  PROVE  goroutine'[j] # Started
<1>1. goroutine \in [Logs -> GoroutineState] /\ goroutine[i] \in GoroutineState
  BY DEF IInv, TypeOK
<1>2. CASE TimerFires(i, "eventTryNext", "sendTryNext") \/ TimerFires(i, "eventSlow", "sendSlow")
  <2>1. goroutine'[i].at # "select" /\ \A k \in Logs \ {i} : goroutine'[k] = goroutine[k]
    BY <1>1, <1>2 DEF TimerFires
  <2> QED
    BY <2>1 DEF Started
<1>3. CASE FinishRequest(i)
  <2>1. PICK at \in {"sendSuccess", "sendFailure", "sendCancelled"} : StepTo(i, at)
    BY <1>3 DEF FinishRequest
  <2>2. goroutine'[i].at # "select" /\ \A k \in Logs \ {i} : goroutine'[k] = goroutine[k]
    BY <1>1, <2>1 DEF StepTo, GoroutineState
  <2> QED
    BY <2>2 DEF Started
<1>4. CASE Send(i)
  <2>1. PICK at \in {"gone", "select"} :
          StepTo(i, at) /\ (at = "select" => EventToSend(i).eventType \notin FinalEvents)
    BY <1>4 DEF Send
  <2>2. /\ goroutine'[i] = [goroutine[i] EXCEPT !.at = at]
        /\ \A k \in Logs \ {i} : goroutine'[k] = goroutine[k]
    BY <1>1, <2>1 DEF StepTo
  <2>3. goroutine'[i].at = at /\ goroutine'[i].sent = goroutine[i].sent
    BY <1>1, <2>2 DEF GoroutineState
  <2>4. at = "select" => goroutine[i].sent # {}
    <3>1. at = "select" => goroutine[i].at \in {"sendTryNext", "sendSlow"}
      BY <1>4, <2>1 DEF Send, Sends, EventToSend, FinalEvents
    <3> QED
      BY <3>1 DEF IInv, TimersNoted
  <2> QED
    BY <2>2, <2>3, <2>4 DEF Started
<1> QED
  BY <1>2, <1>3, <1>4 DEF Goroutine

\* A log is contacted at most once, and none once the quorum is met or the end of
\* the context was noticed.
THEOREM LaunchedOnceAndInTime == Spec => LaunchOnceAndInTime
<1> DEFINE OK(i) == goroutine[i] # Started /\ goroutine'[i] = Started =>
                      /\ goroutine[i] = NoGoroutine
                      /\ phase' = "loop"
                      /\ ~isQuorumMet(qs', sr)
<1>1. ASSUME IInv, IInv', [Next]_vars, NEW i \in Logs
      PROVE  OK(i)
  <2> SUFFICES ASSUME goroutine[i] # Started, goroutine'[i] = Started
               PROVE  OK(i)
    OBVIOUS
  <2>1. ASSUME NEW S \in SUBSET (Logs \ attempted), NEW remaining, NEW normal,
               Launch(S, remaining, normal), S # {} => phase' = "loop", sr' = sr
        PROVE  OK(i)
    <3>1. goroutine[i] = NoGoroutine /\ phase' = "loop"
      BY <1>1, <2>1, LaunchIsFirst
    <3> QED
      BY <1>1, <2>1, <3>1 DEF IInv, LoopHasNoQuorum
  <2>2. CASE Start
    <3>1. InitialBatch \in SUBSET (Logs \ attempted)
      BY <1>1, <2>2, InitialBatchIsEligible DEF Start, IInv, IdleAtTheEnds, eligible
    <3> QED
      BY <2>1, <2>2, <3>1 DEF Start
  <2>3. CASE ReceiveSuccess
    <3>1. PICK S \in SUBSET (Logs \ attempted) :
            /\ Launch(S, inFlight - 1, inFlightIndices \ {Oldest.strategyIdx})
            /\ S # {} => phase' = "loop"
      <4> DEFINE normal == inFlightIndices \ {Oldest.strategyIdx}
      <4>1. \/ Launch({}, inFlight - 1, normal)
            \/ /\ phase' = phase /\ phase = "loop"
               /\ \E newQs : Launch(IF inFlight = 1 THEN NextEligible(newQs, normal) ELSE {},
                                   inFlight - 1, normal)
        BY <2>3 DEF ReceiveSuccess
      <4>2. CASE Launch({}, inFlight - 1, normal)
        BY <4>2
      <4>3. CASE /\ phase' = "loop"
                 /\ \E newQs : Launch(IF inFlight = 1 THEN NextEligible(newQs, normal) ELSE {},
                                     inFlight - 1, normal)
        BY <4>3, NextEligibleIsNew DEF eligible
      <4> QED
        BY <4>1, <4>2, <4>3
    <3> QED
      BY <2>1, <2>3, <3>1 DEF ReceiveSuccess
  <2>4. CASE ReceiveFailure
    <3>1. PICK S \in SUBSET (Logs \ attempted) :
            Launch(S, inFlight - 1, inFlightIndices \ {Oldest.strategyIdx})
      BY <2>4, NextEligibleIsNew DEF ReceiveFailure, eligible
    <3> QED
      BY <2>1, <2>4, <3>1 DEF ReceiveFailure
  <2>5. CASE ReceiveTryNext
    <3>1. NextEligible(qs, inFlightIndices \ {Oldest.strategyIdx}) \in SUBSET (Logs \ attempted)
      BY NextEligibleIsNew DEF eligible
    <3> QED
      BY <2>1, <2>5, <3>1 DEF ReceiveTryNext
  <2>6. CASE \E j \in Logs : Goroutine(j)
    BY <1>1, <2>6, StepsDoNotRestart
  <2>7. CASE goroutine' = goroutine
    BY <2>7
  <2>8. \/ Start \/ ReceiveSuccess \/ ReceiveFailure \/ ReceiveTryNext
        \/ (\E j \in Logs : Goroutine(j)) \/ goroutine' = goroutine
    BY <1>1 DEF Next, Coordinator, StartFails, ReceiveSlow, NoticeContext, DrainAfterQuorum,
       DrainAfterContext, ReturnQuorum, ReturnNoQuorum, ReturnContext, Return, EndContext,
       Terminated, vars
  <2> QED
    BY <2>2, <2>3, <2>4, <2>5, <2>6, <2>7, <2>8
<1>2. IInv /\ IInv' /\ [Next]_vars =>
        [\A i \in Logs :
           goroutine[i] # Started /\ goroutine'[i] = Started =>
             /\ goroutine[i] = NoGoroutine
             /\ phase' = "loop"
             /\ ~isQuorumMet(qs', sr)]_vars
  BY <1>1
<1> QED
  BY <1>2, InvInit, InvStep, PTL DEF Spec, LaunchOnceAndInTime

---------------------------------------------------------------------------
(***************************************************************************)
(* The events in the channel.                                              *)
(***************************************************************************)

\* A final event carries the outcome it stands for.
EventsTell ==
  \A k \in DOMAIN events :
    /\ events[k].eventType = "eventSuccess" => events[k].outcome = "successful"
    /\ events[k].eventType = "eventFailure" => events[k].outcome \in {"failed", "cancelled"}

\* The channel is left alone, loses its oldest event, or gains one.
LEMMA ChannelChanges ==
  ASSUME [Next]_vars
  PROVE  \/ events' = events
         \/ events # <<>> /\ events' = Tail(events)
         \/ \E i \in Logs : Send(i)
BY DEF Next, Coordinator, StartFails, Start, ReceiveSuccess, ReceiveFailure, ReceiveTryNext,
   ReceiveSlow, NoticeContext, DrainAfterQuorum, DrainAfterContext, DrainEvent, ReturnQuorum,
   ReturnNoQuorum, ReturnContext, Return, Receive, Goroutine, TimerFires, FinishRequest,
   EndContext, Terminated, vars

LEMMA EventsTellStep == IInv /\ EventsTell /\ [Next]_vars => EventsTell'
<1> SUFFICES ASSUME IInv, EventsTell, [Next]_vars PROVE EventsTell'
  OBVIOUS
<1>1. CASE events' = events
  BY <1>1 DEF EventsTell
<1>2. CASE events # <<>> /\ events' = Tail(events)
  <2>1. /\ DOMAIN events' = 1..(Len(events) - 1) /\ DOMAIN events = 1..Len(events)
        /\ Len(events) \in Nat \ {0}
        /\ \A k \in 1..(Len(events) - 1) : events'[k] = events[k + 1]
    BY <1>2, OldestEvent DEF IInv
  <2>2. \A k \in DOMAIN events' : k + 1 \in DOMAIN events /\ events'[k] = events[k + 1]
    BY <2>1
  <2> QED
    BY <2>2 DEF EventsTell
<1>3. CASE \E i \in Logs : Send(i)
  <2>1. PICK i \in Logs : Send(i)
    BY <1>3
  <2>2. events \in Seq(EventRecord) /\ events' = Append(events, EventToSend(i))
    BY <2>1 DEF Send, IInv, TypeOK
  <2>3. /\ DOMAIN events' = DOMAIN events \cup {Len(events) + 1}
        /\ \A k \in DOMAIN events : events'[k] = events[k]
        /\ events'[Len(events) + 1] = EventToSend(i)
    <3>1. /\ Len(events) \in Nat /\ DOMAIN events = 1..Len(events)
          /\ DOMAIN events' = 1..(Len(events) + 1)
      BY <2>2
    <3>2. 1..(Len(events) + 1) = (1..Len(events)) \cup {Len(events) + 1}
      BY <3>1
    <3> QED
      BY <2>2, <3>1, <3>2
  <2>4. /\ EventToSend(i).eventType = "eventSuccess" => EventToSend(i).outcome = "successful"
        /\ EventToSend(i).eventType = "eventFailure"
             => EventToSend(i).outcome \in {"failed", "cancelled"}
    BY <2>1 DEF Send, Sends, EventToSend
  <2> QED
    BY <2>3, <2>4 DEF EventsTell
<1> QED
  BY <1>1, <1>2, <1>3, ChannelChanges

---------------------------------------------------------------------------
(***************************************************************************)
(* A log is slow once.                                                     *)
(***************************************************************************)

IsTryNext(k, i) == events[k].strategyIdx = i /\ events[k].eventType = "eventTryNext"

\* The goroutine of log i has an eventTryNext on its way to the coordinator.
TryNextPending(i) ==
  goroutine[i].at = "sendTryNext" \/ \E k \in DOMAIN events : IsTryNext(k, i)

\* That happens once, and a log that is slow already has it behind it.
TryNextOnce ==
  /\ \A i \in Logs : TryNextPending(i) => "eventTryNext" \in goroutine[i].sent
  /\ \A i \in Logs : goroutine[i].at = "sendTryNext" =>
                       \A k \in DOMAIN events : ~IsTryNext(k, i)
  /\ \A i \in Logs : \A j, k \in DOMAIN events : IsTryNext(j, i) /\ IsTryNext(k, i) => j = k
  /\ phase \in {"start", "loop"} =>
       \A i \in slowInFlightIndices : "eventTryNext" \in goroutine[i].sent /\ ~TryNextPending(i)

\* What is still to be reported is of contacted logs.
LEMMA UnreportedAttempted ==
  ASSUME IInv
  PROVE  Unreported \subseteq attempted /\ Unreported \subseteq Logs
<1>1. ASSUME NEW i \in Unreported
      PROVE  i \in attempted
  BY DEF Unreported, IInv, Channel, FinalMeansGone, AttemptedMeansStarted, Sends
<1> QED
  BY <1>1 DEF Unreported

\* Receiving an event while new goroutines start.
LEMMA ReceiveTryNextOnce ==
  ASSUME IInv, TryNextOnce, NEW types, Receive(types), NEW S \in SUBSET (Logs \ attempted),
         goroutine' = [i \in Logs |-> IF i \in S THEN Started ELSE goroutine[i]],
         phase' \in {"start", "loop"} =>
           /\ phase = "loop"
           /\ slowInFlightIndices' \subseteq
                slowInFlightIndices \cup
                  (IF Oldest.eventType = "eventTryNext" THEN {Oldest.strategyIdx} ELSE {})
  PROVE  TryNextOnce'
<1>1. /\ DOMAIN events' = 1..(Len(events) - 1) /\ DOMAIN events = 1..Len(events)
      /\ Len(events) \in Nat \ {0} /\ Oldest = events[1] /\ 1 \in DOMAIN events
      /\ \A k \in 1..(Len(events) - 1) : events'[k] = events[k + 1]
  BY OldestEvent DEF Receive, IInv
<1>2. \A k \in DOMAIN events' : k + 1 \in DOMAIN events /\ k + 1 # 1 /\ events'[k] = events[k + 1]
  BY <1>1
<1>3. \A j, k \in DOMAIN events' : j + 1 = k + 1 => j = k
  BY <1>1
<1>4. \A k \in DOMAIN events, i \in Logs : IsTryNext(k, i) => i \notin S
  <2>1. S \cap Unreported = {}
    BY NewLogsAreQuiet DEF IInv
  <2> QED
    BY <2>1 DEF IsTryNext, IInv, Channel, EventsOfUnreported
<1>5. \A k \in DOMAIN events', i \in Logs : IsTryNext(k, i)' => IsTryNext(k + 1, i) /\ i \notin S
  BY <1>2, <1>4 DEF IsTryNext
<1>6. \A i \in Logs : /\ i \in S => goroutine'[i].at = "select"
                      /\ i \notin S => goroutine'[i] = goroutine[i]
  BY DEF Started
<1>7. \A i \in Logs : TryNextPending(i)' => TryNextPending(i) /\ goroutine'[i] = goroutine[i]
  BY <1>2, <1>5, <1>6 DEF TryNextPending
<1>8. \A i \in Logs : TryNextPending(i)' => "eventTryNext" \in goroutine'[i].sent
  BY <1>7 DEF TryNextOnce
<1>9. \A i \in Logs : goroutine'[i].at = "sendTryNext" =>
                        \A k \in DOMAIN events' : ~IsTryNext(k, i)'
  BY <1>2, <1>5, <1>6 DEF TryNextOnce
<1>10. \A i \in Logs : \A j, k \in DOMAIN events' : IsTryNext(j, i)' /\ IsTryNext(k, i)' => j = k
  BY <1>2, <1>3, <1>5 DEF TryNextOnce
<1>11. ASSUME phase' \in {"start", "loop"}, NEW i \in slowInFlightIndices'
       PROVE  "eventTryNext" \in goroutine'[i].sent /\ ~TryNextPending(i)'
  <2>1. CASE i \in slowInFlightIndices
    <3>1. i \in Logs /\ i \notin S
      BY <1>11, <2>1, UnreportedAttempted DEF IInv, InFlightAccounting
    <3> QED
      BY <1>6, <1>7, <1>11, <2>1, <3>1 DEF TryNextOnce
  <2>2. CASE Oldest.eventType = "eventTryNext" /\ i = Oldest.strategyIdx
    <3>1. IsTryNext(1, i)
      BY <1>1, <2>2 DEF IsTryNext
    <3>2. i \in Logs /\ i \notin S
      <4>1. i \in Logs
        BY <1>1, <2>2, UnreportedAttempted DEF IInv, Channel, EventsOfUnreported
      <4> QED
        BY <1>1, <1>4, <3>1, <4>1
    <3>3. "eventTryNext" \in goroutine'[i].sent
      BY <1>1, <1>6, <3>1, <3>2 DEF TryNextOnce, TryNextPending
    <3>4. goroutine'[i].at # "sendTryNext"
      BY <1>1, <1>6, <3>1, <3>2 DEF TryNextOnce
    <3>5. \A k \in DOMAIN events' : ~IsTryNext(k, i)'
      BY <1>1, <1>2, <1>5, <3>1, <3>2 DEF TryNextOnce
    <3> QED
      BY <3>3, <3>4, <3>5 DEF TryNextPending
  <2> QED
    BY <1>11, <2>1, <2>2
<1> QED
  BY <1>8, <1>9, <1>10, <1>11 DEF TryNextOnce

\* A step of a goroutine.
LEMMA GoroutineTryNextOnce ==
  ASSUME IInv, TryNextOnce, NEW i \in Logs, Goroutine(i)
  PROVE  TryNextOnce'
<1>1. /\ goroutine \in [Logs -> GoroutineState] /\ goroutine[i] \in GoroutineState
      /\ events \in Seq(EventRecord)
      /\ slowInFlightIndices \subseteq Logs
  BY DEF IInv, TypeOK
<1>2. phase' = phase /\ slowInFlightIndices' = slowInFlightIndices
  BY DEF Goroutine, TimerFires, FinishRequest, Send, coordinatorVars
<1>3. ASSUME TimerFires(i, "eventTryNext", "sendTryNext")
      PROVE  TryNextOnce'
  <2>1. /\ events' = events /\ "eventTryNext" \notin goroutine[i].sent
        /\ goroutine'[i].at = "sendTryNext" /\ "eventTryNext" \in goroutine'[i].sent
        /\ \A j \in Logs : j # i => goroutine'[j] = goroutine[j]
    BY <1>1, <1>3 DEF TimerFires, GoroutineState
  <2>2. ~TryNextPending(i) /\ (phase \in {"start", "loop"} => i \notin slowInFlightIndices)
    BY <2>1 DEF TryNextOnce
  <2>3. \A k \in DOMAIN events, j \in Logs : IsTryNext(k, j)' <=> IsTryNext(k, j)
    BY <2>1 DEF IsTryNext
  <2>4. \A k \in DOMAIN events : ~IsTryNext(k, i)
    BY <2>2 DEF TryNextPending
  <2>5. \A j \in Logs : j # i => (TryNextPending(j)' <=> TryNextPending(j))
    BY <2>1, <2>3 DEF TryNextPending
  <2> QED
    BY <1>1, <1>2, <2>1, <2>2, <2>3, <2>4, <2>5 DEF TryNextOnce
<1>4. ASSUME events' = events, goroutine[i].at # "sendTryNext", goroutine'[i].at # "sendTryNext",
             goroutine[i].sent \subseteq goroutine'[i].sent,
             \A j \in Logs : j # i => goroutine'[j] = goroutine[j]
      PROVE  TryNextOnce'
  <2>1. \A k \in DOMAIN events, j \in Logs : IsTryNext(k, j)' <=> IsTryNext(k, j)
    BY <1>4 DEF IsTryNext
  <2>2. \A j \in Logs : TryNextPending(j)' <=> TryNextPending(j)
    BY <1>4, <2>1 DEF TryNextPending
  <2> QED
    BY <1>1, <1>2, <1>4, <2>1, <2>2 DEF TryNextOnce
<1>5. CASE TimerFires(i, "eventSlow", "sendSlow")
  <2>1. /\ events' = events /\ goroutine[i].at # "sendTryNext" /\ goroutine'[i].at # "sendTryNext"
        /\ goroutine[i].sent \subseteq goroutine'[i].sent
        /\ \A j \in Logs : j # i => goroutine'[j] = goroutine[j]
    BY <1>1, <1>5 DEF TimerFires, GoroutineState
  <2> QED
    BY <1>4, <2>1
<1>6. CASE FinishRequest(i)
  <2>1. PICK at \in {"sendSuccess", "sendFailure", "sendCancelled"} : StepTo(i, at)
    BY <1>6 DEF FinishRequest
  <2>2. /\ events' = events /\ goroutine[i].at # "sendTryNext" /\ goroutine'[i].at # "sendTryNext"
        /\ goroutine[i].sent \subseteq goroutine'[i].sent
        /\ \A j \in Logs : j # i => goroutine'[j] = goroutine[j]
    BY <1>1, <1>6, <2>1 DEF FinishRequest, StepTo, GoroutineState
  <2> QED
    BY <1>4, <2>2
<1>7. CASE Send(i)
  <2> DEFINE e == EventToSend(i)
  <2>0. PICK n \in Nat : n = Len(events) + 1
    BY <1>1
  <2>1. /\ DOMAIN events' = DOMAIN events \cup {n} /\ n \notin DOMAIN events
        /\ \A k \in DOMAIN events : events'[k] = events[k]
        /\ events'[n] = e
    <3>1. events' = Append(events, e)
      BY <1>7 DEF Send
    <3>2. /\ Len(events) \in Nat /\ DOMAIN events = 1..Len(events)
          /\ DOMAIN events' = 1..n /\ events'[n] = e
          /\ \A k \in 1..Len(events) : events'[k] = events[k]
      BY <1>1, <2>0, <3>1
    <3>3. 1..n = (1..Len(events)) \cup {n} /\ n \notin 1..Len(events)
      BY <2>0, <3>2
    <3> QED
      BY <3>2, <3>3
  <2>2. /\ e.strategyIdx = i
        /\ e.eventType = "eventTryNext" <=> goroutine[i].at = "sendTryNext"
    BY <1>7 DEF Send, Sends, EventToSend
  <2>3. /\ goroutine'[i].at \in {"select", "gone"} /\ goroutine'[i].sent = goroutine[i].sent
        /\ \A j \in Logs : j # i => goroutine'[j] = goroutine[j]
    <3>1. PICK at \in {"gone", "select"} : StepTo(i, at)
      BY <1>7 DEF Send
    <3> QED
      BY <1>1, <3>1 DEF StepTo, GoroutineState
  <2> HIDE DEF e
  <2>4. /\ \A k \in DOMAIN events, j \in Logs : IsTryNext(k, j)' <=> IsTryNext(k, j)
        /\ \A j \in Logs : IsTryNext(n, j)' <=> j = i /\ goroutine[i].at = "sendTryNext"
    BY <2>1, <2>2 DEF IsTryNext
  <2>5. \A j \in Logs : TryNextPending(j)' <=> TryNextPending(j)
    <3>1. ASSUME NEW j \in Logs, j # i
          PROVE  TryNextPending(j)' <=> TryNextPending(j)
      BY <2>1, <2>3, <2>4, <3>1 DEF TryNextPending
    <3>2. TryNextPending(i)' <=> TryNextPending(i)
      BY <2>1, <2>3, <2>4 DEF TryNextPending
    <3> QED
      BY <3>1, <3>2
  <2>6. \A j \in Logs : TryNextPending(j)' => "eventTryNext" \in goroutine'[j].sent
    BY <2>3, <2>5 DEF TryNextOnce
  <2>7. \A j \in Logs : goroutine'[j].at = "sendTryNext" =>
                          \A k \in DOMAIN events' : ~IsTryNext(k, j)'
    BY <2>1, <2>3, <2>4 DEF TryNextOnce
  <2>8. \A j \in Logs : \A k, m \in DOMAIN events' :
          IsTryNext(k, j)' /\ IsTryNext(m, j)' => k = m
    BY <2>1, <2>4 DEF TryNextOnce
  <2>9. phase' \in {"start", "loop"} =>
          \A j \in slowInFlightIndices' : "eventTryNext" \in goroutine'[j].sent /\ ~TryNextPending(j)'
    BY <1>1, <1>2, <2>3, <2>5 DEF TryNextOnce
  <2> QED
    BY <2>6, <2>7, <2>8, <2>9 DEF TryNextOnce
<1> QED
  BY <1>3, <1>5, <1>6, <1>7 DEF Goroutine

\* The steps that leave goroutines and channel alone.
LEMMA QuietTryNextOnce ==
  ASSUME IInv, TryNextOnce, UNCHANGED <<events, goroutine, slowInFlightIndices>>,
         phase' \in {"start", "loop"} => phase \in {"start", "loop"}
  PROVE  TryNextOnce'
<1>1. \A k \in DOMAIN events, j \in Logs : IsTryNext(k, j)' <=> IsTryNext(k, j)
  BY DEF IsTryNext
<1>2. \A j \in Logs : TryNextPending(j)' <=> TryNextPending(j)
  BY <1>1 DEF TryNextPending
<1>3. slowInFlightIndices \subseteq Logs
  BY DEF IInv, TypeOK
<1> QED
  BY <1>1, <1>2, <1>3 DEF TryNextOnce

\* The first launch finds the channel empty.
LEMMA StartTryNextOnce ==
  ASSUME IInv, TryNextOnce, Start
  PROVE  TryNextOnce'
<1>1. attempted = {} /\ slowInFlightIndices' = {} /\ events' = events /\ Launch(InitialBatch, 0, {})
  BY DEF Start, IInv, IdleAtTheEnds
<1>2. Unreported = {}
  BY <1>1, UnreportedAttempted
<1>3. DOMAIN events = {}
  BY <1>2 DEF IInv, Channel, EventsOfUnreported
<1>4. \A i \in Logs : goroutine[i].at = "none" /\ goroutine'[i].at \in {"none", "select"}
  BY <1>1 DEF IInv, Channel, AttemptedMeansStarted, Launch, Started
<1>5. DOMAIN events' = {} /\ \A i \in Logs : goroutine'[i].at # "sendTryNext"
  BY <1>1, <1>3, <1>4
<1>6. \A i \in Logs : ~TryNextPending(i)'
  BY <1>5 DEF TryNextPending
<1> QED
  BY <1>1, <1>5, <1>6 DEF TryNextOnce

---------------------------------------------------------------------------
(***************************************************************************)
(* How many logs are launched.                                             *)
(***************************************************************************)

\* The request's numbers, the strategy's members, and the logs that may be contacted.
LEMMA Arguments ==
  ASSUME TypeOK
  PROVE  /\ sr \in SubmissionRequest /\ sr.SCTs \in Nat \ {0} /\ sr.Operators \in Nat \ {0}
         /\ sr.Operators <= sr.SCTs
         /\ DOMAIN strategy = Logs
         /\ \A i \in Logs : strategy[i] \in StrategyMember(OperatorNames)
         /\ eligible \subseteq Logs /\ Logs = 1..NumLogs /\ NumLogs \in Nat
<1>1. sr \in SubmissionRequest /\ sr.Operators <= sr.SCTs
  BY SubmitAssumption DEF TypeOK
<1>2. strategy \in [1..NumLogs -> StrategyMember(OperatorNames)]
  BY SubmitAssumption DEF TypeOK
<1> QED
  BY <1>1, <1>2, SubmitAssumption DEF SubmissionRequest, eligible, Logs

\* startNextEligible contacts one log, or none because none would help.
LEMMA NextEligibleIsOne ==
  ASSUME TypeOK, NEW newQs, NEW normal
  PROVE  \/ /\ NextEligible(newQs, normal) = {}
            /\ \A i \in eligible \ attempted : ~wouldHelp(newQs, sr, strategy[i], strategy, normal)
         \/ \E i \in eligible \ attempted : NextEligible(newQs, normal) = {i}
<1> DEFINE helpful == {i \in Unattempted : wouldHelp(newQs, sr, strategy[i], strategy, normal)}
<1>1. PICK needed \in SUBSET helpful :
        NextEligible(newQs, normal) = IF needed # {} THEN Least(needed) ELSE Least(helpful)
  BY DEF NextEligible, OfLogType
<1>2. helpful \in SUBSET Nat /\ helpful \subseteq eligible \ attempted
  BY Arguments DEF Unattempted
<1>3. helpful = {} => \A i \in eligible \ attempted : ~wouldHelp(newQs, sr, strategy[i], strategy, normal)
  BY DEF Unattempted
<1> HIDE DEF helpful
<1>4. CASE needed # {}
  <2>1. PICK i \in needed : Least(needed) = {i}
    BY <1>1, <1>2, <1>4, OneLeast
  <2> QED
    BY <1>1, <1>2, <1>4, <2>1
<1>5. CASE needed = {}
  <2>1. \/ helpful = {} /\ Least(helpful) = {}
        \/ \E i \in helpful : Least(helpful) = {i}
    BY <1>2, OneLeast
  <2> QED
    BY <1>1, <1>2, <1>3, <1>5, <2>1
<1> QED
  BY <1>4, <1>5

\* The initial batch is not empty, and no larger than the number of SCTs asked for.
LEMMA InitialBatchSize ==
  ASSUME TypeOK, eligible # {}
  PROVE  InitialBatch # {} /\ Cardinality(InitialBatch) <= sr.SCTs
<1> DEFINE size == IF sr.SCTs > Cardinality(eligible) THEN Cardinality(eligible) ELSE sr.SCTs
           rfc6962 == IF sr.RequireAtLeastOneRFC6962SCT
                      THEN Least(OfLogType(eligible, "LOGTYPE_RFC6962")) ELSE {}
           typed == IF sr.PreferAtLeastOneStaticSCT /\ Cardinality(rfc6962) < size
                    THEN rfc6962 \cup Least(OfLogType(eligible, "LOGTYPE_STATIC")) ELSE rfc6962
           others == eligible \ typed
           batch == typed \cup
             {i \in others : Cardinality(typed) + Cardinality({j \in others : j < i}) < size}
<1>1. InitialBatch = batch
  BY DEF InitialBatch
<1>2. /\ sr.SCTs \in Nat \ {0} /\ eligible \in SUBSET (1..NumLogs) /\ NumLogs \in Nat
      /\ eligible \in SUBSET Logs
  BY Arguments
<1>3. size \in Nat \ {0} /\ size <= sr.SCTs
  <2>1. Cardinality(eligible) \in Nat /\ Cardinality(eligible) # 0
    BY <1>2, LogsFinite, FS_EmptySet
  <2> QED
    BY <1>2, <2>1
<1> HIDE DEF size
<1>4. ASSUME NEW type
      PROVE  /\ Least(OfLogType(eligible, type)) \subseteq eligible
             /\ \/ Least(OfLogType(eligible, type)) = {}
                \/ \E x \in eligible : Least(OfLogType(eligible, type)) = {x}
  <2>1. OfLogType(eligible, type) \subseteq eligible
    BY DEF OfLogType
  <2>2. \A i \in eligible : i \in Nat
    BY <1>2
  <2>3. OfLogType(eligible, type) \in SUBSET Nat
    BY <2>1, <2>2
  <2> QED
    BY <2>1, <2>3, OneLeast
<1>5. /\ rfc6962 \subseteq eligible /\ IsFiniteSet(rfc6962)
      /\ Cardinality(rfc6962) \in Nat /\ Cardinality(rfc6962) <= 1
  <2>1. rfc6962 = {} \/ \E x \in eligible : rfc6962 = {x}
    BY <1>4
  <2> HIDE DEF rfc6962
  <2>2. CASE rfc6962 = {}
    BY <2>2, FS_EmptySet
  <2>3. CASE \E x \in eligible : rfc6962 = {x}
    <3>1. PICK x \in eligible : rfc6962 = {x}
      BY <2>3
    <3>2. IsFiniteSet({x}) /\ Cardinality({x}) = 1
      BY FS_Singleton
    <3> QED
      BY <3>1, <3>2
  <2> QED
    BY <2>1, <2>2, <2>3
<1>6. typed \subseteq eligible /\ Cardinality(typed) <= size
  <2> DEFINE static == Least(OfLogType(eligible, "LOGTYPE_STATIC"))
  <2>1. static = {} \/ \E x \in eligible : static = {x}
    BY <1>4
  <2>2. typed = rfc6962 \/ (typed = rfc6962 \cup static /\ Cardinality(rfc6962) < size)
    OBVIOUS
  <2> HIDE DEF static, typed, rfc6962
  <2>3. CASE typed = rfc6962
    BY <1>3, <1>5, <2>3
  <2>4. CASE typed = rfc6962 \cup static /\ Cardinality(rfc6962) < size
    <3>1. CASE static = {}
      BY <1>3, <1>5, <2>4, <3>1
    <3>2. CASE \E x \in eligible : static = {x}
      <4>1. PICK x \in eligible : static = {x}
        BY <3>2
      <4>2. Cardinality(typed) \in {Cardinality(rfc6962), Cardinality(rfc6962) + 1}
        BY <1>5, <2>4, <4>1, FS_AddElement
      <4> QED
        BY <1>3, <1>5, <2>4, <4>1, <4>2
    <3> QED
      BY <2>1, <3>1, <3>2
  <2> QED
    BY <2>2, <2>3, <2>4
<1> HIDE DEF typed, rfc6962
<1>7. /\ Cardinality(batch) <= size
      /\ batch = typed \cup others \/ Cardinality(batch) = size
  <2>1. /\ typed \in SUBSET (1..NumLogs) /\ others \in SUBSET (1..NumLogs)
        /\ typed \cap others = {}
    BY <1>2, <1>6
  <2> HIDE DEF others
  <2> QED
    BY <1>2, <1>3, <1>6, <2>1, FillUp
<1>8. batch # {}
  <2>1. Cardinality({}) = 0
    BY FS_EmptySet
  <2>2. batch = {} => Cardinality(batch) = 0
    BY <2>1
  <2>3. typed \cup others = eligible
    BY <1>6
  <2> HIDE DEF batch, others
  <2> QED
    BY <1>3, <1>7, <2>2, <2>3
<1>9. Cardinality(batch) \in Nat
  <2>1. batch \in SUBSET Logs
    BY <1>2, <1>6
  <2> HIDE DEF batch
  <2> QED
    BY <2>1, LogsFinite
<1> HIDE DEF batch
<1> QED
  BY <1>1, <1>2, <1>3, <1>7, <1>8, <1>9

\* The receptions of a final event launch one log if nothing else is in flight, else none.
LEMMA FinalReception ==
  ASSUME TypeOK, ReceiveSuccess \/ ReceiveFailure
  PROVE  /\ phase = "loop" /\ phase' \in {"loop", "drain quorum"} /\ sr' = sr
         /\ Oldest.eventType \in FinalEvents
         /\ \E types : Receive(types)
         /\ slowInFlightIndices' = slowInFlightIndices \ {Oldest.strategyIdx}
         /\ \E S \in SUBSET (eligible \ attempted) :
              /\ Launch(S, inFlight - 1, inFlightIndices \ {Oldest.strategyIdx})
              /\ S = {} \/ (inFlight = 1 /\ \E i \in eligible \ attempted : S = {i})
<1> DEFINE normal == inFlightIndices \ {Oldest.strategyIdx}
<1>1. /\ phase = "loop" /\ phase' \in {"loop", "drain quorum"} /\ sr' = sr
      /\ \E types : Receive(types)
      /\ slowInFlightIndices' = slowInFlightIndices \ {Oldest.strategyIdx}
  BY DEF ReceiveSuccess, ReceiveFailure
<1>2. Oldest.eventType \in FinalEvents
  BY DEF ReceiveSuccess, ReceiveFailure, Receive, FinalEvents
<1>3. \/ Launch({}, inFlight - 1, normal)
      \/ \E newQs : Launch(IF inFlight = 1 THEN NextEligible(newQs, normal) ELSE {},
                           inFlight - 1, normal)
  BY DEF ReceiveSuccess, ReceiveFailure
<1>4. \E S \in SUBSET (eligible \ attempted) :
        /\ Launch(S, inFlight - 1, normal)
        /\ S = {} \/ (inFlight = 1 /\ \E i \in eligible \ attempted : S = {i})
  <2>1. CASE Launch({}, inFlight - 1, normal)
    BY <2>1
  <2>2. CASE \E newQs : Launch(IF inFlight = 1 THEN NextEligible(newQs, normal) ELSE {},
                               inFlight - 1, normal)
    <3>1. PICK newQs : Launch(IF inFlight = 1 THEN NextEligible(newQs, normal) ELSE {},
                              inFlight - 1, normal)
      BY <2>2
    <3>2. CASE inFlight = 1
      <4>1. \/ NextEligible(newQs, normal) = {}
            \/ \E i \in eligible \ attempted : NextEligible(newQs, normal) = {i}
        BY NextEligibleIsOne
      <4>2. Launch(NextEligible(newQs, normal), inFlight - 1, normal)
        BY <3>1, <3>2
      <4> QED
        BY <3>2, <4>1, <4>2
    <3>3. CASE inFlight # 1
      <4>1. Launch({}, inFlight - 1, normal)
        BY <3>1, <3>3
      <4> QED
        BY <4>1
    <3> QED
      BY <3>2, <3>3
  <2> QED
    BY <1>3, <2>1, <2>2
<1> QED
  BY <1>1, <1>2, <1>4

\* When the only submission in flight reports, no normal one is left.
LEMMA LastInFlight ==
  ASSUME IInv, phase = "loop", inFlight = 1, NEW i \in Unreported
  PROVE  inFlightIndices \ {i} = {} /\ Unreported = {i}
<1>1. IsFiniteSet(Unreported) /\ Cardinality(Unreported) = 1
  BY UnreportedAttempted, LogsFinite DEF IInv, InFlightAccounting
<1>2. PICK x : Unreported = {x}
  BY <1>1, FS_Singleton
<1>3. inFlightIndices \subseteq Unreported
  BY DEF IInv, InFlightAccounting
<1> QED
  BY <1>2, <1>3

\* Every step keeps the pace: a log is slow once, and the normal submissions do not
\* outnumber the SCTs asked for.
Pace == TryNextOnce /\ BoundedConcurrency

LEMMA PaceStep == IInv /\ Pace /\ [Next]_vars => Pace'
<1> SUFFICES ASSUME IInv, TryNextOnce, BoundedConcurrency, [Next]_vars
             PROVE  TryNextOnce' /\ BoundedConcurrency'
  BY DEF Pace
<1>0. /\ TypeOK /\ Channel /\ inFlightIndices \subseteq Logs
      /\ IsFiniteSet(inFlightIndices) /\ Cardinality(inFlightIndices) \in Nat
      /\ eligible \subseteq Logs /\ sr.SCTs \in Nat \ {0}
  <2>1. TypeOK /\ Channel /\ inFlightIndices \subseteq Logs
    BY DEF IInv, TypeOK
  <2> QED
    BY <2>1, Arguments, LogsFinite
<1>1. CASE Start
  <2>1. /\ inFlightIndices' = {} \cup InitialBatch /\ sr' = sr /\ eligible # {}
    BY <1>1 DEF Start, Launch
  <2>2. inFlightIndices' = InitialBatch /\ Cardinality(InitialBatch) <= sr.SCTs
    BY <1>0, <2>1, InitialBatchSize
  <2>3. BoundedConcurrency'
    BY <2>1, <2>2 DEF BoundedConcurrency
  <2> QED
    BY <1>1, <2>3, StartTryNextOnce
<1>2. CASE ReceiveSuccess \/ ReceiveFailure
  <2> DEFINE idx == Oldest.strategyIdx
             normal == inFlightIndices \ {idx}
  <2>1. /\ phase = "loop" /\ phase' \in {"loop", "drain quorum"} /\ sr' = sr
        /\ Oldest.eventType \in FinalEvents
        /\ \E types : Receive(types)
        /\ slowInFlightIndices' = slowInFlightIndices \ {idx}
    BY <1>0, <1>2, FinalReception
  <2>2. PICK S \in SUBSET (eligible \ attempted) :
          /\ Launch(S, inFlight - 1, normal)
          /\ S = {} \/ (inFlight = 1 /\ \E i \in eligible \ attempted : S = {i})
    BY <1>0, <1>2, FinalReception
  <2>3. PICK types : Receive(types)
    BY <2>1
  <2>4. S \in SUBSET (Logs \ attempted) /\ inFlightIndices' = normal \cup S
        /\ goroutine' = [i \in Logs |-> IF i \in S THEN Started ELSE goroutine[i]]
    BY <1>0, <2>2 DEF Launch
  <2>5. TryNextOnce'
    BY <2>1, <2>3, <2>4, ReceiveTryNextOnce
  <2>6. idx \in Unreported
    <3>1. events # <<>>
      BY <2>3 DEF Receive
    <3> QED
      BY <1>0, <3>1, OldestEvent DEF Channel, EventsOfUnreported
  <2>7. Cardinality(inFlightIndices') <= sr.SCTs
    <3>1. CASE S = {}
      <4>1. inFlightIndices' \subseteq inFlightIndices
        BY <2>4, <3>1
      <4>2. /\ Cardinality(inFlightIndices') <= Cardinality(inFlightIndices)
            /\ Cardinality(inFlightIndices') \in Nat
        BY <1>0, <4>1, FS_Subset, FS_CardinalityType
      <4>3. Cardinality(inFlightIndices) <= sr.SCTs
        BY <2>1 DEF BoundedConcurrency
      <4> QED
        BY <1>0, <4>2, <4>3
    <3>2. CASE inFlight = 1 /\ \E i \in eligible \ attempted : S = {i}
      <4>1. PICK i : S = {i}
        BY <3>2
      <4>2. inFlightIndices' = {i}
        BY <2>1, <2>4, <2>6, <3>2, <4>1, LastInFlight
      <4>3. Cardinality({i}) = 1
        BY FS_Singleton
      <4> QED
        BY <1>0, <4>2, <4>3
    <3> QED
      BY <2>2, <3>1, <3>2
  <2> QED
    BY <2>1, <2>5, <2>7 DEF BoundedConcurrency
<1>3. CASE ReceiveTryNext
  <2> DEFINE idx == Oldest.strategyIdx
             normal == inFlightIndices \ {idx}
             S == NextEligible(qs, normal)
  <2>1. /\ phase = "loop" /\ phase' = "loop" /\ sr' = sr /\ Receive({"eventTryNext"})
        /\ Oldest.eventType = "eventTryNext" /\ events # <<>>
        /\ slowInFlightIndices' = slowInFlightIndices \cup {idx}
        /\ Launch(S, inFlight, normal)
    BY <1>3 DEF ReceiveTryNext, Receive
  <2>2. S = {} \/ \E i \in eligible \ attempted : S = {i}
    BY <1>0, NextEligibleIsOne
  <2> HIDE DEF S
  <2>3. S \in SUBSET (Logs \ attempted) /\ inFlightIndices' = normal \cup S
        /\ goroutine' = [i \in Logs |-> IF i \in S THEN Started ELSE goroutine[i]]
    BY <1>0, <2>1, <2>2 DEF Launch
  <2>4. TryNextOnce'
    BY <2>1, <2>3, ReceiveTryNextOnce
  <2>5. idx \in inFlightIndices
    <3>1. IsTryNext(1, idx) /\ 1 \in DOMAIN events /\ idx \in Unreported
      BY <1>0, <2>1, OldestEvent DEF IsTryNext, Channel, EventsOfUnreported
    <3>2. TryNextPending(idx)
      BY <3>1 DEF TryNextPending
    <3>3. idx \notin slowInFlightIndices
      BY <2>1, <3>2 DEF TryNextOnce
    <3> QED
      BY <2>1, <3>1, <3>3 DEF IInv, InFlightAccounting
  <2>6. IsFiniteSet(normal) /\ Cardinality(normal) = Cardinality(inFlightIndices) - 1
    BY <1>0, <2>5, FS_RemoveElement
  <2>7. Cardinality(inFlightIndices') \in {Cardinality(normal), Cardinality(normal) + 1}
    <3>1. CASE S = {}
      <4>1. inFlightIndices' = normal
        BY <2>3, <3>1
      <4> QED
        BY <4>1
    <3>2. CASE \E i \in eligible \ attempted : S = {i}
      <4>1. PICK i : S = {i}
        BY <3>2
      <4> HIDE DEF normal
      <4>2. inFlightIndices' = normal \cup {i}
        BY <2>3, <4>1
      <4>3. Cardinality(normal \cup {i}) \in {Cardinality(normal), Cardinality(normal) + 1}
        BY <2>6, FS_AddElement
      <4> QED
        BY <4>2, <4>3
    <3> QED
      BY <2>2, <3>1, <3>2
  <2>8. Cardinality(inFlightIndices) <= sr.SCTs
    BY <2>1 DEF BoundedConcurrency
  <2>9. Cardinality(inFlightIndices') <= sr.SCTs
    BY <1>0, <2>6, <2>7, <2>8
  <2> QED
    BY <2>1, <2>4, <2>9 DEF BoundedConcurrency
<1>4. CASE ReceiveSlow \/ DrainAfterQuorum \/ DrainAfterContext
  <2>1. PICK types : Receive(types)
    BY <1>4 DEF ReceiveSlow, DrainAfterQuorum, DrainAfterContext, DrainEvent
  <2>2. /\ goroutine' = goroutine /\ slowInFlightIndices' = slowInFlightIndices
        /\ phase' = phase /\ sr' = sr /\ inFlightIndices' = inFlightIndices
        /\ phase' \in {"start", "loop"} => phase = "loop"
    BY <1>4 DEF ReceiveSlow, DrainAfterQuorum, DrainAfterContext, coordinatorVars
  <2>3. goroutine' = [i \in Logs |-> IF i \in {} THEN Started ELSE goroutine[i]]
    BY <1>0, <2>2 DEF TypeOK
  <2>4. {} \in SUBSET (Logs \ attempted)
    OBVIOUS
  <2>5. slowInFlightIndices' \subseteq slowInFlightIndices \cup
          (IF Oldest.eventType = "eventTryNext" THEN {Oldest.strategyIdx} ELSE {})
    BY <2>2
  <2>6. TryNextOnce'
    BY <2>1, <2>2, <2>3, <2>4, <2>5, ReceiveTryNextOnce
  <2> QED
    BY <2>2, <2>6 DEF BoundedConcurrency
<1>5. CASE \E i \in Logs : Goroutine(i)
  <2>1. PICK i \in Logs : Goroutine(i)
    BY <1>5
  <2>2. phase' = phase /\ sr' = sr /\ inFlightIndices' = inFlightIndices
    BY <2>1 DEF Goroutine, TimerFires, FinishRequest, Send, coordinatorVars
  <2>3. BoundedConcurrency'
    BY <2>2 DEF BoundedConcurrency
  <2> QED
    BY <2>1, <2>3, GoroutineTryNextOnce
<1>6. CASE /\ UNCHANGED <<events, goroutine, slowInFlightIndices, inFlightIndices, sr>>
           /\ phase' \in {"start", "loop"} => phase' = phase
  BY <1>6, QuietTryNextOnce DEF BoundedConcurrency
<1>7. \/ Start \/ ReceiveSuccess \/ ReceiveFailure \/ ReceiveTryNext
      \/ ReceiveSlow \/ DrainAfterQuorum \/ DrainAfterContext
      \/ (\E i \in Logs : Goroutine(i))
      \/ /\ UNCHANGED <<events, goroutine, slowInFlightIndices, inFlightIndices, sr>>
         /\ phase' \in {"start", "loop"} => phase' = phase
  BY DEF Next, Coordinator, StartFails, NoticeContext, ReturnQuorum, ReturnNoQuorum,
     ReturnContext, Return, EndContext, Terminated, vars, coordinatorVars
<1> QED
  BY <1>1, <1>2, <1>3, <1>4, <1>5, <1>6, <1>7

\* The bounds hold before the first step.
LEMMA PaceInit == Init => Pace /\ EventsTell
<1> SUFFICES ASSUME Init PROVE Pace /\ EventsTell
  OBVIOUS
<1>1. /\ events = <<>> /\ phase = "start" /\ slowInFlightIndices = {}
      /\ \A i \in Logs : goroutine[i].at = "none"
  BY DEF Init, NoGoroutine
<1>2. DOMAIN events = {}
  BY <1>1
<1> QED
  BY <1>1, <1>2 DEF Pace, TryNextOnce, TryNextPending, BoundedConcurrency, EventsTell

---------------------------------------------------------------------------
(***************************************************************************)
(* What the coordinator knows of the answers, phase by phase.              *)
(***************************************************************************)

\* The logs whose answer the loop has judged.
Answered == {i \in Logs : outcome[i] \in {"successful", "doesn't help quorum"}}

\* Exactly the logs of a set have an Outcome.
MarkedLogs(marked) ==
  \A i \in Logs : outcome[i] # "not attempted" /\ (outcome[i] # "" <=> i \in marked)

\* Exactly the logs whose SCT was kept are marked successful.
GotMarked == \A i \in Logs : outcome[i] = "successful" <=> i \in GotLogs(qs)

BooksKept ==
  /\ Bookkeeping(qs, strategy)
  /\ GotLogs(qs) \subseteq attempted
  /\ attempted \subseteq eligible

\* The loop marks the logs that have reported, and has weighed their answers.
LoopOutcomes ==
  phase \in {"start", "loop"} =>
    /\ MarkedLogs(attempted \ Unreported)
    /\ GotMarked
    /\ Weighed(qs, sr, strategy, Answered)

\* From the quorum on, every contacted log is marked.
QuorumOutcomes ==
  phase = "drain quorum" => isQuorumMet(qs, sr) /\ MarkedLogs(attempted) /\ GotMarked

\* The drain after the context goes on marking the logs that report.
ContextOutcomes ==
  phase = "drain context" => ctxDone /\ MarkedLogs(attempted \ Unreported)

\* The loop is left with nothing in flight only if no other log would help.
NothingHelps ==
  phase = "loop" /\ inFlight = 0 =>
    \A i \in eligible \ attempted : ~wouldHelp(qs, sr, strategy[i], strategy, {})

\* Between the first launch and the return, logs were contacted and no reply is given.
Underway ==
  /\ phase \in {"loop", "drain quorum", "drain context"} => attempted # {}
  /\ reply.status = "pending" <=> phase # "returned"

\* What is granted is what the trim leaves of a quorum.
ReplyIsTrimmed ==
  reply.status = "granted" => isQuorumMet(qs, sr) /\ reply.scts = Trimmed

Answers ==
  /\ EventsTell /\ BooksKept
  /\ LoopOutcomes /\ QuorumOutcomes /\ ContextOutcomes
  /\ NothingHelps /\ Underway
  /\ ReplyIsTrimmed /\ ReplyIsCompliant /\ OutcomesMatchReply

LEMMA AnswersInit == Init => Answers
<1> SUFFICES ASSUME Init PROVE Answers
  OBVIOUS
<1>1. /\ phase = "start" /\ attempted = {} /\ qs = newQuorumState
      /\ reply.status = "pending" /\ outcome = [i \in Logs |-> ""]
  BY DEF Init
<1>2. /\ qs.got = <<>> /\ DOMAIN qs.got = {} /\ GotLogs(qs) = {}
      /\ qs.operators = {} /\ ~qs.hasRFC6962SCT /\ ~qs.hasStaticSCT
      /\ qs.hasRFC6962SCT \in BOOLEAN /\ qs.hasStaticSCT \in BOOLEAN
  <2>1. /\ qs.got = <<>> /\ qs.operators = {}
        /\ qs.hasRFC6962SCT = FALSE /\ qs.hasStaticSCT = FALSE
    BY <1>1 DEF newQuorumState
  <2>2. DOMAIN qs.got = {}
    BY <2>1
  <2> QED
    BY <2>1, <2>2 DEF GotLogs
<1>3. BooksKept
  <2>1. qs.got \in Seq(DOMAIN strategy)
    BY <1>2
  <2>2. qs.operators = OperatorsAt(qs, strategy, DOMAIN qs.got)
    BY <1>2 DEF OperatorsAt
  <2>3. \A type : OfType(qs, strategy, DOMAIN qs.got, type) = {}
    BY <1>2 DEF OfType
  <2>4. /\ qs.hasRFC6962SCT = (OfType(qs, strategy, DOMAIN qs.got, "LOGTYPE_RFC6962") # {})
        /\ qs.hasStaticSCT = (OfType(qs, strategy, DOMAIN qs.got, "LOGTYPE_STATIC") # {})
    BY <1>2, <2>3
  <2> QED
    BY <1>1, <1>2, <2>1, <2>2, <2>4 DEF BooksKept, Bookkeeping
<1>4. Answered = {}
  BY <1>1 DEF Answered
<1>5. Weighed(qs, sr, strategy, Answered)
  BY <1>2, <1>4 DEF Weighed
<1>6. LoopOutcomes
  BY <1>1, <1>2, <1>5 DEF LoopOutcomes, MarkedLogs, GotMarked
<1> QED
  BY <1>1, <1>3, <1>6, PaceInit DEF Answers, QuorumOutcomes, ContextOutcomes, NothingHelps,
     Underway, ReplyIsTrimmed, ReplyIsCompliant, OutcomesMatchReply

\* When a log has reported, it is the one more that has.
LEMMA OneMoreReported ==
  ASSUME IInv, BooksKept, ReceiveSuccess \/ ReceiveFailure
  PROVE  LET idx == Oldest.strategyIdx
         IN  /\ idx \in Unreported /\ idx \in Logs /\ idx \in attempted
             /\ attempted \subseteq attempted' /\ attempted' \subseteq eligible
             /\ attempted' \ Unreported' = (attempted \ Unreported) \cup {idx}
             /\ Unreported \subseteq attempted
             /\ inFlightIndices \cup slowInFlightIndices = Unreported
<1> DEFINE idx == Oldest.strategyIdx
<1>1. /\ TypeOK /\ Channel /\ InFlightAccounting /\ phase = "loop"
  BY FinalReception DEF IInv
<1>2. PICK S \in SUBSET (eligible \ attempted) :
        Launch(S, inFlight - 1, inFlightIndices \ {idx})
  BY <1>1, FinalReception
<1>3. PICK types : Receive(types)
  BY <1>1, FinalReception
<1>4. Oldest.eventType \in FinalEvents
  BY <1>1, FinalReception
<1>5. S \in SUBSET (Logs \ attempted)
  BY <1>1, <1>2, Arguments
<1>6. idx \in Unreported /\ Unreported' = (Unreported \ {idx}) \cup S
  BY <1>1, <1>2, <1>3, <1>4, <1>5, ReceiveAccounting
<1>7. attempted' = attempted \cup S
  BY <1>2 DEF Launch
<1>8. Unreported \subseteq attempted /\ Unreported \subseteq Logs
  BY UnreportedAttempted
<1>9. inFlightIndices \cup slowInFlightIndices = Unreported
  BY <1>1 DEF InFlightAccounting
<1> HIDE DEF idx
<1>10. attempted \subseteq eligible
  BY DEF BooksKept
<1> QED
  BY <1>2, <1>6, <1>7, <1>8, <1>9, <1>10 DEF idx

\* A loop that launches nothing for its last submission has found nothing that helps.
LEMMA NothingLeftToTry ==
  ASSUME IInv, phase = "loop", NEW i \in Unreported, NEW newQs,
         NEW normal, normal = inFlightIndices \ {i},
         Launch(IF inFlight = 1 THEN NextEligible(newQs, normal) ELSE {}, inFlight - 1, normal),
         inFlight' = 0
  PROVE  \A j \in eligible \ attempted' : ~wouldHelp(newQs, sr, strategy[j], strategy, {})
<1>1. inFlight \in Nat /\ inFlight # 0 /\ TypeOK
  <2>1. IsFiniteSet(Unreported) /\ Cardinality(Unreported) = inFlight
    BY UnreportedAttempted, LogsFinite DEF IInv, InFlightAccounting
  <2> QED
    BY <2>1, FS_EmptySet DEF IInv, TypeOK
<1>2. inFlight = 1
  <2> SUFFICES ASSUME inFlight # 1 PROVE FALSE
    OBVIOUS
  <2>1. Launch({}, inFlight - 1, normal)
    OBVIOUS
  <2>2. inFlight' = inFlight - 1
    BY <1>1, <2>1, FS_EmptySet DEF Launch
  <2> QED
    BY <1>1, <2>2
<1>3. normal = {}
  BY <1>2, LastInFlight
<1>4. Launch(NextEligible(newQs, normal), inFlight - 1, normal)
  BY <1>2
<1>5. CASE /\ NextEligible(newQs, normal) = {}
           /\ \A j \in eligible \ attempted : ~wouldHelp(newQs, sr, strategy[j], strategy, normal)
  <2>1. attempted' = attempted
    BY <1>4, <1>5 DEF Launch
  <2> QED
    BY <1>3, <1>5, <2>1
<1>6. CASE \E j \in eligible \ attempted : NextEligible(newQs, normal) = {j}
  <2>1. PICK j : NextEligible(newQs, normal) = {j}
    BY <1>6
  <2>2. Launch({j}, inFlight - 1, normal)
    BY <1>4, <2>1
  <2>3. inFlight' = inFlight - 1 + Cardinality({j})
    BY <2>2 DEF Launch
  <2>4. Cardinality({j}) = 1
    BY FS_Singleton
  <2> QED
    BY <1>1, <2>3, <2>4
<1> QED
  BY <1>1, <1>5, <1>6, NextEligibleIsOne

\* A success is of a log that was contacted and not accepted yet; it is accepted if it
\* helps.
LEMMA SuccessAccepts ==
  ASSUME IInv, Answers, ReceiveSuccess
  PROVE  LET idx   == Oldest.strategyIdx
             helps == helpsQuorum(qs, sr, strategy[idx])
             newQs == IF helps THEN addSuccess(qs, strategy, idx) ELSE qs
         IN  /\ idx \in attempted \ GotLogs(qs) /\ outcome[idx] = ""
             /\ qs' = newQs
             /\ Bookkeeping(newQs, strategy)
             /\ GotLogs(newQs) = IF helps THEN GotLogs(qs) \cup {idx} ELSE GotLogs(qs)
<1> DEFINE idx    == Oldest.strategyIdx
           helps  == helpsQuorum(qs, sr, strategy[idx])
           newQs  == IF helps THEN addSuccess(qs, strategy, idx) ELSE qs
<1>1. idx \in Unreported /\ idx \in Logs /\ idx \in attempted
  BY OneMoreReported DEF Answers
<1>2. phase = "loop" /\ qs' = newQs
  BY DEF ReceiveSuccess
<1>3. DOMAIN strategy = Logs
  BY Arguments DEF IInv
<1>4. MarkedLogs(attempted \ Unreported) /\ GotMarked /\ Bookkeeping(qs, strategy)
  BY <1>2 DEF Answers, LoopOutcomes, BooksKept
<1>5. outcome[idx] = "" /\ idx \notin GotLogs(qs)
  <2>1. outcome[idx] = ""
    BY <1>1, <1>4 DEF MarkedLogs
  <2> QED
    BY <1>1, <1>4, <2>1 DEF GotMarked
<1>6. /\ Bookkeeping(newQs, strategy)
      /\ GotLogs(newQs) = IF helps THEN GotLogs(qs) \cup {idx} ELSE GotLogs(qs)
  <2>1. CASE helps
    <3>1. newQs = addSuccess(qs, strategy, idx)
      BY <2>1
    <3>2. qs.got \in Seq(DOMAIN strategy) /\ idx \in DOMAIN strategy
      BY <1>1, <1>3, <1>4 DEF Bookkeeping
    <3> HIDE DEF newQs, helps, idx
    <3>3. GotLogs(newQs) = GotLogs(qs) \cup {idx}
      BY <3>1, <3>2, AddedSuccess
    <3>4. Bookkeeping(newQs, strategy)
      BY <1>4, <1>5, <3>1, <3>2, AddKeepsBooks
    <3> QED
      BY <2>1, <3>3, <3>4
  <2>2. CASE ~helps
    BY <1>4, <2>2
  <2> QED
    BY <2>1, <2>2
<1> QED
  BY <1>1, <1>2, <1>5, <1>6

\* A success is weighed with the answers before it, and marked for what it was worth.
LEMMA SuccessAnswers ==
  ASSUME IInv, IInv', Answers, ReceiveSuccess
  PROVE  BooksKept' /\ LoopOutcomes' /\ QuorumOutcomes' /\ ContextOutcomes' /\ NothingHelps'
<1> DEFINE idx    == Oldest.strategyIdx
           helps  == helpsQuorum(qs, sr, strategy[idx])
           newQs  == IF helps THEN addSuccess(qs, strategy, idx) ELSE qs
           answer == IF helps THEN "successful" ELSE "doesn't help quorum"
           mark   == [outcome EXCEPT ![idx] = answer]
           normal == inFlightIndices \ {idx}
           slow   == slowInFlightIndices \ {idx}
           reported == attempted \ Unreported
<1>1. /\ idx \in Unreported /\ idx \in Logs /\ idx \in attempted
      /\ attempted \subseteq attempted' /\ attempted' \subseteq eligible
      /\ attempted' \ Unreported' = reported \cup {idx}
      /\ Unreported \subseteq attempted
      /\ inFlightIndices \cup slowInFlightIndices = Unreported
  BY OneMoreReported DEF Answers
<1>2. /\ phase = "loop" /\ Receive({"eventSuccess"}) /\ qs' = newQs
      /\ UNCHANGED <<sr, strategy, ctxDone>>
  BY DEF ReceiveSuccess
<1>3. /\ TypeOK /\ sr \in SubmissionRequest /\ DOMAIN strategy = Logs
      /\ outcome \in [Logs -> Annotations]
  BY Arguments DEF IInv, TypeOK
<1>4. Oldest.outcome = "successful"
  <2>1. events # <<>> /\ Oldest.eventType = "eventSuccess"
    BY <1>2 DEF Receive
  <2>2. Oldest = events[1] /\ 1 \in DOMAIN events
    BY <1>3, <2>1, OldestEvent
  <2> QED
    BY <2>1, <2>2 DEF Answers, EventsTell
<1>5. \/ /\ isQuorumMet(newQs, sr) /\ phase' = "drain quorum"
         /\ outcome' = MarkCancelled(mark, normal, slow)
         /\ Launch({}, inFlight - 1, normal)
      \/ /\ phase' = "loop" /\ outcome' = mark
         /\ Launch(IF inFlight = 1 THEN NextEligible(newQs, normal) ELSE {},
                   inFlight - 1, normal)
  BY <1>2, <1>4 DEF ReceiveSuccess, QuorumNow
<1>6. /\ MarkedLogs(reported) /\ GotMarked /\ Weighed(qs, sr, strategy, Answered)
      /\ Bookkeeping(qs, strategy) /\ GotLogs(qs) \subseteq attempted
  BY <1>2 DEF Answers, LoopOutcomes, BooksKept
<1>7. outcome[idx] = "" /\ idx \notin GotLogs(qs)
  BY SuccessAccepts
<1>8. /\ Bookkeeping(newQs, strategy)
      /\ GotLogs(newQs) = IF helps THEN GotLogs(qs) \cup {idx} ELSE GotLogs(qs)
  BY SuccessAccepts
<1>9. Weighed(newQs, sr, strategy, Answered \cup {idx})
  <2>1. newQs = IF helpsQuorum(qs, sr, strategy[idx])
                THEN addSuccess(qs, strategy, idx) ELSE qs
    OBVIOUS
  <2>2. idx \in DOMAIN strategy
    BY <1>1, <1>3
  <2> HIDE DEF newQs, helps, idx
  <2> QED
    BY <1>3, <1>6, <2>1, <2>2, WeighAnswer
<1>10. BooksKept'
  <2>1. Bookkeeping(qs', strategy')
    BY <1>2, <1>8
  <2>2. GotLogs(qs') \subseteq attempted'
    BY <1>1, <1>2, <1>6, <1>8
  <2>3. eligible' = eligible
    BY <1>2 DEF eligible
  <2> QED
    BY <1>1, <2>1, <2>2, <2>3 DEF BooksKept
<1>11. /\ mark[idx] = answer /\ \A i \in Logs \ {idx} : mark[i] = outcome[i]
       /\ DOMAIN mark = Logs
  BY <1>1, <1>3
<1> HIDE DEF mark, newQs
<1>12. \A i \in Logs : mark[i] = "successful" <=> i \in GotLogs(newQs)
  BY <1>6, <1>7, <1>8, <1>11 DEF GotMarked
<1>13. \A i \in Logs : mark[i] # "not attempted" /\ (mark[i] # "" <=> i \in reported \cup {idx})
  BY <1>1, <1>6, <1>11 DEF MarkedLogs
<1>14. CASE /\ isQuorumMet(newQs, sr) /\ phase' = "drain quorum"
            /\ outcome' = MarkCancelled(mark, normal, slow)
            /\ Launch({}, inFlight - 1, normal)
  <2>1. attempted' = attempted
    BY <1>14 DEF Launch
  <2>2. \A i \in Logs : outcome'[i] = IF i \in Unreported \ {idx}
                                      THEN "cancelled (quorum met)" ELSE mark[i]
    BY <1>1, <1>14 DEF MarkCancelled
  <2>3. MarkedLogs(attempted)'
    BY <1>1, <1>13, <2>1, <2>2 DEF MarkedLogs
  <2>4. \A i \in Unreported \ {idx} : i \notin GotLogs(newQs)
    <3>1. \A i \in Unreported \ {idx} : mark[i] = ""
      BY <1>13, UnreportedAttempted
    <3> QED
      BY <1>12, <3>1, UnreportedAttempted
  <2>5. GotMarked'
    BY <1>2, <1>12, <2>2, <2>4 DEF GotMarked
  <2>6. isQuorumMet(qs', sr')
    BY <1>2, <1>14
  <2> QED
    BY <1>10, <1>14, <2>3, <2>5, <2>6 DEF LoopOutcomes, QuorumOutcomes, ContextOutcomes, NothingHelps
<1>15. CASE /\ phase' = "loop" /\ outcome' = mark
            /\ Launch(IF inFlight = 1 THEN NextEligible(newQs, normal) ELSE {},
                      inFlight - 1, normal)
  <2>1. MarkedLogs(attempted \ Unreported)'
    BY <1>1, <1>13, <1>15 DEF MarkedLogs
  <2>2. GotMarked'
    BY <1>2, <1>12, <1>15 DEF GotMarked
  <2>3. Answered' = Answered \cup {idx}
    BY <1>1, <1>11, <1>15 DEF Answered
  <2>4. Weighed(qs', sr', strategy', Answered')
    BY <1>2, <1>9, <2>3
  <2>5. LoopOutcomes'
    BY <2>1, <2>2, <2>4 DEF LoopOutcomes
  <2>6. inFlight' = 0 =>
          \A j \in eligible \ attempted' : ~wouldHelp(newQs, sr, strategy[j], strategy, {})
    <3> HIDE DEF idx
    <3>1. normal = inFlightIndices \ {idx}
      OBVIOUS
    <3> HIDE DEF normal
    <3> QED
      BY <1>1, <1>2, <1>15, <3>1, NothingLeftToTry
  <2>7. NothingHelps'
    <3>1. eligible' = eligible
      BY <1>2 DEF eligible
    <3> QED
      BY <1>2, <2>6, <3>1 DEF NothingHelps
  <2> QED
    BY <1>10, <1>15, <2>5, <2>7 DEF QuorumOutcomes, ContextOutcomes
<1> QED
  BY <1>5, <1>14, <1>15

\* A failure is marked, and leaves the weighing as it was.
LEMMA FailureAnswers ==
  ASSUME IInv, IInv', Answers, ReceiveFailure
  PROVE  BooksKept' /\ LoopOutcomes' /\ QuorumOutcomes' /\ ContextOutcomes' /\ NothingHelps'
<1> DEFINE idx    == Oldest.strategyIdx
           normal == inFlightIndices \ {idx}
           reported == attempted \ Unreported
<1>1. /\ idx \in Unreported /\ idx \in Logs /\ idx \in attempted
      /\ attempted \subseteq attempted' /\ attempted' \subseteq eligible
      /\ attempted' \ Unreported' = reported \cup {idx}
  BY OneMoreReported DEF Answers
<1>2. /\ phase = "loop" /\ Receive({"eventFailure"})
      /\ UNCHANGED <<sr, strategy, phase, ctxDone, qs>>
      /\ outcome' = [outcome EXCEPT ![idx] = Oldest.outcome]
      /\ Launch(IF inFlight = 1 THEN NextEligible(qs, normal) ELSE {}, inFlight - 1, normal)
  BY DEF ReceiveFailure
<1>3. /\ outcome \in [Logs -> Annotations]
  BY DEF IInv, TypeOK
<1>4. Oldest.outcome \in {"failed", "cancelled"}
  <2>1. events # <<>> /\ Oldest.eventType = "eventFailure"
    BY <1>2 DEF Receive
  <2>2. Oldest = events[1] /\ 1 \in DOMAIN events
    BY <2>1, OldestEvent DEF IInv
  <2> QED
    BY <2>1, <2>2 DEF Answers, EventsTell
<1>5. /\ MarkedLogs(reported) /\ GotMarked /\ Weighed(qs, sr, strategy, Answered)
      /\ Bookkeeping(qs, strategy) /\ GotLogs(qs) \subseteq attempted
  BY <1>2 DEF Answers, LoopOutcomes, BooksKept
<1>6. outcome[idx] = "" /\ idx \notin GotLogs(qs)
  <2>1. outcome[idx] = ""
    BY <1>1, <1>5 DEF MarkedLogs
  <2> QED
    BY <1>1, <1>5, <2>1 DEF GotMarked
<1>7. eligible' = eligible
  BY <1>2 DEF eligible
<1>8. outcome'[idx] \in {"failed", "cancelled"} /\ \A i \in Logs \ {idx} : outcome'[i] = outcome[i]
  BY <1>1, <1>2, <1>3, <1>4
<1>9. BooksKept'
  BY <1>1, <1>2, <1>5, <1>7 DEF BooksKept
<1>10. LoopOutcomes'
  <2>1. MarkedLogs(attempted \ Unreported)'
    BY <1>1, <1>5, <1>8 DEF MarkedLogs
  <2>2. GotMarked'
    BY <1>2, <1>5, <1>6, <1>8 DEF GotMarked
  <2>3. Answered' = Answered
    BY <1>1, <1>6, <1>8 DEF Answered
  <2> QED
    BY <1>2, <1>5, <2>1, <2>2, <2>3 DEF LoopOutcomes
<1>11. NothingHelps'
  <2>1. inFlight' = 0 =>
          \A j \in eligible \ attempted' : ~wouldHelp(qs, sr, strategy[j], strategy, {})
    <3> HIDE DEF idx
    <3>1. normal = inFlightIndices \ {idx}
      OBVIOUS
    <3> HIDE DEF normal
    <3> QED
      BY <1>1, <1>2, <3>1, NothingLeftToTry
  <2> QED
    BY <1>2, <1>7, <2>1 DEF NothingHelps
<1> QED
  BY <1>2, <1>9, <1>10, <1>11 DEF QuorumOutcomes, ContextOutcomes

\* A timer event changes nothing that was learnt, though it may start a submission.
LEMMA TimerAnswers ==
  ASSUME IInv, IInv', Answers, ReceiveTryNext \/ ReceiveSlow
  PROVE  BooksKept' /\ LoopOutcomes' /\ QuorumOutcomes' /\ ContextOutcomes' /\ NothingHelps'
<1>1. /\ TypeOK /\ Channel /\ InFlightAccounting /\ InFlightAccounting'
  BY DEF IInv
<1>2. /\ phase = "loop" /\ UNCHANGED <<sr, strategy, phase, ctxDone, qs, outcome>>
      /\ Oldest.eventType \notin FinalEvents /\ \E types : Receive(types)
  BY DEF ReceiveTryNext, ReceiveSlow, Receive, FinalEvents, coordinatorVars
<1>3. PICK S \in SUBSET (eligible \ attempted) :
        /\ attempted' = attempted \cup S
        /\ Unreported' = Unreported \cup S
        /\ Oldest.strategyIdx \in Unreported
  <2>1. CASE ReceiveTryNext
    <3> DEFINE normal == inFlightIndices \ {Oldest.strategyIdx}
    <3>1. Launch(NextEligible(qs, normal), inFlight, normal)
      BY <2>1 DEF ReceiveTryNext
    <3>2. PICK S \in SUBSET (eligible \ attempted) : Launch(S, inFlight, normal)
      BY <3>1, NextEligibleIsNew
    <3>3. S \in SUBSET (Logs \ attempted)
      BY <1>1, <3>2, Arguments
    <3>4. /\ Unreported' = Unreported \cup S /\ Oldest.strategyIdx \in Unreported
      BY <1>1, <1>2, <3>2, <3>3, ReceiveAccounting
    <3>5. attempted' = attempted \cup S
      BY <3>2 DEF Launch
    <3> QED
      BY <3>2, <3>4, <3>5
  <2>2. CASE ReceiveSlow
    <3>1. UNCHANGED <<goroutine, attempted, inFlight>>
      BY <2>2 DEF ReceiveSlow, coordinatorVars
    <3>2. Unreported' = Unreported
      BY <1>1, <1>2, <3>1, DrainAccounting
    <3>3. events # <<>>
      BY <1>2 DEF Receive
    <3>4. Oldest.strategyIdx \in Unreported
      BY <1>1, <3>3, OldestEvent DEF Channel, EventsOfUnreported
    <3>5. attempted' = attempted \cup {} /\ Unreported' = Unreported \cup {}
      BY <3>1, <3>2
    <3> QED
      BY <3>4, <3>5
  <2> QED
    BY <2>1, <2>2
<1>4. /\ attempted' \ Unreported' = attempted \ Unreported /\ eligible' = eligible
      /\ attempted \subseteq attempted'
  BY <1>2, <1>3, UnreportedAttempted DEF eligible
<1>5. BooksKept'
  BY <1>2, <1>3, <1>4 DEF Answers, BooksKept
<1>6. LoopOutcomes'
  <2>1. Answered' = Answered
    BY <1>2 DEF Answered
  <2>2. MarkedLogs(attempted \ Unreported)' /\ GotMarked'
    BY <1>2, <1>4 DEF Answers, LoopOutcomes, MarkedLogs, GotMarked
  <2> QED
    BY <1>2, <2>1, <2>2 DEF Answers, LoopOutcomes
<1>7. inFlight' # 0
  <2>1. Unreported' \in SUBSET Logs
    BY DEF Unreported
  <2>2. IsFiniteSet(Unreported') /\ inFlight' = Cardinality(Unreported') /\ Unreported' # {}
    BY <1>1, <1>3, <2>1, LogsFinite DEF InFlightAccounting
  <2> QED
    BY <2>2, FS_EmptySet
<1> QED
  BY <1>2, <1>5, <1>6, <1>7 DEF QuorumOutcomes, ContextOutcomes, NothingHelps

\* The first batch finds and leaves a clean slate.
LEMMA StartAnswers ==
  ASSUME IInv, IInv', Answers, Start
  PROVE  /\ BooksKept' /\ LoopOutcomes' /\ QuorumOutcomes' /\ ContextOutcomes' /\ NothingHelps'
         /\ attempted' = InitialBatch /\ InitialBatch # {}
<1>1. /\ phase = "start" /\ phase' = "loop" /\ Launch(InitialBatch, 0, {}) /\ eligible # {}
      /\ UNCHANGED <<sr, strategy, ctxDone, qs, slowInFlightIndices, outcome>>
  BY DEF Start
<1>2. TypeOK /\ attempted = {} /\ slowInFlightIndices = {}
  BY <1>1 DEF IInv, IdleAtTheEnds
<1>3. attempted' = InitialBatch /\ inFlightIndices' = InitialBatch
  BY <1>1, <1>2 DEF Launch
<1>4. InitialBatch # {} /\ InitialBatch \subseteq eligible
  BY <1>1, <1>2, InitialBatchSize, InitialBatchIsEligible
<1>5. Unreported' = InitialBatch /\ inFlight' = Cardinality(Unreported')
  BY <1>1, <1>2, <1>3 DEF IInv, InFlightAccounting
<1>6. eligible' = eligible
  BY <1>1 DEF eligible
<1>7. BooksKept'
  BY <1>1, <1>2, <1>3, <1>4, <1>6 DEF Answers, BooksKept
<1>8. LoopOutcomes'
  <2>1. Answered' = Answered /\ attempted' \ Unreported' = attempted \ Unreported
    BY <1>1, <1>2, <1>3, <1>5 DEF Answered
  <2>2. MarkedLogs(attempted \ Unreported)' /\ GotMarked'
    BY <1>1, <2>1 DEF Answers, LoopOutcomes, MarkedLogs, GotMarked
  <2> QED
    BY <1>1, <2>1, <2>2 DEF Answers, LoopOutcomes
<1>9. inFlight' # 0
  <2>1. Unreported' \in SUBSET Logs
    BY DEF Unreported
  <2> QED
    BY <1>4, <1>5, <2>1, LogsFinite, FS_EmptySet
<1> QED
  BY <1>1, <1>3, <1>4, <1>7, <1>8, <1>9 DEF QuorumOutcomes, ContextOutcomes, NothingHelps

\* The drains learn nothing more, except what becomes of the logs still running.
LEMMA DrainAnswers ==
  ASSUME IInv, IInv', Answers, DrainAfterQuorum \/ DrainAfterContext
  PROVE  BooksKept' /\ LoopOutcomes' /\ QuorumOutcomes' /\ ContextOutcomes' /\ NothingHelps'
<1> DEFINE idx == Oldest.strategyIdx
           final == Oldest.eventType \in FinalEvents
<1>1. /\ TypeOK /\ Channel /\ InFlightAccounting
  BY DEF IInv
<1>2. /\ phase \in {"drain quorum", "drain context"}
      /\ UNCHANGED <<sr, strategy, phase, ctxDone, qs, attempted, goroutine>>
      /\ phase = "drain quorum" => outcome' = outcome
      /\ \E types : Receive(types)
      /\ inFlight' = IF final THEN inFlight - 1 ELSE inFlight
  BY DEF DrainAfterQuorum, DrainAfterContext, DrainEvent
<1>3. Unreported' = IF final THEN Unreported \ {idx} ELSE Unreported
  BY <1>1, <1>2, DrainAccounting
<1>4. /\ Oldest \in EventRecord /\ idx \in Unreported /\ idx \in attempted /\ idx \in Logs
      /\ final => Oldest.outcome \in {"successful", "failed", "cancelled"}
  <2>1. events # <<>>
    BY <1>2 DEF Receive
  <2>2. Oldest \in EventRecord /\ Oldest = events[1] /\ 1 \in DOMAIN events
    BY <1>1, <2>1, OldestEvent
  <2>3. idx \in Unreported
    BY <1>1, <2>2 DEF Channel, EventsOfUnreported
  <2>4. final => Oldest.outcome \in {"successful", "failed", "cancelled"}
    BY <2>2 DEF Answers, EventsTell, FinalEvents
  <2> QED
    BY <2>2, <2>3, <2>4, UnreportedAttempted
<1>5. BooksKept'
  BY <1>2 DEF Answers, BooksKept, eligible
<1>6. QuorumOutcomes'
  BY <1>2 DEF Answers, QuorumOutcomes, MarkedLogs, GotMarked
<1>7. ContextOutcomes'
  <2> SUFFICES ASSUME phase = "drain context" PROVE ctxDone' /\ MarkedLogs(attempted \ Unreported)'
    BY <1>2 DEF ContextOutcomes
  <2>1. ctxDone /\ MarkedLogs(attempted \ Unreported)
    BY DEF Answers, ContextOutcomes
  <2>2. DrainAfterContext
    BY DEF DrainAfterQuorum
  <2>3. \A i \in Logs : outcome'[i] = IF i = idx /\ final /\ outcome[i] = ""
                                      THEN Oldest.outcome ELSE outcome[i]
    BY <2>2 DEF DrainAfterContext
  <2>4. outcome[idx] = ""
    BY <1>4, <2>1 DEF MarkedLogs
  <2> QED
    BY <1>2, <1>3, <1>4, <2>1, <2>3, <2>4 DEF MarkedLogs
<1> QED
  BY <1>2, <1>5, <1>6, <1>7 DEF LoopOutcomes, NothingHelps

\* Nothing is learnt while the coordinator is at rest, or only notices the context.
LEMMA QuietAnswers ==
  ASSUME IInv, Answers,
         UNCHANGED <<sr, strategy, qs, attempted, outcome, inFlight>>,
         Unreported' = Unreported, ctxDone => ctxDone',
         phase' = phase \/ NoticeContext
  PROVE  BooksKept' /\ LoopOutcomes' /\ QuorumOutcomes' /\ ContextOutcomes' /\ NothingHelps'
<1>1. eligible' = eligible /\ Answered' = Answered
  BY DEF eligible, Answered
<1>2. BooksKept'
  BY <1>1 DEF Answers, BooksKept
<1>3. \/ phase' = phase
      \/ phase' = "drain context" /\ phase = "loop" /\ ctxDone
  BY DEF NoticeContext
<1>4. LoopOutcomes'
  BY <1>1, <1>3 DEF Answers, LoopOutcomes, MarkedLogs, GotMarked
<1>5. QuorumOutcomes'
  BY <1>3 DEF Answers, QuorumOutcomes, MarkedLogs, GotMarked
<1>6. ContextOutcomes'
  BY <1>3 DEF Answers, ContextOutcomes, LoopOutcomes, MarkedLogs
<1>7. NothingHelps'
  BY <1>1, <1>3 DEF Answers, NothingHelps
<1> QED
  BY <1>2, <1>4, <1>5, <1>6, <1>7

\* What a return marks: the logs that were never contacted, and no others.
LEMMA ReturnMarks ==
  ASSUME TypeOK, attempted \subseteq eligible,
         NEW marks, \A i \in Logs : marks[i] # "not attempted" /\ (marks[i] # "" <=> i \in attempted),
         NEW status, NEW scts, Return(status, scts, marks)
  PROVE  /\ \A i \in eligible : outcome'[i] # ""
         /\ {i \in eligible : outcome'[i] = "not attempted"} = eligible \ attempted
         /\ \A i \in Logs : outcome'[i] = "successful" <=> marks[i] = "successful"
         /\ reply' = [status |-> status, scts |-> scts] /\ phase' = "returned"
         /\ UNCHANGED <<sr, strategy, qs, attempted, ctxDone>> /\ eligible' = eligible
<1>1. \A i \in Logs : outcome'[i] = IF i \in eligible /\ marks[i] = ""
                                    THEN "not attempted" ELSE marks[i]
  BY DEF Return, AnnotateUnattempted
<1>2. eligible \subseteq Logs
  BY Arguments
<1>3. {i \in eligible : outcome'[i] = "not attempted"} = eligible \ attempted
  BY <1>1, <1>2
<1>4. eligible' = eligible
  BY DEF Return, eligible
<1> QED
  BY <1>1, <1>2, <1>3, <1>4 DEF Return

\* With nothing in flight, every contacted log has reported.
LEMMA AllReported ==
  ASSUME IInv, inFlight = 0
  PROVE  Unreported = {}
BY UnreportedAttempted, LogsFinite, FS_EmptySet DEF IInv, InFlightAccounting

\* A quorum is granted with what the trim leaves of it.
LEMMA GrantAnswers ==
  ASSUME IInv, Answers, ReturnQuorum
  PROVE  /\ BooksKept' /\ ReplyIsTrimmed' /\ ReplyIsCompliant' /\ OutcomesMatchReply'
         /\ reply'.status = "granted"
         /\ Compliant(sr, strategy, Trimmed) /\ Trimmed \subseteq GotLogs(qs)
<1>1. phase = "drain quorum" /\ Return("granted", Trimmed, MarkTrimmed)
  BY DEF ReturnQuorum, IInv, LoopHasNoQuorum
<1>2. /\ TypeOK /\ isQuorumMet(qs, sr) /\ MarkedLogs(attempted) /\ GotMarked
      /\ Bookkeeping(qs, strategy) /\ GotLogs(qs) \subseteq attempted
      /\ attempted \subseteq eligible
  BY <1>1 DEF IInv, Answers, QuorumOutcomes, BooksKept
<1>3. Trimmable(qs, sr, strategy)
  BY <1>2, Arguments DEF Trimmable, StrategyMember
<1>4. Trimmed \subseteq GotLogs(qs) /\ Compliant(sr, strategy, Trimmed)
  BY <1>3, TrimIsSound DEF Trimmed
<1> DEFINE marks == MarkTrimmed
<1>5. \A i \in Logs : marks[i] = IF i \in GotLogs(qs) \ Trimmed
                                 THEN "not needed for quorum" ELSE outcome[i]
  BY DEF MarkTrimmed, GotLogs
<1>6. Return("granted", Trimmed, marks)
  BY <1>1
<1> HIDE DEF marks
<1>7. \A i \in Logs : marks[i] # "not attempted" /\ (marks[i] # "" <=> i \in attempted)
  BY <1>2, <1>5 DEF MarkedLogs
<1>8. /\ \A i \in eligible : outcome'[i] # ""
      /\ {i \in eligible : outcome'[i] = "not attempted"} = eligible \ attempted
      /\ \A i \in Logs : outcome'[i] = "successful" <=> marks[i] = "successful"
      /\ reply' = [status |-> "granted", scts |-> Trimmed] /\ phase' = "returned"
      /\ UNCHANGED <<sr, strategy, qs, attempted>> /\ eligible' = eligible
  <2> DEFINE scts == Trimmed
  <2>1. Return("granted", scts, marks)
    BY <1>6
  <2> HIDE DEF scts
  <2>2. /\ \A i \in eligible : outcome'[i] # ""
        /\ {i \in eligible : outcome'[i] = "not attempted"} = eligible \ attempted
        /\ \A i \in Logs : outcome'[i] = "successful" <=> marks[i] = "successful"
        /\ reply' = [status |-> "granted", scts |-> scts] /\ phase' = "returned"
        /\ UNCHANGED <<sr, strategy, qs, attempted>> /\ eligible' = eligible
    BY <1>2, <1>7, <2>1, ReturnMarks
  <2> QED
    BY <2>2 DEF scts
<1>9. {i \in Logs : outcome'[i] = "successful"} = Trimmed
  <2>1. GotLogs(qs) \subseteq Logs
    BY <1>2, Arguments
  <2> QED
    BY <1>2, <1>4, <1>5, <1>8, <2>1 DEF GotMarked
<1>10. BooksKept'
  BY <1>2, <1>8 DEF BooksKept
<1>11. reply'.status = "granted" /\ reply'.scts = Trimmed
  BY <1>8
<1>12. ReplyIsTrimmed'
  BY <1>2, <1>8, <1>11 DEF ReplyIsTrimmed, Trimmed
<1>13. ReplyIsCompliant'
  BY <1>2, <1>4, <1>8, <1>11 DEF ReplyIsCompliant
<1>14. OutcomesMatchReply'
  BY <1>8, <1>9, <1>11 DEF OutcomesMatchReply
<1> QED
  BY <1>4, <1>10, <1>11, <1>12, <1>13, <1>14

\* Otherwise nothing is granted, and the marks stay.
LEMMA EmptyAnswers ==
  ASSUME IInv, Answers, StartFails \/ ReturnNoQuorum \/ ReturnContext
  PROVE  /\ BooksKept' /\ ReplyIsTrimmed' /\ ReplyIsCompliant' /\ OutcomesMatchReply'
         /\ reply'.status \notin {"granted", "pending"}
<1>1. TypeOK /\ attempted \subseteq eligible
  BY DEF IInv, Answers, BooksKept
<1>2. CASE StartFails
  <2>1. /\ UNCHANGED <<sr, strategy, qs, attempted, outcome>>
        /\ attempted = {} /\ reply'.status \in {"aborted", "barren"}
    BY <1>2 DEF StartFails, IInv, IdleAtTheEnds
  <2> QED
    BY <2>1 DEF Answers, BooksKept, eligible, ReplyIsTrimmed, ReplyIsCompliant,
       OutcomesMatchReply
<1>3. CASE ReturnNoQuorum \/ ReturnContext
  <2>1. PICK status \in {"refused", "aborted"} : Return(status, {}, outcome)
    BY <1>3 DEF ReturnNoQuorum, ReturnContext
  <2>2. attempted \ Unreported = attempted
    BY <1>3, AllReported DEF ReturnNoQuorum, ReturnContext
  <2>3. MarkedLogs(attempted)
    BY <1>3, <2>2 DEF ReturnNoQuorum, ReturnContext, Answers, LoopOutcomes, ContextOutcomes
  <2>4. /\ \A i \in eligible : outcome'[i] # ""
        /\ {i \in eligible : outcome'[i] = "not attempted"} = eligible \ attempted
        /\ reply' = [status |-> status, scts |-> {}]
        /\ UNCHANGED <<sr, strategy, qs, attempted>> /\ eligible' = eligible
    <3> DEFINE marks == outcome
    <3>1. \A i \in Logs : marks[i] # "not attempted" /\ (marks[i] # "" <=> i \in attempted)
      BY <2>3 DEF MarkedLogs
    <3>2. Return(status, {}, marks)
      BY <2>1
    <3> HIDE DEF marks
    <3> QED
      BY <1>1, <3>1, <3>2, ReturnMarks
  <2>5. reply'.status = status
    BY <2>4
  <2> QED
    BY <2>4, <2>5 DEF Answers, BooksKept, ReplyIsTrimmed, ReplyIsCompliant, OutcomesMatchReply
<1> QED
  BY <1>2, <1>3

\* The end of the context, and the steps of the goroutines, concern nothing that was learnt.
LEMMA OtherAnswers ==
  ASSUME IInv, Answers,
         NoticeContext \/ EndContext \/ (\E i \in Logs : Goroutine(i)) \/ UNCHANGED vars
  PROVE  /\ BooksKept' /\ LoopOutcomes' /\ QuorumOutcomes' /\ ContextOutcomes' /\ NothingHelps'
         /\ UNCHANGED <<sr, strategy, qs, attempted, outcome, reply>>
<1>1. CASE NoticeContext \/ EndContext \/ UNCHANGED vars
  <2>1. /\ UNCHANGED <<sr, strategy, qs, attempted, outcome, inFlight, goroutine, events, reply>>
        /\ ctxDone => ctxDone'
        /\ phase' = phase \/ NoticeContext
    <3>1. CASE NoticeContext
      BY <3>1 DEF NoticeContext
    <3>2. CASE EndContext
      BY <3>2 DEF EndContext, coordinatorVars
    <3>3. CASE UNCHANGED vars
      BY <3>3 DEF vars
    <3> QED
      BY <1>1, <3>1, <3>2, <3>3
  <2>2. Unreported' = Unreported
    BY <2>1 DEF Unreported
  <2> QED
    BY <2>1, <2>2, QuietAnswers
<1>2. CASE \E i \in Logs : Goroutine(i)
  <2>1. PICK i \in Logs : Goroutine(i)
    BY <1>2
  <2>2. /\ UNCHANGED <<sr, strategy, qs, attempted, outcome, inFlight, reply>>
        /\ ctxDone => ctxDone'
        /\ phase' = phase
    BY <2>1 DEF Goroutine, TimerFires, FinishRequest, Send, coordinatorVars
  <2>3. Unreported' = Unreported
    BY <2>1, GoroutineStep
  <2> QED
    BY <2>2, <2>3, QuietAnswers
<1> QED
  BY <1>1, <1>2

\* Every step keeps what the coordinator knows, and what it answers, right.
LEMMA AnswersStep == IInv /\ IInv' /\ Answers /\ [Next]_vars => Answers'
<1> SUFFICES ASSUME IInv, IInv', Answers, [Next]_vars PROVE Answers'
  OBVIOUS
<1>1. EventsTell'
  BY EventsTellStep DEF Answers
<1>2. CASE ReturnQuorum
  <2>1. /\ BooksKept' /\ ReplyIsTrimmed' /\ ReplyIsCompliant' /\ OutcomesMatchReply'
        /\ reply'.status = "granted"
    BY <1>2, GrantAnswers
  <2>2. phase' = "returned"
    BY <1>2 DEF ReturnQuorum, Return
  <2> QED
    BY <1>1, <2>1, <2>2 DEF Answers, LoopOutcomes, QuorumOutcomes, ContextOutcomes,
       NothingHelps, Underway
<1>3. CASE StartFails \/ ReturnNoQuorum \/ ReturnContext
  <2>1. /\ BooksKept' /\ ReplyIsTrimmed' /\ ReplyIsCompliant' /\ OutcomesMatchReply'
        /\ reply'.status # "pending"
    BY <1>3, EmptyAnswers
  <2>2. phase' = "returned"
    BY <1>3 DEF StartFails, ReturnNoQuorum, ReturnContext, Return
  <2> QED
    BY <1>1, <2>1, <2>2 DEF Answers, LoopOutcomes, QuorumOutcomes, ContextOutcomes,
       NothingHelps, Underway
<1>4. CASE \/ Start \/ ReceiveSuccess \/ ReceiveFailure \/ ReceiveTryNext \/ ReceiveSlow
           \/ NoticeContext \/ DrainAfterQuorum \/ DrainAfterContext
           \/ (\E i \in Logs : Goroutine(i)) \/ EndContext \/ UNCHANGED vars
  <2>1. BooksKept' /\ LoopOutcomes' /\ QuorumOutcomes' /\ ContextOutcomes' /\ NothingHelps'
    BY <1>4, StartAnswers, SuccessAnswers, FailureAnswers, TimerAnswers, DrainAnswers,
       OtherAnswers
  <2>2. /\ reply' = reply
        /\ phase' = "returned" <=> phase = "returned"
        /\ phase = "returned" => UNCHANGED <<sr, strategy, qs, attempted, outcome>>
        /\ attempted \subseteq attempted'
        /\ phase' # "start" /\ phase = "start" => attempted' # {}
    <3>1. CASE Start
      BY <1>4, <3>1, StartAnswers DEF Start, IInv, IdleAtTheEnds
    <3>2. CASE \/ ReceiveSuccess \/ ReceiveFailure \/ ReceiveTryNext \/ ReceiveSlow
               \/ DrainAfterQuorum \/ DrainAfterContext
      BY <3>2 DEF ReceiveSuccess, ReceiveFailure, ReceiveTryNext, ReceiveSlow,
         DrainAfterQuorum, DrainAfterContext, Launch, coordinatorVars
    <3>3. CASE NoticeContext \/ EndContext \/ (\E i \in Logs : Goroutine(i)) \/ UNCHANGED vars
      <4>1. UNCHANGED <<sr, strategy, qs, attempted, outcome, reply>>
        BY <3>3, OtherAnswers
      <4>2. phase' = phase \/ (phase = "loop" /\ phase' = "drain context")
        BY <3>3 DEF NoticeContext, EndContext, Goroutine, TimerFires, FinishRequest, Send, vars,
           coordinatorVars
      <4> QED
        BY <4>1, <4>2
    <3> QED
      BY <1>4, <3>1, <3>2, <3>3
  <2>3. Underway'
    <3>1. phase \in {"start", "loop", "drain quorum", "drain context", "returned"}
      BY DEF IInv, TypeOK
    <3> QED
      BY <2>2, <3>1 DEF Answers, Underway
  <2>4. ReplyIsTrimmed' /\ ReplyIsCompliant' /\ OutcomesMatchReply'
    <3>1. CASE phase = "returned"
      BY <2>2, <3>1 DEF Answers, ReplyIsTrimmed, Trimmed, ReplyIsCompliant, OutcomesMatchReply,
         eligible
    <3>2. CASE phase # "returned"
      BY <2>2, <3>2 DEF Answers, Underway, ReplyIsTrimmed, ReplyIsCompliant, OutcomesMatchReply
    <3> QED
      BY <3>1, <3>2
  <2> QED
    BY <1>1, <2>1, <2>3, <2>4 DEF Answers
<1> QED
  BY <1>2, <1>3, <1>4 DEF Next, Coordinator, Terminated

---------------------------------------------------------------------------
(***************************************************************************)
(* The theorems about the reply.                                           *)
(***************************************************************************)

\* The submissions in flight and not past the try-next threshold never outnumber the
\* SCTs asked for.
THEOREM ConcurrencyIsBounded == Spec => []BoundedConcurrency
<1>1. Pace => BoundedConcurrency
  BY DEF Pace
<1>2. Init => Pace
  BY PaceInit
<1> QED
  BY <1>1, <1>2, InvInit, InvStep, PaceStep, PTL DEF Spec

\* A granted reply is a quorum of SCTs from different contacted logs, none excluded.
THEOREM GrantedIsCompliant == Spec => []ReplyIsCompliant
<1>1. Answers => ReplyIsCompliant
  BY DEF Answers
<1> QED
  BY <1>1, InvInit, InvStep, AnswersInit, AnswersStep, PTL DEF Spec

\* "exactly sr.SCTs" (quorum.go:89) is true of every request for two SCTs or more.
ReplyIsExactFromTwo ==
  reply.status = "granted" /\ sr.SCTs >= 2 => Cardinality(reply.scts) = sr.SCTs

\* The trim keeps a preferred static SCT if one was received (quorum.go:148-190).
ReplyPrefersStatic ==
  (/\ reply.status = "granted" /\ sr.PreferAtLeastOneStaticSCT
   /\ \E i \in GotLogs(qs) : strategy[i].LogType = "LOGTYPE_STATIC")
    => \E i \in reply.scts : strategy[i].LogType = "LOGTYPE_STATIC"

\* A granted reply holds a preferred static SCT if one was received, and where two SCTs
\* or more are asked for it is of that size: the trim exceeds it only for one.
THEOREM GrantedIsTrimmed == Spec => [](ReplyIsExactFromTwo /\ ReplyPrefersStatic)
<1>1. IInv /\ Answers => ReplyIsExactFromTwo /\ ReplyPrefersStatic
  <2> SUFFICES ASSUME IInv, Answers, reply.status = "granted"
               PROVE  ReplyIsExactFromTwo /\ ReplyPrefersStatic
    BY DEF ReplyIsExactFromTwo, ReplyPrefersStatic
  <2>1. /\ TypeOK /\ isQuorumMet(qs, sr) /\ Bookkeeping(qs, strategy)
        /\ reply.scts = trimToQuorum(qs, sr, strategy)
    BY DEF IInv, Answers, BooksKept, ReplyIsTrimmed, Trimmed
  <2>2. Trimmable(qs, sr, strategy)
    BY <2>1, Arguments DEF Trimmable, StrategyMember
  <2>3. /\ sr.PreferAtLeastOneStaticSCT /\ qs.hasStaticSCT
             => \E i \in reply.scts : strategy[i].LogType = "LOGTYPE_STATIC"
        /\ sr.SCTs >= 2 => Cardinality(reply.scts) = sr.SCTs
    BY <2>1, <2>2, TrimIsSound
  <2>4. (\E i \in GotLogs(qs) : strategy[i].LogType = "LOGTYPE_STATIC") => qs.hasStaticSCT
    BY <2>1 DEF Bookkeeping, GotLogs, OfType
  <2> QED
    BY <2>3, <2>4 DEF ReplyIsExactFromTwo, ReplyPrefersStatic
<1> QED
  BY <1>1, InvInit, InvStep, AnswersInit, AnswersStep, PTL DEF Spec

\* The Outcomes of the strategy tell of the reply, log by log.
THEOREM OutcomesAreRight == Spec => []OutcomesMatchReply
<1>1. Answers => OutcomesMatchReply
  BY DEF Answers
<1> QED
  BY <1>1, InvInit, InvStep, AnswersInit, AnswersStep, PTL DEF Spec

\* The answers received while the loop goes on, the discarded ones included, make no
\* quorum.
THEOREM NoQuorumIsMissed == Spec => []LoopMissesNoQuorum
<1>1. IInv /\ Answers => LoopMissesNoQuorum
  <2> SUFFICES ASSUME IInv, Answers, phase = "loop", Compliant(sr, strategy, Answered)
               PROVE  FALSE
    BY DEF LoopMissesNoQuorum, Answered
  <2>1. Weighed(qs, sr, strategy, Answered) /\ Bookkeeping(qs, strategy)
    BY DEF Answers, LoopOutcomes, BooksKept
  <2>2. sr \in SubmissionRequest
    BY Arguments DEF IInv
  <2>3. isQuorumMet(qs, sr)
    BY <2>1, <2>2, NothingMissed
  <2> QED
    BY <2>3 DEF IInv, LoopHasNoQuorum
<1> QED
  BY <1>1, InvInit, InvStep, AnswersInit, AnswersStep, PTL DEF Spec

---------------------------------------------------------------------------
(***************************************************************************)
(* Submit implements SubmissionService.                                    *)
(***************************************************************************)

\* Logs that would not help are of no weight.
LEMMA NobodyHelps ==
  ASSUME NEW books, NEW request \in SubmissionRequest, NEW members,
         Bookkeeping(books, members),
         NEW rest, \A i \in rest : ~wouldHelp(books, request, members[i], members, {})
  PROVE  Weighed(books, request, members, GotLogs(books) \cup rest)
<1>1. /\ Len(books.got) \in Nat
      /\ Cardinality(books.operators) \in Nat
      /\ request.SCTs \in Nat /\ request.Operators \in Nat
  BY GotCount DEF SubmissionRequest
<1>2. Cardinality({}) = 0
  BY FS_EmptySet
<1> DEFINE tally == OptimisticTally(books, members, {})
<1>3. /\ tally.scts = Len(books.got) /\ tally.operators = books.operators
      /\ books.hasRFC6962SCT => tally.rfc6962
      /\ tally.rfc6962 => books.hasRFC6962SCT
  <2>1. tally.scts = Len(books.got)
    BY <1>1, <1>2 DEF OptimisticTally
  <2>2. tally.operators = books.operators
    BY DEF OptimisticTally
  <2>3. tally.rfc6962 = (books.hasRFC6962SCT \/ FALSE)
    BY DEF OptimisticTally
  <2> QED
    BY <2>1, <2>2, <2>3
<1>4. ASSUME NEW i \in rest
      PROVE  /\ Len(books.got) >= request.SCTs
             /\ Cardinality(books.operators) >= request.Operators
                \/ members[i].Operator \in books.operators
             /\ request.RequireAtLeastOneRFC6962SCT /\ members[i].LogType = "LOGTYPE_RFC6962"
                  => books.hasRFC6962SCT
  <2>1. ~Contributes(tally, request, members[i])
    BY <1>4 DEF wouldHelp
  <2> HIDE DEF tally
  <2> QED
    BY <1>1, <1>3, <2>1 DEF Contributes
<1>5. /\ {members[i].Operator : i \in GotLogs(books)} \subseteq books.operators
      /\ \A i \in GotLogs(books) : members[i].LogType = "LOGTYPE_RFC6962" => books.hasRFC6962SCT
  BY DEF Bookkeeping, GotLogs, OperatorsAt, OfType
<1>6. \/ {members[i].Operator : i \in GotLogs(books) \cup rest} \subseteq books.operators
      \/ Cardinality(books.operators) >= request.Operators
  BY <1>4, <1>5
<1> QED
  BY <1>4, <1>5, <1>6 DEF Weighed

\* Starting the submissions to some logs, and nothing else, is a Contact or a stutter.
LEMMA LaunchContacts ==
  ASSUME Underway, phase # "returned",
         NEW S \in SUBSET (eligible \ attempted), attempted' = attempted \cup S,
         UNCHANGED <<sr, strategy, ctxDone, reply>>, GotLogs(qs)' = GotLogs(qs)
  PROVE  [Service!Next]_(Service!vars)
<1>1. CASE S = {}
  BY <1>1 DEF Service!vars, GotLogs
<1>2. CASE S # {}
  <2>1. S \in SUBSET Service!Eligible /\ Service!Contact(S)
    BY <1>2 DEF Service!Contact, Service!Pending, Service!Eligible, eligible, Underway, GotLogs
  <2> QED
    BY <2>1 DEF Service!Next
<1> QED
  BY <1>1, <1>2

\* Every step of submit() is one the service may take, or none.
LEMMA ServiceStep ==
  ASSUME IInv, IInv', Answers, [Next]_vars
  PROVE  [Service!Next]_(Service!vars)
<1>1. /\ Service!Eligible = eligible /\ Underway /\ TypeOK
      /\ \A scts : Service!Compliant(sr, strategy, scts) <=> Compliant(sr, strategy, scts)
  <2>1. \A S : Service!Cardinality(S) = Cardinality(S)
    BY DEF Service!Cardinality, Cardinality
  <2>2. \A scts : Service!Compliant(sr, strategy, scts) <=> Compliant(sr, strategy, scts)
    BY <2>1 DEF Service!Compliant, Compliant
  <2> QED
    BY <2>2 DEF Service!Eligible, eligible, Answers, IInv
<1>2. CASE Start
  <2>1. attempted' = InitialBatch /\ InitialBatch \subseteq eligible /\ attempted = {}
    BY <1>2, StartAnswers, InitialBatchIsEligible DEF Start, IInv, IdleAtTheEnds
  <2>2. InitialBatch \in SUBSET (eligible \ attempted) /\ attempted' = attempted \cup InitialBatch
    BY <2>1
  <2>3. /\ UNCHANGED <<sr, strategy, ctxDone, reply>> /\ GotLogs(qs)' = GotLogs(qs)
        /\ phase # "returned"
    BY <1>2 DEF Start, GotLogs
  <2> HIDE DEF InitialBatch
  <2> QED
    BY <1>1, <2>2, <2>3, LaunchContacts
<1>3. CASE ReceiveSuccess
  <2> DEFINE idx == Oldest.strategyIdx
  <2>1. /\ phase = "loop" /\ UNCHANGED <<sr, strategy, ctxDone, reply>>
    BY <1>3 DEF ReceiveSuccess
  <2>2. PICK S \in SUBSET (eligible \ attempted) : attempted' = attempted \cup S
    BY <1>1, <1>3, FinalReception DEF Launch
  <2>3. /\ idx \in attempted \ GotLogs(qs) /\ idx \in Logs
        /\ GotLogs(qs') = GotLogs(qs) \/ GotLogs(qs') = GotLogs(qs) \cup {idx}
    BY <1>3, SuccessAccepts, OneMoreReported DEF Answers
  <2> HIDE DEF idx
  <2>4. CASE GotLogs(qs') = GotLogs(qs)
    BY <1>1, <2>1, <2>2, <2>4, LaunchContacts
  <2>5. CASE GotLogs(qs') = GotLogs(qs) \cup {idx}
    <3>1. Service!Accept(idx, S)
      BY <1>1, <2>1, <2>2, <2>3, <2>5 DEF Service!Accept, Service!Pending, Underway, GotLogs
    <3> QED
      BY <1>1, <2>2, <2>3, <3>1 DEF Service!Next
  <2> QED
    BY <2>3, <2>4, <2>5
<1>4. CASE ReceiveFailure \/ ReceiveTryNext
  <2>1. /\ phase = "loop" /\ UNCHANGED <<sr, strategy, ctxDone, reply>>
        /\ GotLogs(qs)' = GotLogs(qs)
    BY <1>4 DEF ReceiveFailure, ReceiveTryNext, GotLogs
  <2>2. PICK S \in SUBSET (eligible \ attempted) : attempted' = attempted \cup S
    <3>1. CASE ReceiveFailure
      BY <1>1, <3>1, FinalReception DEF Launch
    <3>2. CASE ReceiveTryNext
      BY <3>2, NextEligibleIsNew DEF ReceiveTryNext, Launch
    <3> QED
      BY <1>4, <3>1, <3>2
  <2> QED
    BY <1>1, <2>1, <2>2, LaunchContacts
<1>5. CASE ReturnQuorum
  <2>1. Compliant(sr, strategy, Trimmed) /\ Trimmed \subseteq GotLogs(qs)
    BY <1>5, GrantAnswers
  <2>2. /\ phase # "returned" /\ reply' = [status |-> "granted", scts |-> Trimmed]
        /\ UNCHANGED <<sr, strategy, attempted, qs, ctxDone>>
    BY <1>5 DEF ReturnQuorum, Return
  <2> HIDE DEF Trimmed
  <2>3. Service!Grant
    BY <1>1, <2>1, <2>2 DEF Service!Grant, Service!Answer, Service!Pending, Underway, GotLogs
  <2> QED
    BY <2>3 DEF Service!Next
<1>6. CASE ReturnNoQuorum
  <2>1. /\ phase = "loop" /\ inFlight = 0 /\ ~isQuorumMet(qs, sr)
        /\ reply' = [status |-> "refused", scts |-> {}]
        /\ UNCHANGED <<sr, strategy, attempted, qs, ctxDone>>
    BY <1>6 DEF ReturnNoQuorum, Return
  <2>2. Weighed(qs, sr, strategy, GotLogs(qs) \cup (eligible \ attempted))
    BY <1>1, <2>1, Arguments, NobodyHelps DEF Answers, NothingHelps, BooksKept
  <2>3. ~Compliant(sr, strategy, GotLogs(qs) \cup (eligible \ attempted))
    BY <1>1, <2>1, <2>2, Arguments, NothingMissed DEF Answers, BooksKept
  <2>4. Service!Refuse
    BY <1>1, <2>1, <2>3 DEF Service!Refuse, Service!Answer, Service!Pending, Underway, GotLogs
  <2> QED
    BY <2>4 DEF Service!Next
<1>7. CASE StartFails \/ ReturnContext
  <2>1. /\ phase # "returned" /\ UNCHANGED <<sr, strategy, attempted, qs, ctxDone>>
        /\ \/ ctxDone /\ reply' = [status |-> "aborted", scts |-> {}]
           \/ eligible = {} /\ reply' = [status |-> "barren", scts |-> {}]
    BY <1>7 DEF StartFails, ReturnContext, Return, Answers, ContextOutcomes
  <2>2. Service!Abort \/ Service!Barren
    BY <1>1, <2>1 DEF Service!Abort, Service!Barren, Service!Answer, Service!Pending, Underway
  <2> QED
    BY <2>2 DEF Service!Next
<1>8. CASE EndContext
  <2>1. Service!EndContext
    BY <1>8 DEF EndContext, Service!EndContext, coordinatorVars
  <2> QED
    BY <2>1 DEF Service!Next
<1>9. CASE \/ ReceiveSlow \/ NoticeContext \/ DrainAfterQuorum \/ DrainAfterContext
           \/ (\E i \in Logs : Goroutine(i)) \/ UNCHANGED vars
  <2>1. UNCHANGED <<sr, strategy, attempted, qs, ctxDone, reply>>
    BY <1>9 DEF ReceiveSlow, NoticeContext, DrainAfterQuorum, DrainAfterContext, Goroutine,
       TimerFires, FinishRequest, Send, vars, coordinatorVars
  <2> QED
    BY <2>1 DEF Service!vars
<1> QED
  BY <1>2, <1>3, <1>4, <1>5, <1>6, <1>7, <1>8, <1>9 DEF Next, Coordinator, Terminated

\* submit() keeps the promises of SubmissionService: its initial states are initial states
\* of the service, and each of its steps is a step of the service or a stutter.
THEOREM SubmitImplementsService == Spec => ImplementsService
<1>1. Init => Service!Init
  <2> SUFFICES ASSUME Init PROVE Service!Init
    OBVIOUS
  <2>1. qs.got = <<>>
    BY DEF Init, newQuorumState
  <2>2. {qs.got[k] : k \in DOMAIN qs.got} = {}
    BY <2>1
  <2> QED
    BY <2>2 DEF Init, Service!Init
<1>2. IInv /\ IInv' /\ Answers /\ [Next]_vars => [Service!Next]_(Service!vars)
  BY ServiceStep
<1> QED
  BY <1>1, <1>2, InvInit, InvStep, AnswersInit, AnswersStep, PTL
     DEF Spec, ImplementsService, Service!Spec
============================================================================
