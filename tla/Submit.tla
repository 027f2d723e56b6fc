------------------------------- MODULE Submit ------------------------------
(***************************************************************************)
(* One call of submit() (submitter/orchestrate.go): a coordinator that     *)
(* starts one goroutine per log (submitter/submitToLog.go), receives their *)
(* events over one buffered channel, and returns when a quorum of SCTs is  *)
(* met, when nothing is in flight any more, or when the request's context  *)
(* ends.                                                                   *)
(*                                                                         *)
(* The coordinator's variables carry the code's names.  A goroutine is     *)
(* seen here from the channel: it may send eventTryNext once and eventSlow *)
(* once, then sends exactly one eventSuccess or eventFailure and is gone.  *)
(* SubmitToLog models its inside, and keeps to this (EventProtocol).  What *)
(* it makes of the response is decided here, in FinishRequest, when it     *)
(* looks at the context for the last time.                                 *)
(***************************************************************************)
EXTENDS QuorumState

CONSTANTS NumLogs,       \* the length of a strategy
          OperatorNames, \* the log operators
          Strategies,    \* the strategies considered
          Requests,      \* the submission requests considered
          Timers         \* for each log, the timers that may fire before its request ends

TimerEvents == {"eventTryNext", "eventSlow"}
FinalEvents == {"eventSuccess", "eventFailure"}

ASSUME SubmitAssumption ==
  /\ NumLogs \in Nat \ {0}
  /\ Strategies \subseteq [1..NumLogs -> StrategyMember(OperatorNames)]
  /\ Requests \subseteq SubmissionRequest
  /\ \A r \in Requests : r.Operators <= r.SCTs  \* request.go raises SCTs to it
  /\ Timers \in [1..NumLogs -> SUBSET TimerEvents]

Logs == 1..NumLogs

\* What an event carries of its outcome string; timer events carry none.
EventRecord ==
  [strategyIdx : Logs, eventType : TimerEvents \cup FinalEvents,
   outcome : {"", "successful", "failed", "cancelled"}]

\* strategy[i].Outcome.
Annotations ==
  {"", "successful", "failed", "cancelled", "doesn't help quorum",
   "cancelled (quorum met)", "not needed for quorum", "not attempted"}

VARIABLES
  sr, strategy,        \* the arguments; strategy without its Outcome fields
  phase,               \* where the coordinator is
  ctxDone,             \* ctx, the request's context, is done
  cause,               \* context.Cause(submissionCtx): "none" until it is done
  qs,                  \* quorumState
  inFlight, inFlightIndices, slowInFlightIndices,
  attempted,           \* the indices whose BeganAfter is not 0
  outcome,             \* the Outcome fields of the strategy
  events,              \* the channel
  goroutine,           \* the submitToLog goroutines
  reply                \* what submit() returned

coordinatorVars == <<phase, qs, inFlight, inFlightIndices, slowInFlightIndices,
                     attempted, outcome, reply>>
vars == <<sr, strategy, phase, ctxDone, cause, qs, inFlight, inFlightIndices,
          slowInFlightIndices, attempted, outcome, events, goroutine, reply>>

eligible == {i \in Logs : strategy[i].Bucket # "EXCLUDED"}

\* Where a submitToLog goroutine is: not started, in its select loop, blocked in
\* one of its sends, or gone.  sent holds the timers it has reported.
Sends == {"sendTryNext", "sendSlow", "sendSuccess", "sendFailure", "sendCancelled"}
NoGoroutine == [at |-> "none", sent |-> {}]
Started     == [at |-> "select", sent |-> {}]

GoroutineState ==
  [at : {"none", "select", "gone"} \cup Sends, sent : SUBSET TimerEvents]

quorumState ==
  [got : Seq(Logs), operators : SUBSET OperatorNames,
   hasRFC6962SCT : BOOLEAN, hasStaticSCT : BOOLEAN]

Reply ==
  [status : {"pending", "granted", "refused", "aborted", "barren"}, scts : SUBSET Logs]

TypeOK ==
  /\ sr \in Requests /\ strategy \in Strategies
  /\ phase \in {"start", "loop", "drain quorum", "drain context", "returned"}
  /\ ctxDone \in BOOLEAN
  /\ cause \in {"none", "quorum met", "request"}
  /\ qs \in quorumState
  /\ inFlight \in Nat
  /\ inFlightIndices \subseteq Logs /\ slowInFlightIndices \subseteq Logs
  /\ attempted \subseteq Logs
  /\ outcome \in [Logs -> Annotations]
  /\ events \in Seq(EventRecord)
  /\ goroutine \in [Logs -> GoroutineState]
  /\ reply \in Reply

Init ==
  /\ sr \in Requests
  /\ strategy \in Strategies
  /\ phase = "start"
  /\ ctxDone \in BOOLEAN
  /\ cause = IF ctxDone THEN "request" ELSE "none"
  /\ qs = newQuorumState
  /\ inFlight = 0
  /\ inFlightIndices = {}
  /\ slowInFlightIndices = {}
  /\ attempted = {}
  /\ outcome = [i \in Logs |-> ""]
  /\ events = <<>>
  /\ goroutine = [i \in Logs |-> NoGoroutine]
  /\ reply = [status |-> "pending", scts |-> {}]

---------------------------------------------------------------------------
(***************************************************************************)
(* Launching submissions.                                                  *)
(***************************************************************************)

OfLogType(S, type) == {i \in S : strategy[i].LogType = type}

\* Mutant: the batch is one log too large.
BiggerBatch ==
  {i \in eligible : Cardinality({j \in eligible : j < i}) <= sr.SCTs}

\* The initial batch: min(sr.SCTs, |eligible|) logs, one of a required or
\* preferred type first (ensureLogType), the others in strategy order.
InitialBatch ==
  LET size    == IF sr.SCTs > Cardinality(eligible) THEN Cardinality(eligible) ELSE sr.SCTs
      rfc6962 == IF sr.RequireAtLeastOneRFC6962SCT
                 THEN Least(OfLogType(eligible, "LOGTYPE_RFC6962")) ELSE {}
      typed   == IF sr.PreferAtLeastOneStaticSCT /\ Cardinality(rfc6962) < size
                 THEN rfc6962 \cup Least(OfLogType(eligible, "LOGTYPE_STATIC")) ELSE rfc6962
      others  == eligible \ typed
  IN  typed \cup {i \in others : Cardinality(typed) + Cardinality({j \in others : j < i}) < size}

\* Mutant: a log whose submission has ended is taken for one not contacted yet.
NotInFlight == eligible \ (inFlightIndices \cup slowInFlightIndices)

Unattempted == eligible \ attempted

\* startNextEligible: the log to contact next, as a set of at most one index.
\* A log of a needed type that no normal in-flight submission covers goes first.
NextEligible(newQs, normal) ==
  LET covered(type) == OfLogType(normal, type) # {}
      needRFC6962 == /\ sr.RequireAtLeastOneRFC6962SCT /\ ~newQs.hasRFC6962SCT
                     /\ ~covered("LOGTYPE_RFC6962")
      needStatic  == /\ sr.PreferAtLeastOneStaticSCT /\ ~newQs.hasStaticSCT
                     /\ ~covered("LOGTYPE_STATIC")
      helpful == {i \in Unattempted : wouldHelp(newQs, sr, strategy[i], strategy, normal)}
      needed  == (IF needRFC6962 THEN OfLogType(helpful, "LOGTYPE_RFC6962") ELSE {})
                 \cup (IF needStatic THEN OfLogType(helpful, "LOGTYPE_STATIC") ELSE {})
  IN  IF needed # {} THEN Least(needed) ELSE Least(helpful)

\* Mutant: the counter goes the wrong way.
LaunchUncounted(S, remaining, normal) ==
  /\ inFlight' = remaining - Cardinality(S)
  /\ inFlightIndices' = normal \cup S
  /\ attempted' = attempted \cup S
  /\ goroutine' = [i \in Logs |-> IF i \in S THEN Started ELSE goroutine[i]]

\* launchEligible, for a set of logs; remaining is inFlight and normal is
\* inFlightIndices before the launch.
Launch(S, remaining, normal) ==
  /\ inFlight' = remaining + Cardinality(S)
  /\ inFlightIndices' = normal \cup S
  /\ attempted' = attempted \cup S
  /\ goroutine' = [i \in Logs |-> IF i \in S THEN Started ELSE goroutine[i]]

\* The deferred annotation of the logs that were never contacted.
AnnotateUnattempted(marks) ==
  [i \in Logs |-> IF i \in eligible /\ marks[i] = "" THEN "not attempted" ELSE marks[i]]

\* Mutant: only the submissions that are not slow yet are marked.
MarkNormalCancelled(marks, normal, slow) ==
  [i \in Logs |-> IF i \in normal THEN "cancelled (quorum met)" ELSE marks[i]]

MarkCancelled(marks, normal, slow) ==
  [i \in Logs |-> IF i \in normal \cup slow THEN "cancelled (quorum met)" ELSE marks[i]]

Return(status, scts, marks) ==
  /\ phase' = "returned"
  /\ reply' = [status |-> status, scts |-> scts]
  /\ outcome' = AnnotateUnattempted(marks)
  /\ UNCHANGED <<sr, strategy, ctxDone, cause, qs, inFlight, inFlightIndices,
                 slowInFlightIndices, attempted, events, goroutine>>

---------------------------------------------------------------------------
(***************************************************************************)
(* The coordinator.                                                        *)
(***************************************************************************)

\* The early returns come before the annotation is deferred.
StartFails ==
  /\ phase = "start"
  /\ \/ ctxDone /\ reply' = [status |-> "aborted", scts |-> {}]
     \/ ~ctxDone /\ eligible = {} /\ reply' = [status |-> "barren", scts |-> {}]
  /\ phase' = "returned"
  /\ UNCHANGED <<sr, strategy, ctxDone, cause, qs, inFlight, inFlightIndices,
                 slowInFlightIndices, attempted, outcome, events, goroutine>>

Start ==
  /\ phase = "start"
  /\ ~ctxDone
  /\ eligible # {}
  /\ phase' = "loop"
  /\ Launch(InitialBatch, 0, {})
  /\ UNCHANGED <<sr, strategy, ctxDone, cause, qs, slowInFlightIndices, outcome, events, reply>>

\* The coordinator takes the oldest event off the channel.
Oldest == Head(events)

Receive(types) ==
  /\ inFlight > 0
  /\ events # <<>>
  /\ Oldest.eventType \in types
  /\ events' = Tail(events)

\* Mutant: the quorum is looked for before the SCT is added.
QuorumBefore(newQs) == isQuorumMet(qs, sr)

QuorumNow(newQs) == isQuorumMet(newQs, sr)

\* eventSuccess: keep the SCT if it helps.  If the quorum is met, the other
\* submissions are marked and cancelled; if not, and nothing is in flight any
\* more, the next log is contacted.
ReceiveSuccess ==
  LET idx    == Oldest.strategyIdx
      helps  == helpsQuorum(qs, sr, strategy[idx])
      newQs  == IF helps THEN addSuccess(qs, strategy, idx) ELSE qs
      mark   == [outcome EXCEPT ![idx] = IF helps THEN Oldest.outcome ELSE "doesn't help quorum"]
      normal == inFlightIndices \ {idx}
      slow   == slowInFlightIndices \ {idx}
  IN  /\ phase = "loop"
      /\ Receive({"eventSuccess"})
      /\ qs' = newQs
      /\ slowInFlightIndices' = slow
      /\ \/ /\ QuorumNow(newQs)
            /\ phase' = "drain quorum"
            /\ cause' = IF cause = "none" THEN "quorum met" ELSE cause
            /\ outcome' = MarkCancelled(mark, normal, slow)
            /\ Launch({}, inFlight - 1, normal)
         \/ /\ ~QuorumNow(newQs)
            /\ outcome' = mark
            /\ Launch(IF inFlight = 1 THEN NextEligible(newQs, normal) ELSE {},
                      inFlight - 1, normal)
            /\ UNCHANGED <<phase, cause>>
      /\ UNCHANGED <<sr, strategy, ctxDone, reply>>

\* eventFailure: the next log is contacted only if nothing is in flight any more.
ReceiveFailure ==
  LET idx    == Oldest.strategyIdx
      normal == inFlightIndices \ {idx}
  IN  /\ phase = "loop"
      /\ Receive({"eventFailure"})
      /\ outcome' = [outcome EXCEPT ![idx] = Oldest.outcome]
      /\ slowInFlightIndices' = slowInFlightIndices \ {idx}
      /\ Launch(IF inFlight = 1 THEN NextEligible(qs, normal) ELSE {}, inFlight - 1, normal)
      /\ UNCHANGED <<sr, strategy, phase, ctxDone, cause, qs, reply>>

\* eventTryNext: the submission is no longer counted on, and the next log is
\* contacted beside it.
ReceiveTryNext ==
  LET normal == inFlightIndices \ {Oldest.strategyIdx}
  IN  /\ phase = "loop"
      /\ Receive({"eventTryNext"})
      /\ slowInFlightIndices' = slowInFlightIndices \cup {Oldest.strategyIdx}
      /\ Launch(NextEligible(qs, normal), inFlight, normal)
      /\ UNCHANGED <<sr, strategy, phase, ctxDone, cause, qs, outcome, reply>>

\* eventSlow is only passed on to the monitor.
ReceiveSlow ==
  /\ phase = "loop"
  /\ Receive({"eventSlow"})
  /\ UNCHANGED <<sr, strategy, ctxDone, cause, goroutine, coordinatorVars>>

\* The select of the loop takes ctx.Done(), whether or not an event is waiting.
NoticeContext ==
  /\ phase = "loop"
  /\ inFlight > 0
  /\ ctxDone
  /\ phase' = "drain context"
  /\ UNCHANGED <<sr, strategy, ctxDone, cause, qs, inFlight, inFlightIndices,
                 slowInFlightIndices, attempted, outcome, events, goroutine, reply>>

\* Mutant: every event drained is taken for the last of its goroutine.
DrainAnything(types) ==
  /\ Receive(TimerEvents \cup FinalEvents)
  /\ inFlight' = inFlight - 1

\* The drain loops count the final events and pass over the timer events.
DrainEvent(types) ==
  /\ Receive(TimerEvents \cup FinalEvents)
  /\ inFlight' = IF Oldest.eventType \in types THEN inFlight - 1 ELSE inFlight

DrainAfterQuorum ==
  /\ phase = "drain quorum"
  /\ DrainEvent(FinalEvents)
  /\ UNCHANGED <<sr, strategy, phase, ctxDone, cause, qs, inFlightIndices,
                 slowInFlightIndices, attempted, outcome, goroutine, reply>>

DrainAfterContext ==
  /\ phase = "drain context"
  /\ DrainEvent(FinalEvents)
  /\ outcome' = [i \in Logs |->
       IF i = Oldest.strategyIdx /\ Oldest.eventType \in FinalEvents /\ outcome[i] = ""
       THEN Oldest.outcome ELSE outcome[i]]
  /\ UNCHANGED <<sr, strategy, phase, ctxDone, cause, qs, inFlightIndices,
                 slowInFlightIndices, attempted, goroutine, reply>>

\* trimToQuorum marks the SCTs it drops.
Trimmed == trimToQuorum(qs, sr, strategy)

MarkTrimmed ==
  [i \in Logs |-> IF i \in {qs.got[k] : k \in DOMAIN qs.got} \ Trimmed
                  THEN "not needed for quorum" ELSE outcome[i]]

\* Mutant: submit() returns without draining the channel.
ReturnAtOnce == phase = "drain quorum" /\ Return("granted", Trimmed, MarkTrimmed)

\* The second disjunct is the check after the loop, for a quorum it has missed.
ReturnQuorum ==
  /\ inFlight = 0
  /\ \/ phase = "drain quorum"
     \/ phase = "loop" /\ isQuorumMet(qs, sr)
  /\ Return("granted", Trimmed, MarkTrimmed)

ReturnNoQuorum ==
  /\ inFlight = 0
  /\ phase = "loop"
  /\ ~isQuorumMet(qs, sr)
  /\ Return("refused", {}, outcome)

ReturnContext ==
  /\ inFlight = 0
  /\ phase = "drain context"
  /\ Return("aborted", {}, outcome)

---------------------------------------------------------------------------
(***************************************************************************)
(* The submitToLog goroutine of log i, and the request's context.          *)
(***************************************************************************)

submissionCtxDone == cause # "none"

StepTo(i, at) == goroutine' = [goroutine EXCEPT ![i].at = at]

\* A timer is served even when the context is done: select picks any ready case.
TimerFires(i, type, at) ==
  /\ goroutine[i].at = "select"
  /\ type \in Timers[i] \ goroutine[i].sent
  /\ goroutine' = [goroutine EXCEPT ![i] = [at |-> at, sent |-> @.sent \cup {type}]]
  /\ UNCHANGED <<sr, strategy, ctxDone, cause, events, coordinatorVars>>

\* Mutant: a cancelled goroutine ends without telling the coordinator.
FinishSilently(i) ==
  /\ goroutine[i].at = "select"
  /\ StepTo(i, IF submissionCtxDone THEN "gone" ELSE "sendFailure")
  /\ UNCHANGED <<sr, strategy, ctxDone, cause, events, coordinatorVars>>

\* The HTTP request has ended, or the context has: the final event is settled.
FinishRequest(i) ==
  /\ goroutine[i].at = "select"
  /\ \/ submissionCtxDone /\ StepTo(i, "sendCancelled")
     \/ ~submissionCtxDone /\ StepTo(i, "sendSuccess")
     \/ ~submissionCtxDone /\ StepTo(i, "sendFailure")
  /\ UNCHANGED <<sr, strategy, ctxDone, cause, events, coordinatorVars>>

EventToSend(i) ==
  LET event(type, out) == [strategyIdx |-> i, eventType |-> type, outcome |-> out]
  IN  CASE goroutine[i].at = "sendTryNext"   -> event("eventTryNext", "")
        [] goroutine[i].at = "sendSlow"      -> event("eventSlow", "")
        [] goroutine[i].at = "sendSuccess"   -> event("eventSuccess", "successful")
        [] goroutine[i].at = "sendFailure"   -> event("eventFailure", "failed")
        [] goroutine[i].at = "sendCancelled" -> event("eventFailure", "cancelled")

\* A send completes when the channel, of capacity len(eligible), has room.
Send(i) ==
  /\ goroutine[i].at \in Sends
  /\ Len(events) < Cardinality(eligible)
  /\ events' = Append(events, EventToSend(i))
  /\ StepTo(i, IF EventToSend(i).eventType \in FinalEvents THEN "gone" ELSE "select")
  /\ UNCHANGED <<sr, strategy, ctxDone, cause, coordinatorVars>>

\* The request's deadline passes, or the server shuts down; submissionCtx is a
\* child of the request's context.
EndContext ==
  /\ ~ctxDone
  /\ phase # "returned"
  /\ ctxDone' = TRUE
  /\ cause' = IF cause = "none" THEN "request" ELSE cause
  /\ UNCHANGED <<sr, strategy, events, goroutine, coordinatorVars>>

---------------------------------------------------------------------------
Coordinator ==
  \/ StartFails \/ Start
  \/ ReceiveSuccess \/ ReceiveFailure \/ ReceiveTryNext \/ ReceiveSlow
  \/ NoticeContext \/ DrainAfterQuorum \/ DrainAfterContext
  \/ ReturnQuorum \/ ReturnNoQuorum \/ ReturnContext

Goroutine(i) ==
  \/ TimerFires(i, "eventTryNext", "sendTryNext")
  \/ TimerFires(i, "eventSlow", "sendSlow")
  \/ FinishRequest(i)
  \/ Send(i)

\* submit() has returned and every goroutine it started has ended.
Terminated ==
  /\ phase = "returned"
  /\ \A i \in Logs : goroutine[i].at \in {"none", "gone"}
  /\ UNCHANGED vars

Next == Coordinator \/ (\E i \in Logs : Goroutine(i)) \/ EndContext \/ Terminated

Spec == Init /\ [][Next]_vars

\* The Go scheduler runs every goroutine that can run, and the HTTP client's
\* timeout ends every request.  Nothing makes a timer fire, or the context end.
Fairness ==
  /\ WF_vars(Coordinator)
  /\ \A i \in Logs : WF_vars(FinishRequest(i)) /\ WF_vars(Send(i))

FairSpec == Spec /\ Fairness

---------------------------------------------------------------------------
(***************************************************************************)
(* Properties.                                                             *)
(***************************************************************************)

\* The logs whose final event the coordinator has still to receive.
Unreported ==
  {i \in Logs : \/ goroutine[i].at \in {"select"} \cup Sends
                \/ \E k \in DOMAIN events : /\ events[k].strategyIdx = i
                                           /\ events[k].eventType \in FinalEvents}

\* The counter, the two in-flight sets and the goroutines agree: inFlight is the
\* number of final events still to come, and while events are processed the
\* normal and the slow set share them out (orchestrate.go:71-73, 193-253).  A
\* counter too low lets submit() return under running goroutines, one too high
\* makes it wait for ever.
InFlightAccounting ==
  /\ inFlight = Cardinality(Unreported)
  /\ phase \in {"start", "loop"} =>
       /\ inFlightIndices \cap slowInFlightIndices = {}
       /\ inFlightIndices \cup slowInFlightIndices = Unreported

\* submit() returns only after every goroutine it started has sent its last
\* event and the channel is empty: none is left blocked on a channel nobody
\* reads (the drain loops, orchestrate.go:180-189 and 216-222).
NoGoroutineLeftBehind ==
  phase = "returned" =>
    events = <<>> /\ \A i \in Logs : goroutine[i].at \in {"none", "gone"}

\* The SCTs returned are a quorum, all of them from different contacted logs
\* that are not excluded, although the trim has dropped some
\* (orchestrate.go:223-224).
ReplyIsCompliant ==
  reply.status = "granted" =>
    /\ Compliant(sr, strategy, reply.scts)
    /\ reply.scts \subseteq eligible \cap attempted

\* The Outcome of every strategy member tells what happened to it: a log is
\* "successful" exactly if its SCT is returned, and "not attempted" exactly if it
\* was never contacted (orchestrate.go:59-66, 199-213; quorum.go:215-217).
OutcomesMatchReply ==
  phase = "returned" /\ attempted # {} =>
    /\ \A i \in eligible : outcome[i] # ""
    /\ {i \in eligible : outcome[i] = "not attempted"} = eligible \ attempted
    /\ reply.status = "granted" => {i \in Logs : outcome[i] = "successful"} = reply.scts

\* "bounded concurrency" (docs/SubmissionStrategy.md:95): the submissions that are
\* in flight and not past the try-next threshold never outnumber the SCTs asked
\* for, however often logs are slow and fail (orchestrate.go:193-253).
BoundedConcurrency ==
  phase = "loop" => Cardinality(inFlightIndices) <= sr.SCTs

\* While the loop goes on, the answers it has received could not make a quorum,
\* the ones it discarded included: the check after the loop "(shouldn't happen,
\* but be safe)" finds nothing (orchestrate.go:194-228, 256-261).
LoopMissesNoQuorum ==
  phase = "loop" =>
    ~Compliant(sr, strategy,
               {i \in Logs : outcome[i] \in {"successful", "doesn't help quorum"}})

\* A log is contacted at most once, and none once the quorum is met or the end of
\* the context was noticed (orchestrate.go:101, 117, 147, 161).
LaunchOnceAndInTime ==
  [][\A i \in Logs :
       goroutine[i] # Started /\ goroutine'[i] = Started =>
         /\ goroutine[i] = NoGoroutine
         /\ phase' = "loop"
         /\ ~isQuorumMet(qs', sr)]_vars

\* "reduces the collected SCTs to exactly sr.SCTs" (quorum.go:89): the number of
\* SCTs returned is the number asked for.
ReplyIsExact ==
  reply.status = "granted" => Cardinality(reply.scts) = sr.SCTs

\* submit() comes back, whatever the logs do (docs/SubmissionStrategy.md,
\* "Termination").
SubmitReturns == <>(phase = "returned")

\* The specification of what submit() promises, read off its variables.
Service == INSTANCE SubmissionService WITH
  contacted   <- attempted,
  accepted    <- {qs.got[k] : k \in DOMAIN qs.got},
  contextDone <- ctxDone

ImplementsService == Service!Spec
============================================================================
