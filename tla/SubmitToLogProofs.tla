-------------------------- MODULE SubmitToLogProofs ------------------------
(***************************************************************************)
(* Proofs about one submitToLog goroutine, in every order of its request,  *)
(* its timers, the end of the context and the room in the channel: what    *)
(* it sends is what Submit takes for granted, the monitor has heard of a   *)
(* failure before the coordinator does, and no response body stays open.   *)
(***************************************************************************)
EXTENDS SubmitToLog, SequenceTheorems, TLAPS

(***************************************************************************)
(* The inductive invariant.                                                *)
(***************************************************************************)

Places == {"prepare", "select", "wait", "process", "send", "record", "done"}

\* TypeOK without the lengths, which follow from the protocol; a body comes after the
\* request has been started.
Types ==
  /\ at \in Places
  /\ ctxDone \in BOOLEAN /\ room \in BOOLEAN /\ timed \in BOOLEAN
  /\ http \in {"none", "running", "ended", "taken"}
  /\ answer \in {"none"} \cup Errors \cup Statuses
  /\ bodyRead \in {"none"} \cup Bodies
  /\ fired \subseteq Timers /\ served \subseteq Timers /\ fired \cap served = {}
  /\ pending \in EventRecord
  /\ events \in Seq(EventRecord)
  /\ penalty \subseteq Penalties
  /\ body \in {"none", "open", "closed"}
  /\ body # "none" => answer \in Statuses /\ http = "taken" /\ at # "prepare"

\* The goroutine has not settled its final event, or has that event in hand, or sent it.
Racing   == at \in {"prepare", "select", "wait", "process"} \/ (at = "send" /\ ~Final(pending))
Settling == at = "send" /\ Final(pending)
Settled  == at \in {"record", "done"}

\* The event in hand: a timer that has been served and not been sent yet, or the final
\* event, whose outcome says so.
PendingIsNew ==
  /\ at = "send" =>
       \/ /\ pending.eventType \in served /\ pending.outcome = "none"
          /\ \A k \in DOMAIN events : events[k].eventType # pending.eventType
       \/ Final(pending) /\ pending.outcome # "none"
  /\ at = "record" => pending.outcome \notin {"none", "no request"}

\* What has been sent: timers that have been served, each once, and at the end the final
\* event.
SentInOrder ==
  /\ \A k \in DOMAIN events :
       events[k].eventType \in served \/ (k = Len(events) /\ Final(events[k]) /\ Settled)
  /\ \A j, k \in DOMAIN events : events[j].eventType = events[k].eventType => j = k
  /\ Settled => events # <<>> /\ Final(events[Len(events)])

\* The backoffs that an outcome calls for.
PenaltyFits(outcome) ==
  CASE outcome \in {"success", "cancelled", "no request"} -> penalty = {}
    [] outcome \in {"timeout", "4xx", "5xx"}              -> penalty = {outcome}
    [] OTHER                                              -> penalty = {"bad response"}

PenaltyIsRight ==
  /\ Racing => penalty = {}
  /\ Settling => PenaltyFits(pending.outcome)
  /\ Settled => PenaltyFits(events[Len(events)].outcome)

\* Only what is being processed, or has been, is open.
OpenIsInHand ==
  body = "open" =>
    \/ at = "process"
    \/ Settling /\ pending.outcome \notin {"cancelled", "no request"}
    \/ at = "record" /\ pending.outcome # "cancelled"

CountedAtTheEnd ==
  /\ at # "done" => counted = <<>>
  /\ counted = <<>> \/ \E o \in Outcomes \ {"none"} : counted = <<o>>

IInv ==
  /\ Types
  /\ PendingIsNew
  /\ SentInOrder
  /\ PenaltyIsRight
  /\ OpenIsInHand
  /\ CountedAtTheEnd

\* PenaltyFits reads the backoffs recorded, and nothing else of the state.
LEMMA FitsStill ==
  ASSUME UNCHANGED penalty, NEW outcome, PenaltyFits(outcome)
  PROVE  PenaltyFits(outcome)'
BY DEF PenaltyFits

\* While the race is on, nothing is counted and no final event is sent (submitToLog.go:67).
LEMMA RacingMeans ==
  ASSUME IInv, Racing
  PROVE  /\ penalty = {} /\ counted = <<>>
         /\ \A k \in DOMAIN events : events[k].eventType \in served
BY DEF IInv, Racing, PenaltyIsRight, CountedAtTheEnd, SentInOrder, Settled

\* The events, as Submit names them.
LEMMA EventFacts ==
  /\ NoEvent \in EventRecord /\ Success \in EventRecord
  /\ Success.outcome = "success" /\ Final(Success)
  /\ \A outcome \in Outcomes \ {"none"} :
       /\ Failure(outcome) \in EventRecord
       /\ Failure(outcome).outcome = outcome /\ Final(Failure(outcome))
  /\ \A t \in Timers :
       /\ TimerEvent(t) \in EventRecord
       /\ TimerEvent(t).eventType = t /\ TimerEvent(t).outcome = "none" /\ ~Final(TimerEvent(t))
BY DEF NoEvent, Success, Failure, TimerEvent, Final, EventRecord, Outcomes, Timers

LEMMA OutcomeNames ==
  {"no request", "cancelled", "timeout", "http_error", "bad_response", "4xx", "5xx", "other"}
    \subseteq Outcomes \ {"none"}
BY DEF Outcomes

LEMMA InitHolds ==
  ASSUME Init
  PROVE  IInv
<1>1. Types
  BY EmptySeq, EventFacts DEF Init, Types, Places
<1>2. PendingIsNew
  BY DEF Init, PendingIsNew
<1>3. SentInOrder
  BY DEF Init, SentInOrder, Settled
<1>4. PenaltyIsRight
  BY DEF Init, PenaltyIsRight, Settling, Settled
<1>5. OpenIsInHand
  BY DEF Init, OpenIsInHand
<1>6. CountedAtTheEnd
  BY DEF Init, CountedAtTheEnd
<1> QED
  BY <1>1, <1>2, <1>3, <1>4, <1>5, <1>6 DEF IInv

---------------------------------------------------------------------------
(***************************************************************************)
(* Steps that leave the reporting alone: the environment and the request.  *)
(***************************************************************************)

\* What the goroutine is doing and has reported depends on none of what these change.
LEMMA Aside ==
  ASSUME IInv, Types',
         UNCHANGED <<at, served, pending, events, penalty, counted, body>>
  PROVE  IInv'
<1>1. PendingIsNew'
  BY DEF IInv, PendingIsNew, Final
<1>2. SentInOrder'
  BY DEF IInv, SentInOrder, Settled, Final
<1>3. PenaltyIsRight'
  BY FitsStill DEF IInv, PenaltyIsRight, Racing, Settling, Settled, Final, PenaltyFits
<1>4. OpenIsInHand'
  BY DEF IInv, OpenIsInHand, Settling, Final
<1>5. CountedAtTheEnd'
  BY DEF IInv, CountedAtTheEnd
<1> QED
  BY <1>1, <1>2, <1>3, <1>4, <1>5 DEF IInv

LEMMA EnvironmentKeeps ==
  ASSUME IInv, EndContext \/ ChannelChanges \/ RequestEnds \/ (\E t \in Timers : TimerFires(t))
  PROVE  IInv'
<1>1. Types'
  <2>1. CASE EndContext
    BY <2>1 DEF EndContext, IInv, Types
  <2>2. CASE ChannelChanges
    BY <2>2 DEF ChannelChanges, IInv, Types
  <2>3. CASE RequestEnds
    BY <2>3 DEF RequestEnds, IInv, Types
  <2>4. CASE \E t \in Timers : TimerFires(t)
    BY <2>4 DEF TimerFires, IInv, Types
  <2> QED
    BY <2>1, <2>2, <2>3, <2>4
<1>2. UNCHANGED <<at, served, pending, events, penalty, counted, body>>
  BY DEF EndContext, ChannelChanges, RequestEnds, TimerFires
<1> QED
  BY <1>1, <1>2, Aside

---------------------------------------------------------------------------
(***************************************************************************)
(* Steps of the goroutine up to its final event: nothing is sent yet.      *)
(***************************************************************************)

\* A step out of the race: into another part of it, or with an event in hand.
LEMMA RaceGoesOn ==
  ASSUME IInv, Racing, Types', UNCHANGED <<events, counted>>, served \subseteq served',
         PendingIsNew', at' \notin {"record", "done"}, OpenIsInHand',
         Racing' => penalty' = {},
         Settling' => PenaltyFits(pending.outcome)'
  PROVE  IInv'
<1>1. SentInOrder'
  <2>1. \A k \in DOMAIN events : events[k].eventType \in served'
    BY RacingMeans
  <2> QED
    BY <2>1 DEF IInv, SentInOrder, Settled
<1>2. PenaltyIsRight'
  BY DEF PenaltyIsRight, Settled
<1>3. CountedAtTheEnd'
  BY RacingMeans DEF CountedAtTheEnd
<1> QED
  BY <1>1, <1>2, <1>3 DEF IInv

LEMMA PrepareKeeps ==
  ASSUME IInv, Prepare
  PROVE  IInv'
<1>1. Racing
  BY DEF Prepare, Racing
<1>2. Types'
  <2>1. pending' \in EventRecord
    BY EventFacts, OutcomeNames DEF Prepare, ToSend, IInv, Types
  <2> QED
    BY <2>1 DEF Prepare, ToSend, IInv, Types, Places
<1>3. PendingIsNew'
  BY EventFacts, OutcomeNames DEF Prepare, ToSend, PendingIsNew
<1>4. body # "open"
  BY DEF Prepare, IInv, OpenIsInHand, Settling
<1>5. Settling' => PenaltyFits(pending.outcome)'
  BY <1>1, RacingMeans, EventFacts, OutcomeNames DEF Prepare, ToSend, Settling, PenaltyFits
<1>6. OpenIsInHand'
  BY <1>4 DEF Prepare, OpenIsInHand
<1> QED
  BY <1>1, <1>2, <1>3, <1>5, <1>6, RaceGoesOn, RacingMeans DEF Prepare, ToSend

LEMMA ServeTimerKeeps ==
  ASSUME IInv, NEW t \in Timers, ServeTimer(t)
  PROVE  IInv'
<1>1. Racing
  BY DEF ServeTimer, Racing
<1>2. Types'
  BY EventFacts DEF ServeTimer, ToSend, IInv, Types, Places
<1>3. t \notin served
  BY DEF ServeTimer, IInv, Types
<1>4. PendingIsNew'
  BY <1>1, <1>3, RacingMeans, EventFacts DEF ServeTimer, ToSend, PendingIsNew
<1>5. ~Settling'
  BY EventFacts DEF ServeTimer, ToSend, Settling, Final
<1>6. OpenIsInHand'
  BY DEF ServeTimer, IInv, OpenIsInHand, Settling
<1> QED
  BY <1>1, <1>2, <1>4, <1>5, <1>6, RaceGoesOn, RacingMeans DEF ServeTimer, ToSend

LEMMA TakeResultKeeps ==
  ASSUME IInv, TakeResult
  PROVE  IInv'
<1>1. Racing
  BY DEF TakeResult, Racing
<1>2. Types'
  BY EventFacts, OutcomeNames DEF TakeResult, ToSend, CloseIfAny, IInv, Types, Places
<1>3. PendingIsNew'
  BY EventFacts, OutcomeNames DEF TakeResult, ToSend, PendingIsNew
<1>4. Settling' => PenaltyFits(pending.outcome)'
  BY <1>1, RacingMeans, EventFacts, OutcomeNames DEF TakeResult, ToSend, Settling, PenaltyFits
<1>5. OpenIsInHand'
  BY DEF TakeResult, ToSend, CloseIfAny, OpenIsInHand
<1> QED
  BY <1>1, <1>2, <1>3, <1>4, <1>5, RaceGoesOn, RacingMeans DEF TakeResult, ToSend

LEMMA NoticeContextKeeps ==
  ASSUME IInv, NoticeContext
  PROVE  IInv'
<1>1. Racing
  BY DEF NoticeContext, Racing
<1>2. Types'
  BY DEF NoticeContext, IInv, Types, Places
<1>3. PendingIsNew' /\ ~Settling'
  BY DEF NoticeContext, PendingIsNew, Settling
<1>4. OpenIsInHand'
  BY DEF NoticeContext, IInv, OpenIsInHand, Settling
<1> QED
  BY <1>1, <1>2, <1>3, <1>4, RaceGoesOn, RacingMeans DEF NoticeContext

LEMMA WaitEndsKeeps ==
  ASSUME IInv, WaitEnds
  PROVE  IInv'
<1>1. Racing
  BY DEF WaitEnds, Racing
<1>2. Types'
  BY EventFacts, OutcomeNames DEF WaitEnds, ToSend, CloseIfAny, IInv, Types, Places
<1>3. PendingIsNew'
  BY EventFacts, OutcomeNames DEF WaitEnds, ToSend, PendingIsNew
<1>4. Settling' => PenaltyFits(pending.outcome)'
  BY <1>1, RacingMeans, EventFacts, OutcomeNames DEF WaitEnds, ToSend, Settling, PenaltyFits
<1>5. OpenIsInHand'
  BY DEF WaitEnds, CloseIfAny, IInv, OpenIsInHand, Settling
<1> QED
  BY <1>1, <1>2, <1>3, <1>4, <1>5, RaceGoesOn, RacingMeans DEF WaitEnds, ToSend

\* The final event that is about to be in hand, with the backoff that it calls for.
SettlesNext ==
  /\ pending' \in EventRecord /\ Final(pending') /\ penalty' \subseteq Penalties
  /\ \/ pending'.outcome = "success" /\ penalty' = {}
     \/ pending'.outcome \in {"timeout", "4xx", "5xx"} /\ penalty' = {pending'.outcome}
     \/ /\ pending'.outcome \in {"http_error", "bad_response", "other"}
        /\ penalty' = {"bad response"}

\* Every branch settles the final event, with the backoff that it calls for
\* (submitToLog.go:129-206).
LEMMA ProcessKeeps ==
  ASSUME IInv, Process
  PROVE  IInv'
<1>1. Racing
  BY DEF Process, Racing
<1>2. \/ pending' = Success /\ penalty' = {}
      \/ \E outcome \in {"timeout", "4xx", "5xx"} :
           pending' = Failure(outcome) /\ penalty' = {outcome}
      \/ \E outcome \in {"http_error", "bad_response", "other"} :
           pending' = Failure(outcome) /\ penalty' = {"bad response"}
  BY <1>1, RacingMeans DEF Process, ToSend, Fail
<1>3. at' = "send" /\ bodyRead' \in {"none"} \cup Bodies
  BY DEF Process, ToSend, Fail, Unread, Bodies, IInv, Types
<1>4. SettlesNext
  <2>1. CASE pending' = Success /\ penalty' = {}
    BY <2>1, EventFacts DEF SettlesNext
  <2>2. ASSUME NEW outcome \in {"timeout", "4xx", "5xx"},
               pending' = Failure(outcome) /\ penalty' = {outcome}
        PROVE  SettlesNext
    BY <2>2, EventFacts, OutcomeNames DEF SettlesNext, Penalties
  <2>3. ASSUME NEW outcome \in {"http_error", "bad_response", "other"},
               pending' = Failure(outcome) /\ penalty' = {"bad response"}
        PROVE  SettlesNext
    BY <2>3, EventFacts, OutcomeNames DEF SettlesNext, Penalties
  <2> QED
    BY <1>2, <2>1, <2>2, <2>3
<1>5. Types'
  BY <1>3, <1>4 DEF SettlesNext, Process, IInv, Types, Places
<1>6. PendingIsNew'
  BY <1>3, <1>4 DEF SettlesNext, PendingIsNew, Final
<1>7. Settling' /\ PenaltyFits(pending.outcome)'
  BY <1>3, <1>4 DEF SettlesNext, Settling, Final, PenaltyFits
<1>8. OpenIsInHand'
  BY <1>4, <1>7 DEF SettlesNext, OpenIsInHand
<1> QED
  BY <1>1, <1>3, <1>5, <1>6, <1>7, <1>8, RaceGoesOn DEF Process, Racing, Settling

---------------------------------------------------------------------------
(***************************************************************************)
(* Sending and recording.                                                  *)
(***************************************************************************)

\* Nothing final is sent before, and the type sent is new.
LEMMA SendIsNew ==
  ASSUME IInv, at = "send"
  PROVE  /\ \A k \in DOMAIN events :
              events[k].eventType \in served /\ events[k].eventType # pending.eventType
         /\ served \subseteq Timers
<1>1. \A k \in DOMAIN events : events[k].eventType \in served
  BY DEF IInv, SentInOrder, Settled
<1>2. served \subseteq Timers
  BY DEF IInv, Types
<1> QED
  BY <1>1, <1>2 DEF IInv, PendingIsNew, Final, Timers

LEMMA SendKeeps ==
  ASSUME IInv, Send
  PROVE  IInv'
<1>1. /\ events \in Seq(EventRecord) /\ pending \in EventRecord
      /\ at = "send" /\ events' = Append(events, pending) /\ at' = AfterSend
      /\ UNCHANGED <<served, penalty, counted, body>>
  BY DEF IInv, Types, Send
<1>2. /\ events' \in Seq(EventRecord) /\ events' # <<>>
      /\ Len(events) \in Nat /\ Len(events') = Len(events) + 1
      /\ DOMAIN events = 1..Len(events) /\ DOMAIN events' = 1..Len(events')
      /\ \A k \in DOMAIN events : events'[k] = events[k]
      /\ events'[Len(events')] = pending
  BY <1>1, AppendProperties, LenProperties
<1>3. /\ (Final(pending) /\ pending.outcome # "none")
           \/ (pending.eventType \in served /\ pending.outcome = "none")
      /\ pending.eventType \in served => ~Final(pending)
  BY <1>1 DEF IInv, PendingIsNew, Types, Final, Timers
<1>4. /\ at' = "select" <=> pending.outcome = "none"
      /\ at' = "done" <=> pending.outcome = "no request"
      /\ at' \in {"select", "done", "record"}
      /\ pending' = IF at' = "record" THEN pending ELSE NoEvent
  BY <1>1 DEF Send, AfterSend
<1>5. Types'
  BY <1>1, <1>2, <1>4, EventFacts DEF Send, IInv, Types, Places
<1>6. PendingIsNew'
  BY <1>4 DEF PendingIsNew
<1>7. SentInOrder'
  <2>1. Settled' <=> Final(pending)
    BY <1>3, <1>4 DEF Settled
  <2>2. \A k \in DOMAIN events' :
          events'[k].eventType \in served' \/ (k = Len(events') /\ Final(events'[k]) /\ Settled')
    BY <1>1, <1>2, <1>3, <2>1, SendIsNew
  <2>3. \A j, k \in DOMAIN events' : events'[j].eventType = events'[k].eventType => j = k
    <3>1. \A k \in DOMAIN events' : k \in DOMAIN events \/ k = Len(events')
      BY <1>2
    <3>2. \A k \in DOMAIN events : events'[k].eventType # events'[Len(events')].eventType
      BY <1>1, <1>2, SendIsNew
    <3> QED
      BY <1>2, <3>1, <3>2 DEF IInv, SentInOrder
  <2>4. Settled' => Final(events'[Len(events')])
    BY <1>2, <2>1
  <2> QED
    BY <1>2, <2>2, <2>3, <2>4 DEF SentInOrder, Final
<1>8. PenaltyIsRight'
  <2>1. CASE pending.outcome = "none"
    <3>1. Racing /\ at' = "select"
      BY <1>1, <1>3, <1>4, <2>1 DEF Racing, Final, IInv, Types, Timers
    <3> QED
      BY <1>1, <3>1 DEF IInv, PenaltyIsRight, Settling, Settled
  <2>2. CASE pending.outcome # "none"
    <3>1. Settling /\ at' \in {"record", "done"}
      BY <1>1, <1>3, <1>4, <2>2 DEF Settling
    <3>2. PenaltyFits(pending.outcome)
      BY <3>1 DEF IInv, PenaltyIsRight
    <3>3. PenaltyFits(events[Len(events)].outcome)'
      BY <1>1, <1>2, <3>2 DEF PenaltyFits
    <3> QED
      BY <3>1, <3>3 DEF PenaltyIsRight, Racing, Settling
  <2> QED
    BY <2>1, <2>2
<1>9. OpenIsInHand'
  BY <1>1, <1>3, <1>4 DEF IInv, OpenIsInHand, Settling
<1>10. CountedAtTheEnd'
  BY <1>1 DEF IInv, CountedAtTheEnd
<1> QED
  BY <1>5, <1>6, <1>7, <1>8, <1>9, <1>10 DEF IInv

LEMMA RecordKeeps ==
  ASSUME IInv, Record
  PROVE  IInv'
<1>1. /\ at = "record" /\ at' = "done" /\ pending' = NoEvent
      /\ UNCHANGED <<served, events, penalty>>
  BY DEF Record
<1>2. pending \in EventRecord /\ pending.outcome # "none" /\ counted = <<>>
  BY <1>1 DEF IInv, Types, PendingIsNew, CountedAtTheEnd
<1>3. Types'
  BY <1>1, EventFacts DEF Record, IInv, Types, Places
<1>4. PendingIsNew'
  BY <1>1 DEF PendingIsNew
<1>5. SentInOrder'
  BY <1>1 DEF IInv, SentInOrder, Settled, Final
<1>6. PenaltyIsRight'
  <2>1. PenaltyFits(events[Len(events)].outcome)
    BY <1>1 DEF IInv, PenaltyIsRight, Settled
  <2>2. PenaltyFits(events[Len(events)].outcome)'
    BY <1>1, <2>1 DEF PenaltyFits
  <2> QED
    BY <1>1, <2>2 DEF PenaltyIsRight, Racing, Settling
<1>7. OpenIsInHand'
  BY <1>1 DEF Record, IInv, OpenIsInHand, Settling
<1>8. CountedAtTheEnd'
  <2>1. counted' = <<>> \/ counted' = Append(<<>>, pending.outcome)
    BY <1>2 DEF Record
  <2>2. pending.outcome \in Outcomes \ {"none"}
    BY <1>2 DEF EventRecord
  <2> QED
    BY <1>1, <2>1, <2>2 DEF CountedAtTheEnd
<1> QED
  BY <1>3, <1>4, <1>5, <1>6, <1>7, <1>8 DEF IInv

---------------------------------------------------------------------------
(***************************************************************************)
(* The theorems.                                                           *)
(***************************************************************************)

LEMMA StutterKeeps ==
  ASSUME IInv, UNCHANGED vars
  PROVE  IInv'
<1>1. Types'
  BY DEF vars, IInv, Types
<1> QED
  BY <1>1, Aside DEF vars

LEMMA NextKeeps ==
  ASSUME IInv, [Next]_vars
  PROVE  IInv'
<1>1. CASE Goroutine
  BY <1>1, PrepareKeeps, ServeTimerKeeps, TakeResultKeeps, NoticeContextKeeps, WaitEndsKeeps,
     ProcessKeeps, SendKeeps, RecordKeeps DEF Goroutine
<1>2. CASE EndContext \/ ChannelChanges \/ RequestEnds \/ (\E t \in Timers : TimerFires(t))
  BY <1>2, EnvironmentKeeps
<1>3. CASE Terminated \/ UNCHANGED vars
  BY <1>3, StutterKeeps DEF Terminated
<1> QED
  BY <1>1, <1>2, <1>3 DEF Next

\* The invariant holds of the goroutine throughout.
THEOREM Invariant == Spec => []IInv
BY InitHolds, NextKeeps, PTL DEF Spec

\* The final event is the last one, and only a goroutine that has sent it is through.
LEMMA ProtocolHolds ==
  ASSUME IInv
  PROVE  EventProtocol
<1>1. events \in Seq(EventRecord) /\ served \subseteq Timers
  BY DEF IInv, Types
<1>2. Len(events) \in Nat /\ DOMAIN events = 1..Len(events)
  BY <1>1, LenProperties
<1>3. \A k \in DOMAIN events : Final(events[k]) => k = Len(events) /\ Settled
  BY <1>1 DEF IInv, SentInOrder, Final, Timers
<1>4. Settled => Len(events) \in SentFinals
  <2> SUFFICES ASSUME Settled PROVE Len(events) \in SentFinals
    OBVIOUS
  <2>1. events # <<>> /\ Final(events[Len(events)])
    BY DEF IInv, SentInOrder
  <2>2. Len(events) \in DOMAIN events
    BY <1>1, <1>2, <2>1, EmptySeq
  <2> QED
    BY <2>1, <2>2 DEF SentFinals
<1> QED
  BY <1>3, <1>4 DEF EventProtocol, SentFinals, Settled, IInv, SentInOrder

\* Two timers and a final event: there are no three different events that are not final.
LEMMA AtMostThree ==
  ASSUME IInv
  PROVE  Len(events) <= 3
<1>1. events \in Seq(EventRecord) /\ served \subseteq Timers
  BY DEF IInv, Types
<1>2. Len(events) \in Nat /\ DOMAIN events = 1..Len(events)
  BY <1>1, LenProperties
<1> SUFFICES ASSUME Len(events) > 3 PROVE FALSE
  BY <1>2
<1>3. 1 \in DOMAIN events /\ 2 \in DOMAIN events /\ 3 \in DOMAIN events
  BY <1>2
<1>4. \A k \in {1, 2, 3} : events[k].eventType \in Timers
  BY <1>1, <1>2, <1>3 DEF IInv, SentInOrder
<1>5. /\ events[1].eventType # events[2].eventType
      /\ events[1].eventType # events[3].eventType
      /\ events[2].eventType # events[3].eventType
  BY <1>3 DEF IInv, SentInOrder
<1> QED
  BY <1>4, <1>5 DEF Timers

LEMMA TypesHold ==
  ASSUME IInv
  PROVE  TypeOK
<1>1. counted \in Seq(Outcomes \ {"none"}) /\ Len(counted) <= 1
  <2>1. CASE counted = <<>>
    BY <2>1
  <2>2. CASE \E o \in Outcomes \ {"none"} : counted = <<o>>
    BY <2>2
  <2> QED
    BY <2>1, <2>2 DEF IInv, CountedAtTheEnd
<1> QED
  BY <1>1, AtMostThree DEF IInv, Types, Places, TypeOK

\* Everything has its type; no goroutine sends more than three events or is counted
\* twice (submitToLog.go:67-111).
THEOREM TypeCorrect == Spec => []TypeOK
BY Invariant, TypesHold, PTL

\* A goroutine reports each timer at most once and then exactly one final event, which
\* is what Submit relies on (submitToLog.go:24-27).
THEOREM ProtocolKept == Spec => []EventProtocol
BY Invariant, ProtocolHolds, PTL

\* When a failure is in the channel, the monitor knows of it, and of nothing else
\* (submitToLog.go:132-205).
THEOREM PenaltyFirst == Spec => []PenaltyPrecedesFailure
<1>1. IInv => PenaltyPrecedesFailure
  <2> SUFFICES ASSUME IInv, NEW k \in SentFinals
               PROVE  PenaltyFits(events[k].outcome)
    BY DEF PenaltyPrecedesFailure, PenaltyFits
  <2>1. k = Len(events) /\ Settled
    BY ProtocolHolds DEF EventProtocol, Settled
  <2> QED
    BY <2>1 DEF IInv, PenaltyIsRight
<1> QED
  BY <1>1, Invariant, PTL

\* No body is left open by a goroutine that is through (submitToLog.go:87-104, 144).
THEOREM BodyClosed == Spec => []BodyIsClosed
<1>1. IInv => BodyIsClosed
  BY DEF IInv, OpenIsInHand, Settling, BodyIsClosed
<1> QED
  BY <1>1, Invariant, PTL
============================================================================
