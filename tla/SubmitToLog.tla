----------------------------- MODULE SubmitToLog ---------------------------
(***************************************************************************)
(* The inside of one submitToLog goroutine (submitter/submitToLog.go): it  *)
(* runs the HTTP request in a goroutine of its own, races it against two   *)
(* timers and the submission's context, reads and checks the response,     *)
(* tells the monitor what it has learnt about the log, and reports to the  *)
(* coordinator.  Submit sees of all this only the events.                  *)
(*                                                                         *)
(* The coordinator and the other goroutines appear as the environment: the *)
(* context may end at any moment, and the channel may be full when this    *)
(* goroutine wants to send.                                                *)
(***************************************************************************)
EXTENDS Naturals, Sequences, FiniteSets

Timers == {"eventTryNext", "eventSlow"}

\* How client.Do ends.  "context" is the error it returns when the context ends it.
Errors   == {"timeout", "http error", "context"}
Statuses == {"200", "4xx", "5xx", "other"}

\* What io.ReadAll(resp.Body) makes of the body, and the checks of the SCT in it.
Bodies == {"valid", "invalid", "broken", "timed out", "context"}
Unread == {"broken", "timed out", "context"}

Penalties == {"timeout", "4xx", "5xx", "bad response"}

VARIABLES
  at,        \* where the goroutine is
  ctxDone,   \* ctx.Err() # nil
  http,      \* client.Do: "none", "running", "ended" with its result in httpCh, "taken"
  answer,    \* the result of client.Do
  bodyRead,  \* what reading the response body gave
  fired,     \* the timers whose channel holds a value
  served,    \* the timers that were reported (tryNextSent, slowSent)
  room,      \* the events channel has room for one more
  pending,   \* the event being sent
  events,    \* the events this goroutine has sent
  penalty,   \* the backoffs recorded with the monitor
  counted,   \* the outcomes recorded with the monitor, in order
  timed,     \* the response time was recorded with the monitor
  body       \* "none", "open" or "closed": the response body it took

vars == <<at, ctxDone, http, answer, bodyRead, fired, served, room, pending, events,
          penalty, counted, timed, body>>

NoEvent == [eventType |-> "none", outcome |-> "none"]
Failure(outcome) == [eventType |-> "eventFailure", outcome |-> outcome]
Success == [eventType |-> "eventSuccess", outcome |-> "success"]
TimerEvent(type) == [eventType |-> type, outcome |-> "none"]

Final(event) == event.eventType \in {"eventSuccess", "eventFailure"}

\* The names of the outcomes are those of RecordSubmissionOutcome; "no request" is
\* the failure that comes before there is a request, which is not recorded.
Outcomes == {"none", "success", "cancelled", "timeout", "http_error", "bad_response",
             "4xx", "5xx", "other", "no request"}

EventRecord ==
  [eventType : {"none", "eventSuccess", "eventFailure"} \cup Timers, outcome : Outcomes]

TypeOK ==
  /\ at \in {"prepare", "select", "wait", "process", "send", "record", "done"}
  /\ ctxDone \in BOOLEAN /\ room \in BOOLEAN /\ timed \in BOOLEAN
  /\ http \in {"none", "running", "ended", "taken"}
  /\ answer \in {"none"} \cup Errors \cup Statuses
  /\ bodyRead \in {"none"} \cup Bodies
  /\ fired \subseteq Timers /\ served \subseteq Timers /\ fired \cap served = {}
  /\ pending \in EventRecord
  /\ events \in Seq(EventRecord) /\ Len(events) <= 3
  /\ penalty \subseteq Penalties
  /\ counted \in Seq(Outcomes \ {"none"}) /\ Len(counted) <= 1
  /\ body \in {"none", "open", "closed"}
  /\ body # "none" => answer \in Statuses /\ http = "taken"

Init ==
  /\ at = "prepare"
  /\ ctxDone \in BOOLEAN
  /\ http = "none" /\ answer = "none" /\ bodyRead = "none"
  /\ fired = {} /\ served = {}
  /\ room \in BOOLEAN
  /\ pending = NoEvent /\ events = <<>>
  /\ penalty = {} /\ counted = <<>> /\ timed = FALSE
  /\ body = "none"

---------------------------------------------------------------------------
(***************************************************************************)
(* The environment and the HTTP request.                                   *)
(***************************************************************************)

EndContext ==
  /\ ~ctxDone /\ at # "done"
  /\ ctxDone' = TRUE
  /\ UNCHANGED <<at, http, answer, bodyRead, fired, served, room, pending, events,
                 penalty, counted, timed, body>>

\* The coordinator takes an event, or another goroutine sends one.
ChannelChanges ==
  /\ at # "done"
  /\ room' = ~room
  /\ UNCHANGED <<at, ctxDone, http, answer, bodyRead, fired, served, pending, events,
                 penalty, counted, timed, body>>

\* The http goroutine puts the result of client.Do on httpCh, which never blocks.
RequestEnds ==
  /\ http = "running"
  /\ http' = "ended"
  /\ answer' \in Statuses \cup {e \in Errors : e = "context" => ctxDone}
  /\ UNCHANGED <<at, ctxDone, bodyRead, fired, served, room, pending, events,
                 penalty, counted, timed, body>>

TimerFires(t) ==
  /\ at \notin {"prepare", "done"}
  /\ http # "none"
  /\ t \notin fired \cup served
  /\ fired' = fired \cup {t}
  /\ UNCHANGED <<at, ctxDone, http, answer, bodyRead, served, room, pending, events,
                 penalty, counted, timed, body>>

---------------------------------------------------------------------------
(***************************************************************************)
(* The goroutine.                                                          *)
(***************************************************************************)

ToSend(event) == at' = "send" /\ pending' = event

\* The URL of the log or the request cannot be built, or the request is started.
Prepare ==
  /\ at = "prepare"
  /\ \/ ToSend(Failure("no request")) /\ UNCHANGED http
     \/ at' = "select" /\ http' = "running" /\ UNCHANGED pending
  /\ UNCHANGED <<ctxDone, answer, bodyRead, fired, served, room, events,
                 penalty, counted, timed, body>>

\* select takes any ready case, so a timer can still win after the context's end.
ServeTimer(t) ==
  /\ at = "select"
  /\ t \in fired
  /\ fired' = fired \ {t}
  /\ served' = served \cup {t}
  /\ ToSend(TimerEvent(t))
  /\ UNCHANGED <<ctxDone, http, answer, bodyRead, room, events,
                 penalty, counted, timed, body>>

\* Mutant: the response is dropped without closing its body.
LeaveOpen == body' = IF answer \in Statuses THEN "open" ELSE "none"

CloseIfAny == body' = IF answer \in Statuses THEN "closed" ELSE "none"

\* The result of the request: dropped if the context has ended meanwhile; else its
\* time is recorded and it is processed.
TakeResult ==
  /\ at = "select"
  /\ http = "ended"
  /\ http' = "taken"
  /\ \/ ctxDone /\ CloseIfAny /\ ToSend(Failure("cancelled")) /\ UNCHANGED timed
     \/ /\ ~ctxDone /\ at' = "process" /\ timed' = TRUE
        /\ body' = IF answer \in Statuses THEN "open" ELSE "none"
        /\ UNCHANGED pending
  /\ UNCHANGED <<ctxDone, answer, bodyRead, fired, served, room, events, penalty, counted>>

NoticeContext ==
  /\ at = "select"
  /\ ctxDone
  /\ at' = "wait"
  /\ UNCHANGED <<ctxDone, http, answer, bodyRead, fired, served, room, pending, events,
                 penalty, counted, timed, body>>

\* Mutant: the wait for the request has no time limit.
WaitForRequest ==
  /\ at = "wait"
  /\ http = "ended" /\ http' = "taken" /\ CloseIfAny
  /\ ToSend(Failure("cancelled"))
  /\ UNCHANGED <<ctxDone, answer, bodyRead, fired, served, room, events,
                 penalty, counted, timed>>

\* Waiting for the request, for 100 ms at the most.
WaitEnds ==
  /\ at = "wait"
  /\ \/ http = "ended" /\ http' = "taken" /\ CloseIfAny
     \/ UNCHANGED <<http, body>>
  /\ ToSend(Failure("cancelled"))
  /\ UNCHANGED <<ctxDone, answer, bodyRead, fired, served, room, events,
                 penalty, counted, timed>>

\* Mutant: a failure is reported first, and the monitor never hears of a status.
FailQuietly(outcome, kind) ==
  /\ ToSend(Failure(outcome))
  /\ penalty' = IF kind \in {"4xx", "5xx"} THEN penalty ELSE penalty \cup {kind}

\* Every failure of processHTTPResponse is recorded with the monitor, then sent.
Fail(outcome, kind) ==
  /\ ToSend(Failure(outcome))
  /\ penalty' = penalty \cup {kind}

\* processHTTPResponse.  The context is not looked at again, but its end, like the
\* client's timeout, makes reading the body fail.
Process ==
  /\ at = "process"
  /\ \/ /\ answer = "timeout" /\ Fail("timeout", "timeout") /\ UNCHANGED bodyRead
     \/ /\ answer \in Errors \ {"timeout"} /\ Fail("http_error", "bad response")
        /\ UNCHANGED bodyRead
     \/ /\ answer \in Statuses
        /\ bodyRead' \in {b \in Unread : b = "context" => ctxDone}
        /\ Fail("bad_response", "bad response")
     \/ /\ answer \in {"4xx", "5xx"} /\ bodyRead' \in Bodies \ Unread
        /\ Fail(answer, answer)
     \/ /\ answer = "other" /\ bodyRead' \in Bodies \ Unread
        /\ Fail("other", "bad response")
     \/ /\ answer = "200" /\ bodyRead' = "invalid" /\ Fail("bad_response", "bad response")
     \/ /\ answer = "200" /\ bodyRead' = "valid" /\ ToSend(Success) /\ UNCHANGED penalty
  /\ UNCHANGED <<ctxDone, http, answer, fired, served, room, events, counted, timed, body>>

\* Mutant: the loop goes on after a cancellation was reported.
AfterSendLoops ==
  CASE pending.outcome \in {"none", "cancelled"} -> "select"
    [] pending.outcome = "no request"            -> "done"
    [] OTHER                                     -> "record"

AfterSend ==
  CASE pending.outcome = "none"       -> "select"
    [] pending.outcome = "no request" -> "done"
    [] OTHER                          -> "record"

Send ==
  /\ at = "send"
  /\ room
  /\ events' = Append(events, pending)
  /\ at' = AfterSend
  /\ pending' = IF AfterSend = "record" THEN pending ELSE NoEvent
  /\ UNCHANGED <<ctxDone, http, answer, bodyRead, fired, served, room,
                 penalty, counted, timed, body>>

\* RecordSubmissionOutcome, which keeps no sample of a cancelled submission, and the
\* deferred Close of processHTTPResponse, which a cancellation does not get to.
Record ==
  /\ at = "record"
  /\ at' = "done"
  /\ counted' = IF pending.outcome = "cancelled" THEN counted ELSE Append(counted, pending.outcome)
  /\ body' = IF body = "open" /\ pending.outcome # "cancelled" THEN "closed" ELSE body
  /\ pending' = NoEvent
  /\ UNCHANGED <<ctxDone, http, answer, bodyRead, fired, served, room, events, penalty, timed>>

Terminated == at = "done" /\ UNCHANGED vars

Goroutine ==
  \/ Prepare
  \/ (\E t \in Timers : ServeTimer(t))
  \/ TakeResult \/ NoticeContext \/ WaitEnds
  \/ Process \/ Send \/ Record

Next ==
  \/ Goroutine
  \/ RequestEnds
  \/ (\E t \in Timers : TimerFires(t))
  \/ EndContext \/ ChannelChanges \/ Terminated

Spec == Init /\ [][Next]_vars

\* The goroutine runs whenever it can, and a channel that has room again and again
\* lets a waiting sender in (Go queues the senders).  Nothing is assumed of the
\* request: it may never end.
Fairness ==
  /\ WF_vars(Goroutine)
  /\ WF_vars(ChannelChanges)
  /\ SF_vars(Send)

FairSpec == Spec /\ Fairness

---------------------------------------------------------------------------
(***************************************************************************)
(* Properties.                                                             *)
(***************************************************************************)

SentFinals == {k \in DOMAIN events : Final(events[k])}

\* What Submit takes for granted of a goroutine: each timer is reported at most
\* once, exactly one final event is sent, it is the last one, and a goroutine that
\* is gone has sent it (submitToLog.go:24-27, 67-111).
EventProtocol ==
  /\ \A j, k \in DOMAIN events : events[j].eventType = events[k].eventType => j = k
  /\ SentFinals \subseteq {Len(events)}
  /\ SentFinals # {} <=> at \in {"record", "done"}

\* When the coordinator hears of a failure, the monitor knows of it already, with
\* one backoff of the kind the answer calls for; a success, a cancellation and a
\* request that could not be made cost the log nothing (submitToLog.go:85-93,
\* 132-205).
PenaltyPrecedesFailure ==
  \A k \in SentFinals :
    LET outcome == events[k].outcome
    IN  CASE outcome \in {"success", "cancelled", "no request"} -> penalty = {}
          [] outcome \in {"timeout", "4xx", "5xx"}              -> penalty = {outcome}
          [] OTHER                                              -> penalty = {"bad response"}

\* No path leaves open the body of a response that the goroutine has taken
\* (submitToLog.go:87-89, 102-104, 144).
BodyIsClosed == at = "done" => body # "open"

\* Once the context has ended, the goroutine does too, even if client.Do never
\* comes back (submitToLog.go:97-109).
CancelledGoroutineEnds == ctxDone ~> at = "done"

\* "Backoff duration after receiving a bad (unparseable) response"
\* (docs/INSTALL.md:184): a log that is held to have given a bad response has given
\* one, or has failed to answer.
BadResponseIsTheLogs ==
  "bad response" \in penalty =>
    \/ answer \in {"http error", "other"}
    \/ bodyRead \in {"invalid", "broken", "timed out"}
============================================================================
