------------------------------- MODULE Server ------------------------------
(***************************************************************************)
(* The process around the submissions: the POST handler with its deadline  *)
(* (request/post.go, webHandler in server/server.go), the health it writes *)
(* (health/health.go), the probes that read it (server/readyz.go and       *)
(* livez.go, monitoringHandler), the loops of the monitor, and main, which *)
(* stops them all after a signal (main.go).                                *)
(*                                                                         *)
(* Handle is abstracted by the two ways it may return.  Time is a counter  *)
(* of ticks, 0 the zero time, which is long ago.                           *)
(***************************************************************************)
EXTENDS Integers

CONSTANTS NumRequests,         \* bound: the POST requests considered
          Probes,              \* the GET requests of /livez and /readyz
          Loops,               \* the loops of the monitor: UptimeFetcher and STHMonitor
          RequestTimeout,      \* server.requestTimeout
          ProbeTimeout,        \* server.livezTimeout and readyzTimeout
          RememberBusyTimeout, \* server.rememberBusyTimeout
          MaxTime              \* bound: the last instant considered

ASSUME ServerAssumption ==
  /\ NumRequests \in Nat
  /\ RequestTimeout \in Nat \ {0} /\ ProbeTimeout \in Nat \ {0}
  /\ RememberBusyTimeout \in Nat
  /\ MaxTime \in Nat

\* Requests are numbered in the order of their arrival.
Requests == 1..NumRequests

VARIABLES
  now,         \* the clock
  request,     \* for each POST request: its stage, deadline and response
  probe,       \* for each probe: handler, goroutine, what that has read, response, reply
  latest,      \* the three timestamps of Health
  dataReady,   \* initialDataReady
  loop,        \* where each loop of the monitor is
  signalled,   \* the context of main is done
  stopping     \* main: "serving", then what it waits for, then "exited"

vars == <<now, request, probe, latest, dataReady, loop, signalled, stopping>>

Stages == {"absent", "handling", "timed out", "settling", "replied"}

Codes == {200, 400, 503}

\* The code is 200 until it is set.  The deadline of a request that has been answered
\* is kept only if it timed out.
Request ==
  [stage : Stages, deadline : Nat, code : Codes, body : {"none", "result", "problem"}]

Response == [code : {200, 503}, body : {"none", "OK", "ERROR"}]

Probe ==
  [kind : {"livez", "readyz"}, handler : {"absent", "select", "give up", "set body", "copy", "answered"},
   worker : {"none", "look", "compare", "set code", "set body", "ended"},
   deadline : Nat, busyRead : Nat, healthy : BOOLEAN,
   response : Response, reply : Response, known : SUBSET Requests]

TypeOK ==
  /\ now \in Nat
  /\ request \in [Requests -> Request]
  /\ probe \in [Probes -> Probe]
  /\ latest \in [{"nonError", "error", "busy"} -> Nat]
  /\ dataReady \in BOOLEAN
  /\ loop \in [Loops -> {"select", "fetching", "stopped"}]
  /\ signalled \in BOOLEAN
  /\ stopping \in {"serving", "web", "monitoring", "loops", "exited"}

Blank == [code |-> 200, body |-> "none"]

\* main up to server.Run and the goroutines it starts.
Init ==
  /\ now = 1
  /\ request = [q \in Requests |->
       [stage |-> "absent", deadline |-> 0, code |-> 200, body |-> "none"]]
  /\ probe = [p \in Probes |->
       [kind |-> "readyz", handler |-> "absent", worker |-> "none", deadline |-> 0,
        busyRead |-> 0, healthy |-> FALSE, response |-> Blank, reply |-> Blank, known |-> {}]]
  /\ latest = [t \in {"nonError", "error", "busy"} |-> 0]
  /\ dataReady = FALSE
  /\ loop = [l \in Loops |-> "select"]
  /\ signalled = FALSE
  /\ stopping = "serving"

\* Nothing happens any more once main has returned.
Running == stopping # "exited"

---------------------------------------------------------------------------
(***************************************************************************)
(* Health.                                                                 *)
(***************************************************************************)

\* Mutant: the timestamp recorded last wins.
Overwritten(times) == [t \in DOMAIN latest |-> IF times[t] # 0 THEN times[t] ELSE latest[t]]

\* UpdateLatestTimestamps: a time that is nil (0) or not later changes nothing.
Advanced(times) == [t \in DOMAIN latest |-> IF latest[t] < times[t] THEN times[t] ELSE latest[t]]

Busy(time) == [nonError |-> 0, error |-> 0, busy |-> time]

IsAlive == latest["nonError"] >= latest["error"]

\* Mutant: what was remembered is forgotten at once.
NeverRemembered(busyTime) == TRUE

Forgotten(busyTime) == busyTime = 0 \/ busyTime + RememberBusyTimeout < now

---------------------------------------------------------------------------
(***************************************************************************)
(* POST and webHandler.                                                    *)
(***************************************************************************)

ContextEnded(q) == now >= request[q].deadline

Entered == [stage |-> "handling", deadline |-> now + RequestTimeout,
            code |-> 200, body |-> "none"]

\* The listener is closed once webServer.Shutdown has been called.  An endpoint that
\* does not exist is answered at once and leaves no trace; a bad format or an empty
\* body is written as a problem, its status left to the deferred function.  Bound: the
\* deadline lies within the time considered.
Arrive(q) ==
  /\ request[q].stage = "absent"
  /\ \A r \in Requests : r < q => request[r].stage # "absent"
  /\ now + RequestTimeout <= MaxTime
  /\ stopping = "serving"
  /\ \E entered \in {Entered, [Entered EXCEPT !.stage = "settling", !.body = "problem"]} :
       request' = [request EXCEPT ![q] = entered]
  /\ UNCHANGED <<now, probe, latest, dataReady, loop, signalled, stopping>>

\* Handle returns, whatever it returns, after the deadline: POST records that the
\* service was busy at that time and returns -1 ...
TimeOut(q) ==
  /\ request[q].stage = "handling"
  /\ ContextEnded(q)
  /\ latest' = Advanced(Busy(request[q].deadline))
  /\ request' = [request EXCEPT ![q].stage = "timed out"]
  /\ UNCHANGED <<now, probe, dataReady, loop, signalled, stopping>>

\* ... upon which webHandler answers.
Refuse(q) ==
  /\ request[q].stage = "timed out"
  /\ request' = [request EXCEPT ![q].stage = "replied", ![q].code = 503]
  /\ UNCHANGED <<now, probe, latest, dataReady, loop, signalled, stopping>>

\* The body cannot be parsed, or Handle returns in time: sendResponse writes the
\* response or the error.
Send(q) ==
  /\ request[q].stage = "handling"
  /\ ~ContextEnded(q)
  /\ \E body \in {"result", "problem"} :
       request' = [request EXCEPT ![q].stage = "settling", ![q].body = body]
  /\ UNCHANGED <<now, probe, latest, dataReady, loop, signalled, stopping>>

\* Mutant: an error is the server's.
ServerError(body) == IF body = "result" THEN 200 ELSE 500

Status(body) == IF body = "result" THEN 200 ELSE 400

\* Mutant: the deferred function reports a timeout that POST has not seen.
SettleLate(q) ==
  /\ request[q].stage = "settling"
  /\ request' = [request EXCEPT ![q].stage = "replied", ![q].deadline = 0,
                                ![q].code = IF ContextEnded(q) THEN 503
                                            ELSE Status(request[q].body)]
  /\ UNCHANGED <<now, probe, latest, dataReady, loop, signalled, stopping>>

\* The deferred function, which sets the status only if there is still time.
Settle(q) ==
  /\ request[q].stage = "settling"
  /\ request' = [request EXCEPT ![q].stage = "replied", ![q].deadline = 0,
                                ![q].code = IF ContextEnded(q) THEN @
                                            ELSE Status(request[q].body)]
  /\ UNCHANGED <<now, probe, latest, dataReady, loop, signalled, stopping>>

\* What a request does by itself once it has arrived.
Work(q) == TimeOut(q) \/ Refuse(q) \/ Send(q) \/ Settle(q)

TimedOut(q) == request[q].code = 503

---------------------------------------------------------------------------
(***************************************************************************)
(* Probes: a goroutine that looks and writes the response, and a handler   *)
(* that waits for it no longer than until the deadline.  Both write the    *)
(* same response, without a lock.                                          *)
(***************************************************************************)

\* Bound: the deadline lies within the time considered.
Ask(p) ==
  /\ probe[p].handler = "absent"
  /\ stopping \in {"serving", "web"}
  /\ now + ProbeTimeout <= MaxTime
  /\ \E kind \in {"livez", "readyz"} :
       probe' = [probe EXCEPT ![p].kind = kind, ![p].handler = "select", ![p].worker = "look",
                              ![p].deadline = now + ProbeTimeout,
                              ![p].known = {q \in Requests : TimedOut(q)}]
  /\ UNCHANGED <<now, request, latest, dataReady, loop, signalled, stopping>>

\* IsAlive, and IsReady up to its unlock: nothing is ready before the initial data is.
Look(p) ==
  /\ probe[p].worker = "look"
  /\ \/ /\ probe[p].kind = "livez"
        /\ probe' = [probe EXCEPT ![p].worker = "set code", ![p].healthy = IsAlive]
     \/ /\ probe[p].kind = "readyz" /\ ~dataReady
        /\ probe' = [probe EXCEPT ![p].worker = "set code", ![p].healthy = FALSE]
     \/ /\ probe[p].kind = "readyz" /\ dataReady
        /\ probe' = [probe EXCEPT ![p].worker = "compare", ![p].busyRead = latest["busy"]]
  /\ UNCHANGED <<now, request, latest, dataReady, loop, signalled, stopping>>

\* The timestamp that was read is compared with the time it is by now.
Compare(p) ==
  /\ probe[p].worker = "compare"
  /\ probe' = [probe EXCEPT ![p].worker = "set code", ![p].busyRead = 0,
                            ![p].healthy = Forgotten(probe[p].busyRead)]
  /\ UNCHANGED <<now, request, latest, dataReady, loop, signalled, stopping>>

SetCode(p) ==
  /\ probe[p].worker = "set code"
  /\ probe' = [probe EXCEPT ![p].worker = "set body",
                            ![p].response.code = IF probe[p].healthy THEN 200 ELSE 503]
  /\ UNCHANGED <<now, request, latest, dataReady, loop, signalled, stopping>>

SetBody(p) ==
  /\ probe[p].worker = "set body"
  /\ probe' = [probe EXCEPT ![p].worker = "ended",
                            ![p].response.body = IF probe[p].healthy THEN "OK" ELSE "ERROR"]
  /\ UNCHANGED <<now, request, latest, dataReady, loop, signalled, stopping>>

\* From now on nobody sees what the goroutine goes on to do.
Answered(p) ==
  [probe[p] EXCEPT !.handler = "answered", !.reply = probe[p].response,
                   !.worker = "none", !.deadline = 0, !.busyRead = 0, !.healthy = FALSE,
                   !.response = Blank]

\* The select: the goroutine is done, or its time is up.
Answer(p) ==
  /\ probe[p].handler = "select" /\ probe[p].worker = "ended"
  /\ probe' = [probe EXCEPT ![p] = Answered(p)]
  /\ UNCHANGED <<now, request, latest, dataReady, loop, signalled, stopping>>

\* Mutant: the handler waits for the goroutine, however long that takes.
WaitOn(p) ==
  /\ probe[p].handler = "select" /\ probe[p].worker = "ended"
  /\ now >= probe[p].deadline
  /\ probe' = [probe EXCEPT ![p].handler = "give up"]
  /\ UNCHANGED <<now, request, latest, dataReady, loop, signalled, stopping>>

GiveUp(p) ==
  /\ probe[p].handler = "select"
  /\ now >= probe[p].deadline
  /\ probe' = [probe EXCEPT ![p].handler = "give up", ![p].deadline = 0]
  /\ UNCHANGED <<now, request, latest, dataReady, loop, signalled, stopping>>

\* monitoringHandler sets code and body in turn, and then has the response copied.
AnswerTimeout(p) ==
  /\ \/ /\ probe[p].handler = "give up"
        /\ probe' = [probe EXCEPT ![p].handler = "set body", ![p].response.code = 503]
     \/ /\ probe[p].handler = "set body"
        /\ probe' = [probe EXCEPT ![p].handler = "copy", ![p].response.body = "ERROR"]
     \/ /\ probe[p].handler = "copy"
        /\ probe' = [probe EXCEPT ![p] = Answered(p)]
  /\ UNCHANGED <<now, request, latest, dataReady, loop, signalled, stopping>>

Attend(p) == Answer(p) \/ GiveUp(p) \/ AnswerTimeout(p)
Examine(p) == Look(p) \/ Compare(p) \/ SetCode(p) \/ SetBody(p)

---------------------------------------------------------------------------
(***************************************************************************)
(* The loops of the monitor, and main.                                     *)
(***************************************************************************)

\* The timer wakes the loop if the signal has not done so first.  Where both are there
\* and select takes the timer, the timer may as well have come first.
TimerFires(l) ==
  /\ loop[l] = "select" /\ ~signalled
  /\ loop' = [loop EXCEPT ![l] = "fetching"]
  /\ UNCHANGED <<now, request, probe, latest, dataReady, signalled, stopping>>

FetchEnds(l) ==
  /\ loop[l] = "fetching"
  /\ loop' = [loop EXCEPT ![l] = "select"]
  /\ UNCHANGED <<now, request, probe, latest, dataReady, signalled, stopping>>

\* Mutant: the loop returns without ShutdownWG.Done.
StopsUncounted(l) ==
  /\ loop[l] = "select" /\ signalled
  /\ UNCHANGED vars

\* ShutdownWG.Done.
LoopStops(l) ==
  /\ loop[l] = "select" /\ signalled
  /\ loop' = [loop EXCEPT ![l] = "stopped"]
  /\ UNCHANGED <<now, request, probe, latest, dataReady, signalled, stopping>>

SetInitialDataReady ==
  /\ ~dataReady
  /\ dataReady' = TRUE
  /\ UNCHANGED <<now, request, probe, latest, loop, signalled, stopping>>

Signal ==
  /\ ~signalled
  /\ signalled' = TRUE
  /\ UNCHANGED <<now, request, probe, latest, dataReady, loop, stopping>>

\* Both servers are shut down, each waiting for its open connections, and then
\* ShutdownWG is waited for.
WebIsIdle == \A q \in Requests : request[q].stage \in {"absent", "replied"}
MonitoringIsIdle == \A p \in Probes : probe[p].handler \in {"absent", "answered"}

\* Mutant: the web server is not waited for.
StopAtOnce ==
  /\ \/ stopping = "serving" /\ signalled /\ stopping' = "web"
     \/ stopping = "web" /\ stopping' = "monitoring"
     \/ stopping = "monitoring" /\ MonitoringIsIdle /\ stopping' = "loops"
     \/ stopping = "loops" /\ (\A l \in Loops : loop[l] = "stopped") /\ stopping' = "exited"
  /\ UNCHANGED <<now, request, probe, latest, dataReady, loop, signalled>>

Stop ==
  /\ \/ stopping = "serving" /\ signalled /\ stopping' = "web"
     \/ stopping = "web" /\ WebIsIdle /\ stopping' = "monitoring"
     \/ stopping = "monitoring" /\ MonitoringIsIdle /\ stopping' = "loops"
     \/ stopping = "loops" /\ (\A l \in Loops : loop[l] = "stopped") /\ stopping' = "exited"
  /\ UNCHANGED <<now, request, probe, latest, dataReady, loop, signalled>>

Tick ==
  /\ now < MaxTime
  /\ now' = now + 1
  /\ UNCHANGED <<request, probe, latest, dataReady, loop, signalled, stopping>>

Next ==
  /\ Running
  /\ \/ \E q \in Requests : Arrive(q) \/ Work(q)
     \/ \E p \in Probes : Ask(p) \/ Attend(p) \/ Examine(p)
     \/ \E l \in Loops : TimerFires(l) \/ FetchEnds(l) \/ LoopStops(l)
     \/ SetInitialDataReady
     \/ Signal
     \/ Stop
     \/ Tick

Spec == Init /\ [][Next]_vars

\* Submissions return (SubmitReturns in Submit) and fetches have timeouts, so that the
\* requests, the loops and main together get on; so do the handlers of probes, and
\* time.  Nothing is asked of the goroutines that probes start.
Progress ==
  \/ \E q \in Requests : Work(q)
  \/ \E l \in Loops : FetchEnds(l) \/ LoopStops(l)
  \/ Stop

Fairness ==
  /\ WF_vars(Running /\ Progress)
  /\ \A p \in Probes : WF_vars(Running /\ Attend(p))
  /\ WF_vars(Running /\ Tick)

FairSpec == Spec /\ Fairness

---------------------------------------------------------------------------
(***************************************************************************)
(* Properties.                                                             *)
(***************************************************************************)

\* "If the request deadline was exceeded, update health tracking and return early"
\* (post.go:99): no 503 is sent that readiness does not know of, although later
\* deadlines may have been recorded before this one (health.go:38).
TimeoutIsRemembered ==
  \A q \in Requests : TimedOut(q) => latest["busy"] >= request[q].deadline

\* A result goes out as one, and only a request that has timed out gets no body: no
\* other is answered 503, also when its deadline passes between the check of POST and
\* its deferred function (post.go:71, 100), and a 400 is always an error.  What code an
\* error has is the matter of OKMeansGranted.
ResultIsSentAsOK ==
  \A q \in Requests :
    request[q].stage = "replied" =>
      /\ request[q].body = "none" <=> request[q].code = 503
      /\ request[q].body = "result" => request[q].code = 200

\* An answer with the code 200 holds a result: "Success Response (HTTP 200)", "Error
\* Response (HTTP 400)" and "Timeout Response (HTTP 503)" (docs/REST_API.md:87, 122,
\* 134; docs/openapi.yaml:68-76).  The code sends an error with 200 when the deadline
\* passes after POST has looked, as the deferred function then sets no status.
OKMeansGranted ==
  \A q \in Requests :
    request[q].stage = "replied" /\ request[q].code = 200 => request[q].body = "result"

\* A probe that says "ready", in its code or its body, does so when the initial data is
\* there and the requests that had timed out before it was asked are no longer to be
\* remembered; also when the goroutine and the handler write the response both
\* (readyz.go:33, server.go:116; health.go:91).
ReadyMeansNotBusy ==
  \A p \in Probes :
    /\ probe[p].handler = "answered" /\ probe[p].kind = "readyz"
    /\ probe[p].reply.code = 200 \/ probe[p].reply.body = "OK"
    => /\ dataReady
       /\ \A q \in probe[p].known : request[q].deadline + RememberBusyTimeout < now

\* The process ends when every request and probe it has let in is answered, and the
\* loops of the monitor have stopped (main.go:43-51).
NobodyIsCutOff ==
  stopping = "exited" =>
    WebIsIdle /\ MonitoringIsIdle /\ \A l \in Loops : loop[l] = "stopped"

\* A probe is answered even if the goroutine it has started is stuck (readyz.go:41).
ProbeIsAnswered ==
  \A p \in Probes : probe[p].handler = "select" ~> probe[p].handler = "answered"

\* A signal ends the process: the servers, the requests in flight and the loops wait
\* for one another in an order without a cycle (main.go:43-51, 65).
ShutdownEnds == signalled ~> stopping = "exited"
============================================================================
