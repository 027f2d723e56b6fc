---------------------------- MODULE ServerProofs ---------------------------
(***************************************************************************)
(* Proofs about Server, for any number of requests, probes and loops, any  *)
(* timeouts and any length of time.                                        *)
(***************************************************************************)
EXTENDS Server, TLAPS

\* Readiness knows of a request that has timed out, by a time that is not the zero time,
\* before it is answered.
Remembered(q) == request[q].deadline > 0 /\ latest["busy"] >= request[q].deadline

TimeoutsKept ==
  \A q \in Requests :
    /\ request[q].stage = "handling" => request[q].deadline > 0
    /\ request[q].stage = "timed out" => Remembered(q)
    /\ TimedOut(q) => request[q].stage = "replied" /\ Remembered(q)

\* Whoever is waited for first has finished when the next one is waited for.
StoppedInOrder ==
  /\ stopping \in {"monitoring", "loops", "exited"} => WebIsIdle
  /\ stopping \in {"loops", "exited"} => MonitoringIsIdle
  /\ stopping = "exited" => \A l \in Loops : loop[l] = "stopped"

\* What a "ready" promises of the requests that the probe knows of: once true, it is
\* true for ever.
Deserved(p) ==
  /\ dataReady
  /\ \A q \in probe[p].known : request[q].deadline + RememberBusyTimeout < now

KnownTimedOut(p) == \A q \in probe[p].known : q \in Requests /\ TimedOut(q)

\* The goroutine of a readiness probe finds it healthy only if that is deserved.
WorkerIsRight(p) ==
  /\ probe[p].worker = "compare" =>
       dataReady /\ \A q \in probe[p].known : request[q].deadline <= probe[p].busyRead
  /\ probe[p].worker \in {"set code", "set body", "ended"} /\ probe[p].healthy => Deserved(p)

\* The response says "ready" undeservedly only in its first code, as fasthttp has it,
\* which is overwritten before the response is copied.
ResponseIsRight(p) ==
  /\ probe[p].response.body = "OK" => Deserved(p)
  /\ probe[p].response.code = 200 =>
       \/ Deserved(p)
       \/ probe[p].handler \in {"absent", "give up", "answered"}
       \/ probe[p].handler = "select" /\ probe[p].worker \in {"look", "compare", "set code"}

ReplyIsRight(p) ==
  probe[p].handler = "answered" /\ (probe[p].reply.code = 200 \/ probe[p].reply.body = "OK") =>
    Deserved(p)

ProbeIsRight(p) ==
  /\ KnownTimedOut(p)
  /\ probe[p].handler = "absent" => probe[p].response = Blank /\ probe[p].worker = "none"
  /\ probe[p].kind = "readyz" => WorkerIsRight(p) /\ ResponseIsRight(p) /\ ReplyIsRight(p)

IInv == TypeOK /\ TimeoutsKept /\ StoppedInOrder /\ \A p \in Probes : ProbeIsRight(p)

---------------------------------------------------------------------------
(***************************************************************************)
(* Types.                                                                  *)
(***************************************************************************)

\* Timestamps are only replaced by timestamps (health.go:38-50).
LEMMA AdvancedType ==
  ASSUME latest \in [{"nonError", "error", "busy"} -> Nat],
         NEW times \in [{"nonError", "error", "busy"} -> Nat]
  PROVE  /\ Advanced(times) \in [{"nonError", "error", "busy"} -> Nat]
         /\ \A t \in {"nonError", "error", "busy"} :
              latest[t] <= Advanced(times)[t] /\ times[t] <= Advanced(times)[t]
  BY DEF Advanced

\* The state a process starts in has the types (main.go:39-56).
LEMMA InitType == Init => TypeOK
<1> SUFFICES ASSUME Init PROVE TypeOK
  OBVIOUS
<1>1. \A q \in Requests : [stage |-> "absent", deadline |-> 0, code |-> 200, body |-> "none"] \in Request
  <2>1. "absent" \in Stages /\ 0 \in Nat /\ 200 \in Codes /\ "none" \in {"none", "result", "problem"}
    BY DEF Stages, Codes
  <2> QED
    BY <2>1, Zenon DEF Request
<1>2. Blank \in Response
  BY DEF Blank, Response
<1>3. [kind |-> "readyz", handler |-> "absent", worker |-> "none", deadline |-> 0,
       busyRead |-> 0, healthy |-> FALSE, response |-> Blank, reply |-> Blank, known |-> {}] \in Probe
  BY <1>2 DEF Probe
<1>4. request \in [Requests -> Request] /\ probe \in [Probes -> Probe]
  BY <1>1, <1>3 DEF Init
<1> QED
  BY <1>4 DEF Init, TypeOK

\* A request that moves on stays a request (post.go:48-113).
LEMMA RequestType ==
  ASSUME TypeOK, ServerAssumption, NEW q \in Requests, Arrive(q) \/ Work(q)
  PROVE  TypeOK'
<1> DEFINE r == request[q]
<1>1. r \in Request /\ now \in Nat /\ request \in [Requests -> Request]
  BY DEF TypeOK
<1>2. 200 \in Codes /\ 400 \in Codes /\ 503 \in Codes
  BY DEF Codes
<1>3. CASE Arrive(q)
  <2>1. now + RequestTimeout \in Nat
    BY <1>1, ServerAssumption DEF ServerAssumption
  <2>2. Entered \in Request
    BY <1>2, <2>1 DEF Entered, Request, Stages
  <2>3. [Entered EXCEPT !.stage = "settling", !.body = "problem"] \in Request
    BY <2>2 DEF Request, Stages
  <2>4. request' \in [Requests -> Request]
    BY <1>1, <1>3, <2>2, <2>3 DEF Arrive
  <2> QED
    BY <1>3, <2>4 DEF Arrive, TypeOK
<1>4. CASE TimeOut(q)
  <2>1. [r EXCEPT !.stage = "timed out"] \in Request
    BY <1>1 DEF Request, Stages
  <2>2. request' = [request EXCEPT ![q] = [r EXCEPT !.stage = "timed out"]]
    BY <1>1, <1>4 DEF TimeOut
  <2>3. request' \in [Requests -> Request]
    BY <1>1, <2>1, <2>2
  <2>4. r.deadline \in Nat
    BY <1>1 DEF Request
  <2>5. Busy(r.deadline) \in [{"nonError", "error", "busy"} -> Nat]
    BY <2>4 DEF Busy
  <2>6. latest' \in [{"nonError", "error", "busy"} -> Nat]
    BY <1>4, <2>5, AdvancedType DEF TimeOut, TypeOK
  <2> QED
    BY <1>4, <2>3, <2>6 DEF TimeOut, TypeOK
<1>5. CASE Send(q)
  <2>1. PICK body \in {"result", "problem"} :
          request' = [request EXCEPT ![q] = [r EXCEPT !.stage = "settling", !.body = body]]
    BY <1>1, <1>5 DEF Send
  <2>2. [r EXCEPT !.stage = "settling", !.body = body] \in Request
    BY <1>1 DEF Request, Stages
  <2>3. request' \in [Requests -> Request]
    BY <1>1, <2>1, <2>2
  <2> QED
    BY <1>5, <2>3 DEF Send, TypeOK
<1>6. CASE Settle(q)
  <2> DEFINE code == IF ContextEnded(q) THEN r.code ELSE Status(r.body)
  <2>1. code \in Codes
    BY <1>1, <1>2 DEF Request, Status
  <2>2. request' = [request EXCEPT
                      ![q] = [r EXCEPT !.stage = "replied", !.deadline = 0, !.code = code]]
    BY <1>1, <1>6 DEF Settle
  <2> HIDE DEF code
  <2>3. [r EXCEPT !.stage = "replied", !.deadline = 0, !.code = code] \in Request
    BY <1>1, <2>1 DEF Request, Stages
  <2>4. request' \in [Requests -> Request]
    BY <1>1, <2>2, <2>3
  <2> QED
    BY <1>6, <2>4 DEF Settle, TypeOK
<1>7. CASE Refuse(q)
  <2>1. [r EXCEPT !.stage = "replied", !.code = 503] \in Request
    <3>1. 503 \in Codes
      BY <1>2
    <3> HIDE DEF r
    <3> QED
      BY <1>1, <3>1 DEF Request, Stages
  <2>2. request' = [request EXCEPT ![q] = [r EXCEPT !.stage = "replied", !.code = 503]]
    BY <1>1, <1>7 DEF Refuse
  <2>3. request' \in [Requests -> Request]
    BY <1>1, <2>1, <2>2
  <2> QED
    BY <1>7, <2>3 DEF Refuse, TypeOK
<1> QED
  BY <1>3, <1>4, <1>5, <1>6, <1>7 DEF Work

\* What a step changes of a probe.
LEMMA LookEffect ==
  ASSUME TypeOK, NEW p \in Probes, Look(p)
  PROVE  \/ /\ probe[p].kind = "livez"
            /\ probe' = [probe EXCEPT ![p] = [probe[p] EXCEPT !.worker = "set code", !.healthy = IsAlive]]
         \/ probe' = [probe EXCEPT ![p] = [probe[p] EXCEPT !.worker = "set code", !.healthy = FALSE]]
         \/ /\ dataReady
            /\ probe' = [probe EXCEPT ![p] =
                           [probe[p] EXCEPT !.worker = "compare", !.busyRead = latest["busy"]]]
<1>1. probe \in [Probes -> Probe]
  BY DEF TypeOK
<1> QED
  BY <1>1 DEF Look

LEMMA Effects ==
  ASSUME TypeOK, NEW p \in Probes
  PROVE  LET r == probe[p]
             Becomes(new) == probe' = [probe EXCEPT ![p] = new]
         IN
         /\ Compare(p) =>
              Becomes([r EXCEPT !.worker = "set code", !.busyRead = 0,
                                !.healthy = Forgotten(r.busyRead)])
         /\ SetCode(p) =>
              Becomes([r EXCEPT !.worker = "set body",
                !.response = [r.response EXCEPT !.code = IF r.healthy THEN 200 ELSE 503]])
         /\ SetBody(p) =>
              Becomes([r EXCEPT !.worker = "ended",
                !.response = [r.response EXCEPT !.body = IF r.healthy THEN "OK" ELSE "ERROR"]])
         /\ GiveUp(p) => Becomes([r EXCEPT !.handler = "give up", !.deadline = 0])
         /\ AnswerTimeout(p) =>
              \/ /\ r.handler = "give up"
                 /\ Becomes([r EXCEPT !.handler = "set body",
                                      !.response = [r.response EXCEPT !.code = 503]])
              \/ /\ r.handler = "set body"
                 /\ Becomes([r EXCEPT !.handler = "copy",
                                      !.response = [r.response EXCEPT !.body = "ERROR"]])
              \/ r.handler = "copy" /\ Becomes(Answered(p))
<1> DEFINE r == probe[p]
           Becomes(new) == probe' = [probe EXCEPT ![p] = new]
<1>1. probe \in [Probes -> Probe] /\ r \in Probe
  BY DEF TypeOK
<1>2. ASSUME Compare(p)
      PROVE  Becomes([r EXCEPT !.worker = "set code", !.busyRead = 0,
                               !.healthy = Forgotten(r.busyRead)])
  BY <1>1, <1>2 DEF Compare
<1>3. ASSUME SetCode(p)
      PROVE  Becomes([r EXCEPT !.worker = "set body",
               !.response = [r.response EXCEPT !.code = IF r.healthy THEN 200 ELSE 503]])
  BY <1>1, <1>3 DEF SetCode, Probe
<1>4. ASSUME SetBody(p)
      PROVE  Becomes([r EXCEPT !.worker = "ended",
               !.response = [r.response EXCEPT !.body = IF r.healthy THEN "OK" ELSE "ERROR"]])
  BY <1>1, <1>4 DEF SetBody, Probe
<1>5. ASSUME GiveUp(p)
      PROVE  Becomes([r EXCEPT !.handler = "give up", !.deadline = 0])
  BY <1>1, <1>5 DEF GiveUp
<1>6. ASSUME AnswerTimeout(p)
      PROVE  \/ /\ r.handler = "give up"
                /\ Becomes([r EXCEPT !.handler = "set body",
                                     !.response = [r.response EXCEPT !.code = 503]])
             \/ /\ r.handler = "set body"
                /\ Becomes([r EXCEPT !.handler = "copy",
                                     !.response = [r.response EXCEPT !.body = "ERROR"]])
             \/ r.handler = "copy" /\ Becomes(Answered(p))
  <2>1. CASE r.handler = "give up"
    <3>1. probe' = [probe EXCEPT ![p].handler = "set body", ![p].response.code = 503]
      BY <1>6, <2>1 DEF AnswerTimeout
    <3>2. Becomes([r EXCEPT !.handler = "set body", !.response = [r.response EXCEPT !.code = 503]])
      BY <1>1, <3>1 DEF Probe
    <3> QED
      BY <2>1, <3>2, Zenon
  <2>2. CASE r.handler = "set body"
    <3>1. probe' = [probe EXCEPT ![p].handler = "copy", ![p].response.body = "ERROR"]
      BY <1>6, <2>2 DEF AnswerTimeout
    <3>2. Becomes([r EXCEPT !.handler = "copy", !.response = [r.response EXCEPT !.body = "ERROR"]])
      BY <1>1, <3>1 DEF Probe
    <3> QED
      BY <2>2, <3>2, Zenon
  <2>3. CASE r.handler = "copy"
    BY <1>6, <2>3 DEF AnswerTimeout
  <2> QED
    BY <1>6, <2>1, <2>2, <2>3 DEF AnswerTimeout
<1> QED
  BY <1>2, <1>3, <1>4, <1>5, <1>6, Zenon

\* A probe that moves on stays a probe (server.go:78-127).
LEMMA ProbeType ==
  ASSUME TypeOK, ServerAssumption, NEW p \in Probes, Ask(p) \/ Attend(p) \/ Examine(p)
  PROVE  TypeOK'
<1> DEFINE r == probe[p]
<1>1. r \in Probe /\ now \in Nat /\ probe \in [Probes -> Probe]
  BY DEF TypeOK
<1>2. r.response \in Response /\ r.busyRead \in Nat
  BY <1>1 DEF Probe
<1>3. Blank \in Response
  BY DEF Response, Blank
<1>4. UNCHANGED <<now, request, latest, dataReady, loop, signalled, stopping>>
  BY DEF Ask, Attend, Answer, GiveUp, AnswerTimeout, Examine, Look, Compare, SetCode, SetBody
<1>5. SUFFICES \E new \in Probe : probe' = [probe EXCEPT ![p] = new]
  BY <1>1, <1>4 DEF TypeOK
<1>6. CASE Ask(p)
  <2> DEFINE deadline == now + ProbeTimeout
             known    == {q \in Requests : TimedOut(q)}
  <2>1. deadline \in Nat
    BY <1>1, ServerAssumption DEF ServerAssumption
  <2>2. known \in SUBSET Requests
    OBVIOUS
  <2>3. PICK kind \in {"livez", "readyz"} :
          probe' = [probe EXCEPT ![p].kind = kind, ![p].handler = "select", ![p].worker = "look",
                                 ![p].deadline = deadline, ![p].known = known]
    BY <1>6, Zenon DEF Ask
  <2> HIDE DEF deadline, known
  <2>4. probe' = [probe EXCEPT ![p] =
            [r EXCEPT !.kind = kind, !.handler = "select", !.worker = "look",
                      !.deadline = deadline, !.known = known]]
    BY <1>1, <2>3
  <2>5. [r EXCEPT !.kind = kind, !.handler = "select", !.worker = "look",
                  !.deadline = deadline, !.known = known] \in Probe
    BY <1>1, <2>1, <2>2 DEF Probe
  <2> QED
    BY <2>4, <2>5
<1>7. CASE Examine(p)
  <2>1. CASE Look(p)
    <3>1. latest["busy"] \in Nat
      BY DEF TypeOK
    <3>2. IsAlive \in BOOLEAN
      BY DEF IsAlive
    <3>3. /\ [r EXCEPT !.worker = "set code", !.healthy = IsAlive] \in Probe
          /\ [r EXCEPT !.worker = "set code", !.healthy = FALSE] \in Probe
      BY <1>1, <3>2 DEF Probe
    <3>4. [r EXCEPT !.worker = "compare", !.busyRead = latest["busy"]] \in Probe
      BY <1>1, <3>1 DEF Probe
    <3> QED
      BY <2>1, <3>3, <3>4, LookEffect, Zenon
  <2>2. CASE Compare(p)
    <3> DEFINE healthy == Forgotten(r.busyRead)
    <3>1. healthy \in BOOLEAN
      BY DEF Forgotten
    <3>2. probe' = [probe EXCEPT ![p] = [r EXCEPT !.worker = "set code", !.busyRead = 0, !.healthy = healthy]]
      BY <2>2, Effects, Zenon
    <3> HIDE DEF healthy
    <3>3. [r EXCEPT !.worker = "set code", !.busyRead = 0, !.healthy = healthy] \in Probe
      BY <1>1, <3>1 DEF Probe
    <3> QED
      BY <3>2, <3>3
  <2>3. CASE SetCode(p)
    <3> DEFINE response == [r.response EXCEPT !.code = IF r.healthy THEN 200 ELSE 503]
    <3>1. response \in Response
      BY <1>2 DEF Response
    <3>2. probe' = [probe EXCEPT ![p] = [r EXCEPT !.worker = "set body", !.response = response]]
      BY <2>3, Effects, Zenon
    <3> HIDE DEF response
    <3>3. [r EXCEPT !.worker = "set body", !.response = response] \in Probe
      BY <1>1, <3>1 DEF Probe
    <3> QED
      BY <3>2, <3>3
  <2>4. CASE SetBody(p)
    <3> DEFINE response == [r.response EXCEPT !.body = IF r.healthy THEN "OK" ELSE "ERROR"]
    <3>1. response \in Response
      BY <1>2 DEF Response
    <3>2. probe' = [probe EXCEPT ![p] = [r EXCEPT !.worker = "ended", !.response = response]]
      BY <2>4, Effects, Zenon
    <3> HIDE DEF response
    <3>3. [r EXCEPT !.worker = "ended", !.response = response] \in Probe
      BY <1>1, <3>1 DEF Probe
    <3> QED
      BY <3>2, <3>3
  <2> QED
    BY <1>7, <2>1, <2>2, <2>3, <2>4 DEF Examine
<1>8. CASE Attend(p)
  <2>1. Answered(p) \in Probe
    BY <1>1, <1>2, <1>3 DEF Answered, Probe
  <2>2. CASE Answer(p)
    BY <2>1, <2>2 DEF Answer
  <2>3. CASE GiveUp(p)
    <3>1. [r EXCEPT !.handler = "give up", !.deadline = 0] \in Probe
      BY <1>1 DEF Probe
    <3> QED
      BY <2>3, <3>1, Effects, Zenon
  <2>4. CASE AnswerTimeout(p)
    <3> DEFINE coded  == [r.response EXCEPT !.code = 503]
               bodied == [r.response EXCEPT !.body = "ERROR"]
    <3>1. coded \in Response /\ bodied \in Response
      BY <1>2 DEF Response
    <3>2. \/ probe' = [probe EXCEPT ![p] = [r EXCEPT !.handler = "set body", !.response = coded]]
          \/ probe' = [probe EXCEPT ![p] = [r EXCEPT !.handler = "copy", !.response = bodied]]
          \/ probe' = [probe EXCEPT ![p] = Answered(p)]
      BY <2>4, Effects, Zenon
    <3> HIDE DEF coded, bodied
    <3>3. /\ [r EXCEPT !.handler = "set body", !.response = coded] \in Probe
          /\ [r EXCEPT !.handler = "copy", !.response = bodied] \in Probe
      BY <1>1, <3>1 DEF Probe
    <3> QED
      BY <2>1, <3>2, <3>3
  <2> QED
    BY <1>8, <2>2, <2>3, <2>4 DEF Attend
<1> QED
  BY <1>6, <1>7, <1>8

\* Types hold in every reachable state of the process.
LEMMA TypeStep ==
  ASSUME TypeOK, ServerAssumption, [Next]_vars
  PROVE  TypeOK'
<1>1. CASE UNCHANGED vars
  BY <1>1 DEF TypeOK, vars
<1>2. CASE \E q \in Requests : Arrive(q) \/ Work(q)
  BY <1>2, RequestType
<1>3. CASE \E p \in Probes : Ask(p) \/ Attend(p) \/ Examine(p)
  BY <1>3, ProbeType
<1>4. CASE \E l \in Loops : TimerFires(l) \/ FetchEnds(l) \/ LoopStops(l)
  BY <1>4 DEF TypeOK, TimerFires, FetchEnds, LoopStops
<1>5. CASE SetInitialDataReady \/ Signal \/ Stop \/ Tick
  <2>1. CASE SetInitialDataReady \/ Signal \/ Stop
    BY <1>5, <2>1 DEF TypeOK, SetInitialDataReady, Signal, Stop
  <2>2. CASE Tick
    BY <2>2 DEF TypeOK, Tick
  <2> QED
    BY <1>5, <2>1, <2>2
<1> QED
  BY <1>1, <1>2, <1>3, <1>4, <1>5 DEF Next

\* The variables of the process keep their types, whatever the timeouts: the three
\* timestamps stay numbers, and a reply has one of the codes 200, 400 and 503.
THEOREM TypeCorrect == Spec => []TypeOK
<1> USE ServerAssumption
<1>1. Init => TypeOK
  BY InitType
<1>2. TypeOK /\ [Next]_vars => TypeOK'
  BY TypeStep
<1> QED
  BY <1>1, <1>2, PTL DEF Spec

---------------------------------------------------------------------------
(***************************************************************************)
(* Health.                                                                 *)
(***************************************************************************)

\* A timestamp is either left alone or brought forward (health.go:38).
LEMMA LatestStep ==
  ASSUME TypeOK, [Next]_vars
  PROVE  \A t \in {"nonError", "error", "busy"} : latest[t] <= latest'[t]
<1>1. latest \in [{"nonError", "error", "busy"} -> Nat]
  BY DEF TypeOK
<1>2. CASE UNCHANGED latest
  BY <1>1, <1>2
<1>3. CASE \E q \in Requests : TimeOut(q)
  <2>1. PICK q \in Requests : TimeOut(q)
    BY <1>3
  <2>2. request[q].deadline \in Nat
    BY DEF TypeOK, Request
  <2>3. Busy(request[q].deadline) \in [{"nonError", "error", "busy"} -> Nat]
    BY <2>2 DEF Busy
  <2> QED
    BY <1>1, <2>1, <2>3, AdvancedType DEF TimeOut
<1>4. UNCHANGED latest \/ \E q \in Requests : TimeOut(q)
  BY DEF Next, vars, Arrive, Work, Refuse, Send, Settle, Ask, Attend, Answer, GiveUp,
         AnswerTimeout, Examine, Look, Compare, SetCode, SetBody, TimerFires, FetchEnds, LoopStops, SetInitialDataReady,
         Signal, Stop, Tick
<1> QED
  BY <1>2, <1>3, <1>4

\* What a step of a request does to it.
LEMMA RequestStep ==
  ASSUME TypeOK, ServerAssumption, TimeoutsKept, NEW q \in Requests, Arrive(q) \/ Work(q)
  PROVE  /\ \A r \in Requests \ {q} : request'[r] = request[r]
         /\ request[q].stage # "replied" /\ ~TimedOut(q)
         /\ request'[q].stage = "handling" => request'[q].deadline > 0
         /\ request'[q].stage = "timed out" =>
              /\ TimeOut(q) /\ request[q].stage = "handling"
              /\ request'[q].deadline = request[q].deadline
         /\ TimedOut(q)' =>
              /\ request'[q].stage = "replied" /\ request[q].stage = "timed out"
              /\ request'[q].deadline = request[q].deadline
<1>1. request[q] \in Request /\ request \in [Requests -> Request]
  BY DEF TypeOK
<1>2. CASE Arrive(q)
  <2>1. PICK entered \in {Entered, [Entered EXCEPT !.stage = "settling", !.body = "problem"]} :
          request' = [request EXCEPT ![q] = entered]
    BY <1>2 DEF Arrive
  <2>2. Entered.code = 200 /\ [Entered EXCEPT !.stage = "settling", !.body = "problem"].code = 200
    BY DEF Entered
  <2>3. entered.code = 200
    BY <2>1, <2>2
  <2>4. now + RequestTimeout > 0
    BY ServerAssumption DEF ServerAssumption, TypeOK
  <2>5. entered.stage # "timed out" /\ (entered.stage = "handling" => entered.deadline > 0)
    <3>1. [Entered EXCEPT !.stage = "settling", !.body = "problem"].stage = "settling"
      BY DEF Entered
    <3>2. Entered.stage = "handling" /\ Entered.deadline = now + RequestTimeout
      BY DEF Entered
    <3> QED
      BY <2>1, <2>4, <3>1, <3>2
  <2>6. request[q].stage # "replied" /\ ~TimedOut(q)
    BY <1>2 DEF Arrive, TimeoutsKept
  <2>7. request'[q] = entered /\ \A r \in Requests \ {q} : request'[r] = request[r]
    BY <1>1, <2>1
  <2>8. ~TimedOut(q)'
    BY <2>3, <2>7 DEF TimedOut
  <2> QED
    BY <2>5, <2>6, <2>7, <2>8
<1>3. ASSUME TimeOut(q) \/ Refuse(q) \/ Send(q) \/ Settle(q)
      PROVE  /\ request[q].stage # "replied" /\ ~TimedOut(q)
             /\ \A r \in Requests \ {q} : request'[r] = request[r]
  <2>1. request[q].stage # "replied"
    BY <1>3 DEF TimeOut, Refuse, Send, Settle
  <2>2. \A r \in Requests \ {q} : request'[r] = request[r]
    BY <1>1, <1>3 DEF TimeOut, Refuse, Send, Settle
  <2> QED
    BY <2>1, <2>2 DEF TimeoutsKept
<1>4. CASE TimeOut(q)
  <2>1. /\ request'[q].stage = "timed out" /\ request'[q].code = request[q].code
        /\ request'[q].deadline = request[q].deadline
    BY <1>1, <1>4 DEF TimeOut, Request
  <2>2. ~TimedOut(q)'
    BY <1>3, <1>4, <2>1 DEF TimedOut
  <2>3. request[q].stage = "handling"
    BY <1>4 DEF TimeOut
  <2> QED
    BY <1>3, <1>4, <2>1, <2>2, <2>3
<1>5. CASE Refuse(q)
  <2>1. request'[q].stage = "replied" /\ request'[q].deadline = request[q].deadline
    BY <1>1, <1>5 DEF Refuse, Request
  <2>2. request[q].stage = "timed out"
    BY <1>5 DEF Refuse
  <2> QED
    BY <1>3, <1>5, <2>1, <2>2
<1>6. CASE Send(q)
  <2>1. request'[q].stage = "settling" /\ request'[q].code = request[q].code
    BY <1>1, <1>6 DEF Send, Request
  <2>2. ~TimedOut(q)'
    BY <1>3, <1>6, <2>1 DEF TimedOut
  <2> QED
    BY <1>3, <1>6, <2>1, <2>2
<1>7. CASE Settle(q)
  <2>1. /\ request'[q].stage = "replied"
        /\ request'[q].code = IF ContextEnded(q) THEN request[q].code ELSE Status(request[q].body)
    BY <1>1, <1>7 DEF Settle, Request
  <2>2. request[q].code # 503
    BY <1>3, <1>7 DEF TimedOut
  <2>3. request'[q].code # 503
    BY <2>1, <2>2 DEF Status
  <2>4. ~TimedOut(q)'
    BY <2>3 DEF TimedOut
  <2> QED
    BY <1>3, <1>7, <2>1, <2>4
<1> QED
  BY <1>2, <1>4, <1>5, <1>6, <1>7 DEF Work

\* Only requests that arrive or work change.
LEMMA RequestsMove ==
  [Next]_vars => UNCHANGED request \/ \E r \in Requests : Arrive(r) \/ Work(r)
  BY DEF Next, vars, Ask, Attend, Answer, GiveUp, AnswerTimeout, Examine,
         Look, Compare, SetCode, SetBody, TimerFires, FetchEnds, LoopStops, SetInitialDataReady,
         Signal, Stop, Tick

\* A request that has timed out is not touched again ...
LEMMA TimedOutStays ==
  ASSUME TypeOK, TimeoutsKept, [Next]_vars, NEW q \in Requests, TimedOut(q)
  PROVE  request'[q] = request[q]
  BY RequestsMove, RequestStep, ServerAssumption

\* ... and is remembered from before it is answered (post.go:99-104).
LEMMA TimeoutsStep ==
  ASSUME TypeOK, TimeoutsKept, [Next]_vars
  PROVE  TimeoutsKept'
<1> SUFFICES ASSUME NEW q \in Requests
             PROVE  /\ request'[q].stage = "handling" => request'[q].deadline > 0
                    /\ request'[q].stage = "timed out" => Remembered(q)'
                    /\ TimedOut(q)' => request'[q].stage = "replied" /\ Remembered(q)'
  BY DEF TimeoutsKept
<1>1. /\ latest["busy"] \in Nat /\ request[q].deadline \in Nat
      /\ latest["busy"] <= latest'["busy"] /\ latest'["busy"] \in Nat
  BY LatestStep, TypeStep, ServerAssumption DEF TypeOK, Request
<1>2. CASE request'[q] = request[q]
  <2>1. Remembered(q) => Remembered(q)'
    BY <1>1, <1>2 DEF Remembered
  <2>2. TimedOut(q)' <=> TimedOut(q)
    BY <1>2 DEF TimedOut
  <2> QED
    BY <1>2, <2>1, <2>2 DEF TimeoutsKept
<1>3. CASE Arrive(q) \/ Work(q)
  <2>1. request'[q].stage = "handling" => request'[q].deadline > 0
    BY <1>3, RequestStep, ServerAssumption
  <2>2. ASSUME request'[q].stage = "timed out"
        PROVE  Remembered(q)'
    <3>1. /\ TimeOut(q) /\ request[q].stage = "handling"
          /\ request'[q].deadline = request[q].deadline
      BY <1>3, <2>2, RequestStep, ServerAssumption
    <3>2. Busy(request[q].deadline) \in [{"nonError", "error", "busy"} -> Nat]
      BY <1>1 DEF Busy
    <3>3. Busy(request[q].deadline)["busy"] <= latest'["busy"]
      BY <3>1, <3>2, AdvancedType DEF TimeOut, TypeOK
    <3>4. Busy(request[q].deadline)["busy"] = request[q].deadline
      BY DEF Busy
    <3> QED
      BY <1>1, <3>1, <3>3, <3>4 DEF TimeoutsKept, Remembered
  <2>3. ASSUME TimedOut(q)'
        PROVE  request'[q].stage = "replied" /\ Remembered(q)'
    <3>1. /\ request'[q].stage = "replied" /\ request[q].stage = "timed out"
          /\ request'[q].deadline = request[q].deadline
      BY <1>3, <2>3, RequestStep, ServerAssumption
    <3>2. Remembered(q)
      BY <3>1 DEF TimeoutsKept
    <3>3. request'[q].deadline = request[q].deadline
      BY <3>1
    <3>4. request[q].deadline > 0 /\ latest["busy"] >= request[q].deadline
      BY <3>2 DEF Remembered
    <3>5. request'[q].deadline > 0 /\ latest'["busy"] >= request'[q].deadline
      BY <1>1, <3>3, <3>4
    <3> QED
      BY <3>1, <3>5 DEF Remembered
  <2> QED
    BY <2>1, <2>2, <2>3
<1>4. request'[q] = request[q] \/ Arrive(q) \/ Work(q)
  BY RequestsMove, RequestStep, ServerAssumption
<1> QED
  BY <1>2, <1>3, <1>4

---------------------------------------------------------------------------
(***************************************************************************)
(* Shutdown.                                                               *)
(***************************************************************************)

\* Nobody is let in behind the back of main (server.go:185-197, main.go:43-51).
LEMMA StopStep ==
  ASSUME TypeOK, StoppedInOrder, [Next]_vars
  PROVE  StoppedInOrder'
<1>1. CASE UNCHANGED vars
  BY <1>1 DEF vars, StoppedInOrder, WebIsIdle, MonitoringIsIdle
<1>2. CASE \E q \in Requests : Arrive(q) \/ Work(q)
  <2>1. stopping' = stopping /\ stopping \in {"serving", "web"} /\ UNCHANGED <<probe, loop>>
    <3>1. PICK q \in Requests : Arrive(q) \/ Work(q)
      BY <1>2
    <3>2. UNCHANGED <<stopping, probe, loop>>
      BY <3>1 DEF Arrive, Work, TimeOut, Refuse, Send, Settle
    <3>3. stopping = "serving" \/ request[q].stage \in {"handling", "timed out", "settling"}
      BY <3>1 DEF Arrive, Work, TimeOut, Refuse, Send, Settle
    <3>4. stopping = "serving" \/ ~WebIsIdle
      BY <3>3 DEF WebIsIdle
    <3> QED
      BY <3>2, <3>4 DEF StoppedInOrder, TypeOK
  <2> QED
    BY <2>1 DEF StoppedInOrder
<1>3. CASE \E p \in Probes : Ask(p) \/ Attend(p) \/ Examine(p)
  <2>1. PICK p \in Probes : Ask(p) \/ Attend(p) \/ Examine(p)
    BY <1>3
  <2>2. UNCHANGED <<stopping, request, loop>>
    BY <2>1 DEF Ask, Attend, Answer, GiveUp, AnswerTimeout, Examine, Look, Compare, SetCode, SetBody
  <2>3. CASE stopping \in {"serving", "web", "monitoring"}
    BY <2>2, <2>3 DEF StoppedInOrder, WebIsIdle
  <2>4. CASE stopping \in {"loops", "exited"}
    <3>1. MonitoringIsIdle /\ probe \in [Probes -> Probe]
      BY <2>4 DEF StoppedInOrder, TypeOK
    <3>2. Examine(p)
      BY <2>1, <2>4, <3>1 DEF Ask, Attend, Answer, GiveUp, AnswerTimeout, MonitoringIsIdle
    <3>3. probe' [p].handler = probe[p].handler /\ \A x \in Probes \ {p} : probe'[x] = probe[x]
      <4>1. probe[p] \in Probe
        BY <3>1
      <4>2. CASE Look(p)
        BY <3>1, <4>1, <4>2 DEF Look, Probe
      <4>3. CASE Compare(p)
        BY <3>1, <4>1, <4>3 DEF Compare, Probe
      <4>4. CASE SetCode(p)
        BY <3>1, <4>1, <4>4 DEF SetCode, Probe
      <4>5. CASE SetBody(p)
        BY <3>1, <4>1, <4>5 DEF SetBody, Probe
      <4> QED
        BY <3>2, <4>2, <4>3, <4>4, <4>5 DEF Examine
    <3>4. MonitoringIsIdle'
      BY <3>1, <3>3 DEF MonitoringIsIdle
    <3> QED
      BY <2>2, <3>4 DEF StoppedInOrder, WebIsIdle
  <2> QED
    BY <2>3, <2>4 DEF TypeOK
<1>4. CASE \E l \in Loops : TimerFires(l) \/ FetchEnds(l) \/ LoopStops(l)
  BY <1>4 DEF StoppedInOrder, WebIsIdle, MonitoringIsIdle, TypeOK, TimerFires, FetchEnds, LoopStops
<1>5. CASE SetInitialDataReady \/ Signal \/ Tick
  BY <1>5 DEF StoppedInOrder, WebIsIdle, MonitoringIsIdle, SetInitialDataReady, Signal, Tick
<1>6. CASE Stop
  BY <1>6 DEF StoppedInOrder, WebIsIdle, MonitoringIsIdle, Stop
<1> QED
  BY <1>1, <1>2, <1>3, <1>4, <1>5, <1>6 DEF Next

---------------------------------------------------------------------------
(***************************************************************************)
(* Readiness.                                                              *)
(***************************************************************************)

\* What a probe may say is not affected by others, by time or by later timeouts.
LEMMA ProbeLeftAlone ==
  ASSUME TypeOK, ServerAssumption, TimeoutsKept, NEW p \in Probes, ProbeIsRight(p),
         probe'[p] = probe[p], dataReady => dataReady', now' \in Nat, now <= now',
         \A q \in Requests : TimedOut(q) => request'[q] = request[q]
  PROVE  ProbeIsRight(p)'
<1>1. \A q \in probe[p].known :
        /\ q \in Requests /\ TimedOut(q) /\ request'[q] = request[q]
        /\ request[q].deadline \in Nat
  BY DEF ProbeIsRight, KnownTimedOut, TypeOK, Request
<1>2. KnownTimedOut(p)'
  BY <1>1 DEF KnownTimedOut, TimedOut
<1>3. now \in Nat /\ RememberBusyTimeout \in Nat
  BY DEF TypeOK, ServerAssumption
<1>4. Deserved(p) => Deserved(p)'
  BY <1>1, <1>3 DEF Deserved
<1>5. CASE probe[p].kind = "readyz"
  <2>1. WorkerIsRight(p) /\ ResponseIsRight(p) /\ ReplyIsRight(p)
    BY <1>5 DEF ProbeIsRight
  <2>2. WorkerIsRight(p)'
    BY <1>1, <1>4, <2>1 DEF WorkerIsRight
  <2>3. ResponseIsRight(p)'
    BY <1>4, <2>1 DEF ResponseIsRight
  <2>4. ReplyIsRight(p)'
    BY <1>4, <2>1 DEF ReplyIsRight
  <2> QED
    BY <1>2, <2>2, <2>3, <2>4 DEF ProbeIsRight
<1> QED
  BY <1>2, <1>5 DEF ProbeIsRight

\* What is deserved and known stays so while a probe is at work on its response.
LEMMA AtWork ==
  ASSUME NEW p \in Probes, KnownTimedOut(p), probe'[p].known = probe[p].known,
         UNCHANGED <<now, request, dataReady>>
  PROVE  KnownTimedOut(p)' /\ (Deserved(p) => Deserved(p)')
  BY DEF KnownTimedOut, Deserved, TimedOut

\* The handler of a probe that arrives (server.go:78-94).
LEMMA AskStep ==
  ASSUME TypeOK, TimeoutsKept, NEW p \in Probes, ProbeIsRight(p), Ask(p)
  PROVE  ProbeIsRight(p)'
<1> DEFINE known == {q \in Requests : TimedOut(q)}
<1>1. PICK kind \in {"livez", "readyz"} :
        probe' = [probe EXCEPT ![p].kind = kind, ![p].handler = "select", ![p].worker = "look",
                               ![p].deadline = now + ProbeTimeout, ![p].known = known]
  BY Zenon DEF Ask
<1>2. probe \in [Probes -> Probe] /\ probe[p] \in Probe
  BY DEF TypeOK
<1> HIDE DEF known
<1>3. /\ probe'[p].handler = "select" /\ probe'[p].worker = "look" /\ probe'[p].known = known
      /\ probe'[p].response = probe[p].response
  BY <1>1, <1>2 DEF Probe
<1>4. UNCHANGED request /\ probe[p].handler = "absent"
  BY DEF Ask
<1>5. KnownTimedOut(p)'
  BY <1>3, <1>4 DEF KnownTimedOut, TimedOut, known
<1>6. probe'[p].response = Blank
  BY <1>3, <1>4 DEF ProbeIsRight
<1>7. WorkerIsRight(p)' /\ ResponseIsRight(p)' /\ ReplyIsRight(p)'
  BY <1>3, <1>6 DEF WorkerIsRight, ResponseIsRight, ReplyIsRight, Blank
<1> QED
  BY <1>3, <1>5, <1>7 DEF ProbeIsRight

\* The goroutine of a probe (readyz.go:25-40, health.go:76-91).
LEMMA ExamineStep ==
  ASSUME TypeOK, ServerAssumption, TimeoutsKept, NEW p \in Probes, ProbeIsRight(p), Examine(p)
  PROVE  ProbeIsRight(p)'
<1> DEFINE r == probe[p]
<1>1. probe \in [Probes -> Probe] /\ r \in Probe /\ r.response \in Response
  BY DEF TypeOK, Probe
<1>2. UNCHANGED <<now, request, latest, dataReady>>
  BY DEF Examine, Look, Compare, SetCode, SetBody
<1>3. /\ probe'[p].kind = r.kind /\ probe'[p].handler = r.handler
      /\ probe'[p].known = r.known /\ probe'[p].reply = r.reply
  <2>1. CASE Look(p)
    <3>1. \/ probe' = [probe EXCEPT ![p] = [r EXCEPT !.worker = "set code", !.healthy = IsAlive]]
          \/ probe' = [probe EXCEPT ![p] = [r EXCEPT !.worker = "set code", !.healthy = FALSE]]
          \/ probe' = [probe EXCEPT ![p] = [r EXCEPT !.worker = "compare", !.busyRead = latest["busy"]]]
      BY <2>1, LookEffect, Zenon
    <3>3. CASE probe' = [probe EXCEPT ![p] = [r EXCEPT !.worker = "set code", !.healthy = IsAlive]]
      BY <1>1, <3>3 DEF Probe
    <3>4. CASE probe' = [probe EXCEPT ![p] = [r EXCEPT !.worker = "set code", !.healthy = FALSE]]
      BY <1>1, <3>4 DEF Probe
    <3>5. CASE probe' = [probe EXCEPT ![p] = [r EXCEPT !.worker = "compare", !.busyRead = latest["busy"]]]
      BY <1>1, <3>5 DEF Probe
    <3> QED
      BY <3>1, <3>3, <3>4, <3>5
  <2>2. CASE Compare(p)
    BY <1>1, <2>2 DEF Compare, Probe
  <2>3. CASE SetCode(p)
    BY <1>1, <2>3 DEF SetCode, Probe
  <2>4. CASE SetBody(p)
    BY <1>1, <2>4 DEF SetBody, Probe
  <2> QED
    BY <2>1, <2>2, <2>3, <2>4 DEF Examine
<1>4. KnownTimedOut(p)' /\ (Deserved(p) => Deserved(p)')
  BY <1>2, <1>3, AtWork DEF ProbeIsRight
<1>5. r.handler # "absent"
  BY DEF ProbeIsRight, Examine, Look, Compare, SetCode, SetBody
<1>6. SUFFICES ASSUME r.kind = "readyz"
               PROVE  WorkerIsRight(p)' /\ ResponseIsRight(p)'
  <2>1. r.kind = "readyz" => ReplyIsRight(p)'
    BY <1>3, <1>4 DEF ProbeIsRight, ReplyIsRight
  <2> QED
    BY <1>3, <1>4, <1>5, <2>1 DEF ProbeIsRight
<1>7. WorkerIsRight(p) /\ ResponseIsRight(p)
  BY <1>6 DEF ProbeIsRight
<1>8. CASE Look(p)
  <2>0. r.worker = "look"
    BY <1>8 DEF Look
  <2>1. CASE probe' = [probe EXCEPT ![p] = [r EXCEPT !.worker = "set code", !.healthy = FALSE]]
    <3>1. probe'[p].worker = "set code" /\ probe'[p].healthy = FALSE /\ probe'[p].response = r.response
      BY <1>1, <2>1 DEF Probe
    <3> QED
      BY <1>3, <1>4, <1>7, <2>0, <3>1 DEF WorkerIsRight, ResponseIsRight
  <2>2. CASE /\ probe' = [probe EXCEPT ![p] = [r EXCEPT !.worker = "compare", !.busyRead = latest["busy"]]]
             /\ dataReady
    <3>1. /\ probe'[p].worker = "compare" /\ probe'[p].busyRead = latest["busy"]
          /\ probe'[p].response = r.response
      BY <1>1, <2>2 DEF Probe
    <3>2. \A q \in r.known : request[q].deadline <= latest["busy"]
      <4>1. latest["busy"] \in Nat /\ \A q \in Requests : request[q].deadline \in Nat
        BY DEF TypeOK, Request
      <4> QED
        BY <4>1 DEF ProbeIsRight, KnownTimedOut, TimeoutsKept, Remembered
    <3>3. WorkerIsRight(p)'
      BY <1>2, <1>3, <2>2, <3>1, <3>2 DEF WorkerIsRight
    <3>4. ResponseIsRight(p)'
      BY <1>3, <1>4, <1>7, <2>0, <3>1 DEF ResponseIsRight
    <3> QED
      BY <3>3, <3>4
  <2> QED
    BY <1>6, <1>8, <2>1, <2>2, LookEffect, Zenon
<1>9. CASE Compare(p)
  <2>1. /\ r.worker = "compare" /\ probe'[p].worker = "set code"
        /\ probe'[p].healthy = Forgotten(r.busyRead) /\ probe'[p].response = r.response
    BY <1>1, <1>9 DEF Compare, Probe
  <2>2. ResponseIsRight(p)'
    BY <1>3, <1>4, <1>7, <2>1 DEF ResponseIsRight
  <2>3. Forgotten(r.busyRead) => Deserved(p)
    <3>1. dataReady /\ \A q \in r.known : request[q].deadline <= r.busyRead
      BY <1>7, <2>1 DEF WorkerIsRight
    <3>2. \A q \in r.known : request[q].deadline \in Nat /\ request[q].deadline > 0
      BY DEF ProbeIsRight, KnownTimedOut, TimeoutsKept, Remembered, TypeOK, Request
    <3>3. now \in Nat /\ RememberBusyTimeout \in Nat /\ r.busyRead \in Nat
      BY <1>1 DEF TypeOK, ServerAssumption, Probe
    <3> QED
      BY <3>1, <3>2, <3>3 DEF Forgotten, Deserved
  <2>4. WorkerIsRight(p)'
    BY <1>4, <2>1, <2>3 DEF WorkerIsRight
  <2> QED
    BY <2>2, <2>4
<1>10. CASE SetCode(p)
  <2>1. /\ r.worker = "set code" /\ probe'[p].worker = "set body" /\ probe'[p].healthy = r.healthy
        /\ probe'[p].response.body = r.response.body
        /\ probe'[p].response.code = IF r.healthy THEN 200 ELSE 503
    <3> DEFINE response == [r.response EXCEPT !.code = IF r.healthy THEN 200 ELSE 503]
    <3>1. probe' = [probe EXCEPT ![p] = [r EXCEPT !.worker = "set body", !.response = response]]
      BY <1>10, Effects, Zenon
    <3>2. response.body = r.response.body /\ response.code = IF r.healthy THEN 200 ELSE 503
      BY <1>1 DEF Response
    <3>3. r.worker = "set code"
      BY <1>10 DEF SetCode
    <3> HIDE DEF response
    <3>4. probe'[p].worker = "set body" /\ probe'[p].healthy = r.healthy /\ probe'[p].response = response
      BY <1>1, <3>1 DEF Probe
    <3> QED
      BY <3>2, <3>3, <3>4
  <2>2. r.healthy => Deserved(p)
    BY <1>7, <2>1 DEF WorkerIsRight
  <2>3. WorkerIsRight(p)'
    BY <1>4, <2>1, <2>2 DEF WorkerIsRight
  <2>4. ResponseIsRight(p)'
    <3>1. CASE r.healthy
      BY <1>4, <2>2, <3>1, Zenon DEF ResponseIsRight
    <3>2. CASE ~r.healthy
      <4>1. probe'[p].response.code = 503
        BY <2>1, <3>2, Zenon
      <4>2. probe'[p].response.code # 200
        BY <4>1
      <4> QED
        BY <1>4, <1>7, <2>1, <4>2, Zenon DEF ResponseIsRight
    <3> QED
      BY <3>1, <3>2
  <2> QED
    BY <2>3, <2>4
<1>11. CASE SetBody(p)
  <2>1. /\ r.worker = "set body" /\ probe'[p].worker = "ended" /\ probe'[p].healthy = r.healthy
        /\ probe'[p].response.code = r.response.code
        /\ probe'[p].response.body = IF r.healthy THEN "OK" ELSE "ERROR"
    <3> DEFINE response == [r.response EXCEPT !.body = IF r.healthy THEN "OK" ELSE "ERROR"]
    <3>1. probe' = [probe EXCEPT ![p] = [r EXCEPT !.worker = "ended", !.response = response]]
      BY <1>11, Effects, Zenon
    <3>2. response.code = r.response.code /\ response.body = IF r.healthy THEN "OK" ELSE "ERROR"
      BY <1>1 DEF Response
    <3>3. r.worker = "set body"
      BY <1>11 DEF SetBody
    <3> HIDE DEF response
    <3>4. probe'[p].worker = "ended" /\ probe'[p].healthy = r.healthy /\ probe'[p].response = response
      BY <1>1, <3>1 DEF Probe
    <3> QED
      BY <3>2, <3>3, <3>4
  <2>2. r.healthy => Deserved(p)
    BY <1>7, <2>1 DEF WorkerIsRight
  <2>3. WorkerIsRight(p)'
    BY <1>4, <2>1, <2>2 DEF WorkerIsRight
  <2>4. ResponseIsRight(p)'
    BY <1>3, <1>4, <1>7, <2>1, <2>2 DEF ResponseIsRight
  <2> QED
    BY <2>3, <2>4
<1> QED
  BY <1>8, <1>9, <1>10, <1>11 DEF Examine

\* The handler of a probe, and what it overwrites (readyz.go:43-48, server.go:115-126).
LEMMA AttendStep ==
  ASSUME TypeOK, NEW p \in Probes, ProbeIsRight(p), Attend(p)
  PROVE  ProbeIsRight(p)'
<1> DEFINE r == probe[p]
<1>1. probe \in [Probes -> Probe] /\ r \in Probe /\ r.response \in Response
  BY DEF TypeOK, Probe
<1>2. UNCHANGED <<now, request, latest, dataReady>>
  BY DEF Attend, Answer, GiveUp, AnswerTimeout
<1>3. SUFFICES /\ probe'[p].known = r.known /\ probe'[p].kind = r.kind
               /\ probe'[p].handler # "absent"
               /\ r.kind = "readyz" => WorkerIsRight(p)' /\ ResponseIsRight(p)' /\ ReplyIsRight(p)'
  BY <1>2, AtWork DEF ProbeIsRight
<1>4. probe'[p].known = r.known => (Deserved(p) => Deserved(p)')
  BY <1>2, AtWork DEF ProbeIsRight
<1>5. r.kind = "readyz" => WorkerIsRight(p) /\ ResponseIsRight(p) /\ ReplyIsRight(p)
  BY DEF ProbeIsRight
<1>6. ASSUME probe' = [probe EXCEPT ![p] = Answered(p)],
             r.kind = "readyz" /\ (r.response.code = 200 \/ r.response.body = "OK") => Deserved(p)
      PROVE  /\ probe'[p].known = r.known /\ probe'[p].kind = r.kind
             /\ probe'[p].handler # "absent"
             /\ r.kind = "readyz" => WorkerIsRight(p)' /\ ResponseIsRight(p)' /\ ReplyIsRight(p)'
  <2>1. /\ probe'[p].known = r.known /\ probe'[p].kind = r.kind
        /\ probe'[p].handler = "answered" /\ probe'[p].worker = "none"
        /\ probe'[p].response = Blank /\ probe'[p].reply = r.response
    BY <1>1, <1>6 DEF Answered, Probe
  <2>2. WorkerIsRight(p)' /\ ResponseIsRight(p)'
    BY <2>1 DEF WorkerIsRight, ResponseIsRight, Blank
  <2>3. r.kind = "readyz" => ReplyIsRight(p)'
    BY <1>4, <1>6, <2>1 DEF ReplyIsRight
  <2> QED
    BY <2>1, <2>2, <2>3
<1>7. CASE Answer(p)
  <2>1. r.handler = "select" /\ r.worker = "ended" /\ probe' = [probe EXCEPT ![p] = Answered(p)]
    BY <1>7 DEF Answer
  <2>2. r.kind = "readyz" /\ (r.response.code = 200 \/ r.response.body = "OK") => Deserved(p)
    BY <1>5, <2>1 DEF ResponseIsRight
  <2> QED
    BY <1>6, <2>1, <2>2
<1>8. CASE GiveUp(p)
  <2>1. /\ probe'[p].known = r.known /\ probe'[p].kind = r.kind
        /\ probe'[p].handler = "give up" /\ probe'[p].worker = r.worker
        /\ probe'[p].healthy = r.healthy /\ probe'[p].busyRead = r.busyRead
        /\ probe'[p].response = r.response
    <3>1. probe' = [probe EXCEPT ![p] = [r EXCEPT !.handler = "give up", !.deadline = 0]]
      BY <1>8, Effects, Zenon
    <3> QED
      BY <1>1, <3>1 DEF Probe
  <2>2. r.kind = "readyz" => WorkerIsRight(p)'
    BY <1>2, <1>4, <1>5, <2>1 DEF WorkerIsRight
  <2>3. r.kind = "readyz" => ResponseIsRight(p)' /\ ReplyIsRight(p)'
    BY <1>4, <1>5, <2>1 DEF ResponseIsRight, ReplyIsRight
  <2> QED
    BY <2>1, <2>2, <2>3
<1>9. ASSUME NEW handler, NEW response \in Response,
             handler \in {"set body", "copy"},
             probe' = [probe EXCEPT ![p] = [r EXCEPT !.handler = handler, !.response = response]],
             r.kind = "readyz" => /\ response.body = "OK" => Deserved(p)
                                  /\ response.code = 200 => Deserved(p)
      PROVE  /\ probe'[p].known = r.known /\ probe'[p].kind = r.kind
             /\ probe'[p].handler # "absent"
             /\ r.kind = "readyz" => WorkerIsRight(p)' /\ ResponseIsRight(p)' /\ ReplyIsRight(p)'
  <2>1. /\ probe'[p].known = r.known /\ probe'[p].kind = r.kind
        /\ probe'[p].handler = handler /\ probe'[p].worker = r.worker
        /\ probe'[p].healthy = r.healthy /\ probe'[p].busyRead = r.busyRead
        /\ probe'[p].response = response
    BY <1>1, <1>9 DEF Probe
  <2>2. r.kind = "readyz" => WorkerIsRight(p)'
    BY <1>2, <1>4, <1>5, <2>1 DEF WorkerIsRight
  <2>3. r.kind = "readyz" => ResponseIsRight(p)' /\ ReplyIsRight(p)'
    BY <1>4, <1>9, <2>1 DEF ResponseIsRight, ReplyIsRight
  <2> QED
    BY <1>9, <2>1, <2>2, <2>3
<1>10. CASE AnswerTimeout(p)
  <2> DEFINE coded  == [r.response EXCEPT !.code = 503]
             bodied == [r.response EXCEPT !.body = "ERROR"]
  <2>1. /\ coded \in Response /\ coded.code = 503 /\ coded.body = r.response.body
        /\ bodied \in Response /\ bodied.body = "ERROR" /\ bodied.code = r.response.code
    BY <1>1 DEF Response
  <2>2. \/ /\ r.handler = "give up"
           /\ probe' = [probe EXCEPT ![p] = [r EXCEPT !.handler = "set body", !.response = coded]]
        \/ /\ r.handler = "set body"
           /\ probe' = [probe EXCEPT ![p] = [r EXCEPT !.handler = "copy", !.response = bodied]]
        \/ r.handler = "copy" /\ probe' = [probe EXCEPT ![p] = Answered(p)]
    BY <1>10, Effects, Zenon
  <2> HIDE DEF coded, bodied
  <2>3. CASE /\ r.handler = "give up"
             /\ probe' = [probe EXCEPT ![p] = [r EXCEPT !.handler = "set body", !.response = coded]]
    <3>1. r.kind = "readyz" => /\ coded.body = "OK" => Deserved(p)
                               /\ coded.code = 200 => Deserved(p)
      <4>1. coded.code # 200
        BY <2>1
      <4>2. r.kind = "readyz" /\ r.response.body = "OK" => Deserved(p)
        BY <1>5, Zenon DEF ResponseIsRight
      <4> QED
        BY <2>1, <4>1, <4>2
    <3> QED
      BY <1>9, <2>1, <2>3, <3>1
  <2>4. CASE /\ r.handler = "set body"
             /\ probe' = [probe EXCEPT ![p] = [r EXCEPT !.handler = "copy", !.response = bodied]]
    <3>1. r.kind = "readyz" => /\ bodied.body = "OK" => Deserved(p)
                               /\ bodied.code = 200 => Deserved(p)
      BY <1>5, <2>1, <2>4 DEF ResponseIsRight
    <3> QED
      BY <1>9, <2>1, <2>4, <3>1
  <2>5. CASE r.handler = "copy" /\ probe' = [probe EXCEPT ![p] = Answered(p)]
    <3>1. r.kind = "readyz" /\ (r.response.code = 200 \/ r.response.body = "OK") => Deserved(p)
      BY <1>5, <2>5 DEF ResponseIsRight
    <3> QED
      BY <1>6, <2>5, <3>1
  <2> QED
    BY <2>2, <2>3, <2>4, <2>5
<1> QED
  BY <1>7, <1>8, <1>10 DEF Attend

\* In any step the probes stay right: the one that takes it, and the others.
LEMMA ProbesStep ==
  ASSUME TypeOK, ServerAssumption, TimeoutsKept, [Next]_vars,
         \A p \in Probes : ProbeIsRight(p)
  PROVE  \A p \in Probes : ProbeIsRight(p)'
<1> SUFFICES ASSUME NEW p \in Probes PROVE ProbeIsRight(p)'
  OBVIOUS
<1>1. CASE Ask(p)
  BY <1>1, AskStep
<1>2. CASE Examine(p)
  BY <1>2, ExamineStep
<1>3. CASE Attend(p)
  BY <1>3, AttendStep
<1>4. CASE ~Ask(p) /\ ~Examine(p) /\ ~Attend(p)
  <2>1. probe'[p] = probe[p]
    <3>1. CASE UNCHANGED probe
      BY <3>1
    <3>2. CASE \E x \in Probes : Ask(x) \/ Attend(x) \/ Examine(x)
      <4>1. PICK x \in Probes : Ask(x) \/ Attend(x) \/ Examine(x)
        BY <3>2
      <4>2. \E new : probe' = [probe EXCEPT ![x] = new]
        <5>1. CASE Ask(x)
          <6>1. PICK kind : probe' =
                  [probe EXCEPT ![x].kind = kind, ![x].handler = "select", ![x].worker = "look",
                                ![x].deadline = now + ProbeTimeout,
                                ![x].known = {q \in Requests : TimedOut(q)}]
            BY <5>1, Zenon DEF Ask
          <6> DEFINE known == {q \in Requests : TimedOut(q)}
                     deadline == now + ProbeTimeout
          <6>2. probe' =
                  [probe EXCEPT ![x].kind = kind, ![x].handler = "select", ![x].worker = "look",
                                ![x].deadline = deadline, ![x].known = known]
            BY <6>1, Zenon
          <6>3. probe \in [Probes -> Probe]
            BY DEF TypeOK
          <6> HIDE DEF known, deadline
          <6>4. probe' = [probe EXCEPT ![x] =
                  [probe[x] EXCEPT !.kind = kind, !.handler = "select", !.worker = "look",
                                   !.deadline = deadline, !.known = known]]
            BY <6>2, <6>3
          <6> QED
            BY <6>4, Zenon
        <5>2. CASE Look(x)
          BY <5>2, LookEffect, Zenon
        <5>3. CASE Answer(x)
          BY <5>3, Zenon DEF Answer
        <5>4. CASE Compare(x)
          <6>1. probe' = [probe EXCEPT ![x] =
                  [probe[x] EXCEPT !.worker = "set code", !.busyRead = 0,
                                   !.healthy = Forgotten(probe[x].busyRead)]]
            BY <5>4, Effects, Zenon
          <6> QED
            BY <6>1, Zenon
        <5>5. CASE SetCode(x)
          <6>1. probe' = [probe EXCEPT ![x] =
                  [probe[x] EXCEPT !.worker = "set body",
                    !.response = [probe[x].response EXCEPT !.code = IF probe[x].healthy THEN 200 ELSE 503]]]
            BY <5>5, Effects, Zenon
          <6> QED
            BY <6>1, Zenon
        <5>6. CASE SetBody(x)
          <6>1. probe' = [probe EXCEPT ![x] =
                  [probe[x] EXCEPT !.worker = "ended",
                    !.response = [probe[x].response EXCEPT !.body = IF probe[x].healthy THEN "OK" ELSE "ERROR"]]]
            BY <5>6, Effects, Zenon
          <6> QED
            BY <6>1, Zenon
        <5>7. CASE GiveUp(x)
          <6>1. probe' = [probe EXCEPT ![x] =
                  [probe[x] EXCEPT !.handler = "give up", !.deadline = 0]]
            BY <5>7, Effects, Zenon
          <6> QED
            BY <6>1, Zenon
        <5>8. CASE AnswerTimeout(x)
          <6>1. \/ probe' = [probe EXCEPT ![x] =
                     [probe[x] EXCEPT !.handler = "set body",
                                      !.response = [probe[x].response EXCEPT !.code = 503]]]
                \/ probe' = [probe EXCEPT ![x] =
                     [probe[x] EXCEPT !.handler = "copy",
                                      !.response = [probe[x].response EXCEPT !.body = "ERROR"]]]
                \/ probe' = [probe EXCEPT ![x] = Answered(x)]
            BY <5>8, Effects, Zenon
          <6> QED
            BY <6>1, Zenon
        <5> QED
          BY <4>1, <5>1, <5>2, <5>3, <5>4, <5>5, <5>6, <5>7, <5>8 DEF Examine, Attend
      <4>3. x # p /\ probe \in [Probes -> Probe]
        BY <1>4, <4>1 DEF TypeOK
      <4> QED
        BY <4>2, <4>3
    <3> QED
      BY <3>1, <3>2 DEF Next, vars, Arrive, Work, TimeOut, Refuse, Send, Settle, TimerFires, FetchEnds,
                        LoopStops, SetInitialDataReady, Signal, Stop, Tick
  <2>2. (dataReady => dataReady') /\ now' \in Nat /\ now <= now'
    <3>1. now \in Nat
      BY DEF TypeOK
    <3>2. UNCHANGED now \/ Tick
      BY DEF Next, vars, Arrive, Work, TimeOut, Refuse, Send, Settle, Ask, Attend, Answer,
             GiveUp, AnswerTimeout, Examine, Look, Compare, SetCode, SetBody, TimerFires, FetchEnds,
             LoopStops, SetInitialDataReady, Signal, Stop
    <3>3. UNCHANGED dataReady \/ SetInitialDataReady
      BY DEF Next, vars, Arrive, Work, TimeOut, Refuse, Send, Settle, Ask, Attend, Answer,
             GiveUp, AnswerTimeout, Examine, Look, Compare, SetCode, SetBody, TimerFires, FetchEnds,
             LoopStops, Signal, Stop, Tick
    <3> QED
      BY <3>1, <3>2, <3>3 DEF Tick, SetInitialDataReady
  <2> QED
    BY <2>1, <2>2, TimedOutStays, ProbeLeftAlone
<1> QED
  BY <1>1, <1>2, <1>3, <1>4

\* The invariant, of which the properties below are consequences.
LEMMA Invariance == Spec => []IInv
<1> USE ServerAssumption
<1>1. Init => IInv
  <2> SUFFICES ASSUME Init PROVE IInv
    OBVIOUS
  <2>1. TypeOK
    BY InitType
  <2>2. TimeoutsKept
    <3>1. \A q \in Requests : request[q].stage = "absent" /\ ~TimedOut(q)
      BY DEF Init, TimedOut
    <3> QED
      BY <3>1 DEF TimeoutsKept
  <2>3. StoppedInOrder
    BY DEF Init, StoppedInOrder
  <2>4. ASSUME NEW p \in Probes PROVE ProbeIsRight(p)
    <3> DEFINE r == probe[p]
    <3>1. /\ r.handler = "absent" /\ r.worker = "none" /\ r.known = {} /\ r.response = Blank
      BY DEF Init
    <3>2. WorkerIsRight(p) /\ ReplyIsRight(p)
      BY <3>1 DEF WorkerIsRight, ReplyIsRight
    <3>3. ResponseIsRight(p)
      BY <3>1 DEF ResponseIsRight, Blank
    <3> QED
      BY <3>1, <3>2, <3>3 DEF ProbeIsRight, KnownTimedOut
  <2> QED
    BY <2>1, <2>2, <2>3, <2>4 DEF IInv
<1>2. IInv /\ [Next]_vars => IInv'
  BY TypeStep, TimeoutsStep, StopStep, ProbesStep DEF IInv
<1> QED
  BY <1>1, <1>2, PTL DEF Spec

\* Readiness knows of every timeout before its request is answered,
\* in whatever order deadlines are recorded (post.go:99-104, health.go:38).
THEOREM TimeoutsRemembered == Spec => []TimeoutIsRemembered
<1>1. IInv => TimeoutIsRemembered
  BY DEF IInv, TimeoutsKept, Remembered, TimeoutIsRemembered
<1> QED
  BY <1>1, Invariance, PTL

\* main returns only when every request and every probe that was let in has been answered
\* and the loops have stopped (main.go:43-51).
THEOREM NobodyCutOff == Spec => []NobodyIsCutOff
<1>1. IInv => NobodyIsCutOff
  BY DEF IInv, StoppedInOrder, NobodyIsCutOff
<1> QED
  BY <1>1, Invariance, PTL

\* A probe says "ready", in its code or its body, only if it may, whichever of its two
\* writers comes last (readyz.go:33, server.go:116).
THEOREM ReadyIsTrue == Spec => []ReadyMeansNotBusy
<1>1. IInv => ReadyMeansNotBusy
  BY Zenon DEF IInv, ProbeIsRight, ReplyIsRight, Deserved, ReadyMeansNotBusy
<1> QED
  BY <1>1, Invariance, PTL

---------------------------------------------------------------------------
(***************************************************************************)
(* Replies.                                                                *)
(***************************************************************************)

\* What there is of a response while it is written, and once it has been.
WellWritten(r) ==
  /\ r.stage \in {"handling", "timed out"} => r.body = "none" /\ r.code = 200
  /\ r.stage = "settling" => r.body # "none" /\ r.code = 200
  /\ r.stage = "replied" => /\ r.body = "none" => r.code = 503
                            /\ r.code = 503 => r.body = "none"
                            /\ r.body = "result" => r.code = 200

Written == \A q \in Requests : WellWritten(request[q])

\* A step of a request leaves it with what it has to have at its stage.
LEMMA WrittenByStep ==
  ASSUME TypeOK, Written, NEW q \in Requests, Arrive(q) \/ Work(q)
  PROVE  Written'
<1> DEFINE r == request[q]
<1>1. request \in [Requests -> Request] /\ r \in Request /\ WellWritten(r)
  BY DEF TypeOK, Written
<1>2. SUFFICES \E new : request' = [request EXCEPT ![q] = new] /\ WellWritten(new)
  BY <1>1 DEF Written
<1>3. CASE Arrive(q)
  <2> DEFINE closed == [Entered EXCEPT !.stage = "settling", !.body = "problem"]
  <2>1. WellWritten(Entered) /\ WellWritten(closed)
    BY DEF Entered, WellWritten
  <2> QED
    BY <1>3, <2>1 DEF Arrive
<1>4. CASE TimeOut(q)
  <2> DEFINE new == [r EXCEPT !.stage = "timed out"]
  <2>1. request' = [request EXCEPT ![q] = new]
    BY <1>1, <1>4 DEF TimeOut
  <2>2. r.body = "none" /\ r.code = 200
    BY <1>1, <1>4 DEF TimeOut, WellWritten
  <2>3. new.stage = "timed out" /\ new.body = r.body /\ new.code = r.code
    BY <1>1 DEF Request
  <2> HIDE DEF new
  <2>4. WellWritten(new)
    BY <2>2, <2>3 DEF WellWritten
  <2> QED
    BY <2>1, <2>4
<1>5. CASE Refuse(q)
  <2> DEFINE new == [r EXCEPT !.stage = "replied", !.code = 503]
  <2>1. request' = [request EXCEPT ![q] = new]
    BY <1>1, <1>5 DEF Refuse
  <2>2. r.body = "none"
    BY <1>1, <1>5 DEF Refuse, WellWritten
  <2>3. new.stage = "replied" /\ new.body = r.body /\ new.code = 503
    BY <1>1 DEF Request
  <2> HIDE DEF new
  <2>4. WellWritten(new)
    BY <2>2, <2>3 DEF WellWritten
  <2> QED
    BY <2>1, <2>4
<1>6. CASE Send(q)
  <2>1. PICK body \in {"result", "problem"} :
          request' = [request EXCEPT ![q].stage = "settling", ![q].body = body]
    BY <1>6 DEF Send
  <2> DEFINE new == [r EXCEPT !.stage = "settling", !.body = body]
  <2>2. request' = [request EXCEPT ![q] = new]
    BY <1>1, <2>1
  <2>3. r.code = 200
    BY <1>1, <1>6 DEF Send, WellWritten
  <2>4. new.stage = "settling" /\ new.body = body /\ new.code = r.code
    BY <1>1 DEF Request
  <2> HIDE DEF new
  <2>5. WellWritten(new)
    BY <2>1, <2>3, <2>4 DEF WellWritten
  <2> QED
    BY <2>2, <2>5
<1>7. CASE Settle(q)
  <2> DEFINE code == IF ContextEnded(q) THEN r.code ELSE Status(r.body)
             new  == [r EXCEPT !.stage = "replied", !.deadline = 0, !.code = code]
  <2>1. r.stage = "settling"
    BY <1>7 DEF Settle
  <2>2. r.code = 200 /\ r.body \in {"result", "problem"}
    BY <1>1, <2>1 DEF WellWritten, Request
  <2>3. code # 503 /\ (r.body = "result" => code = 200)
    BY <2>2 DEF Status
  <2>4. request' = [request EXCEPT ![q] = new]
    BY <1>1, <1>7 DEF Settle
  <2> HIDE DEF code
  <2>5. new.stage = "replied" /\ new.body = r.body /\ new.code = code
    BY <1>1 DEF Request
  <2> HIDE DEF new
  <2>6. WellWritten(new)
    BY <2>2, <2>3, <2>5 DEF WellWritten
  <2> QED
    BY <2>4, <2>6
<1> QED
  BY <1>3, <1>4, <1>5, <1>6, <1>7 DEF Work

\* A result has the code 200 whatever the deadline does while it is sent, and exactly the
\* requests that timed out are answered 503, with no body (post.go:71, 100).
THEOREM ResultsAreSentAsOK == Spec => []ResultIsSentAsOK
<1>1. Init => Written
  <2>1. Init => \A q \in Requests : request[q].stage = "absent"
    BY DEF Init
  <2> QED
    BY <2>1 DEF Written, WellWritten
<1>2. TypeOK /\ Written /\ [Next]_vars => Written'
  <2>1. Written /\ UNCHANGED request => Written'
    BY DEF Written
  <2> QED
    BY <2>1, RequestsMove, WrittenByStep
<1>3. Written => ResultIsSentAsOK
  <2> SUFFICES ASSUME Written, NEW q \in Requests, request[q].stage = "replied"
               PROVE  /\ request[q].body = "none" <=> request[q].code = 503
                      /\ request[q].body = "result" => request[q].code = 200
    BY DEF ResultIsSentAsOK
  <2>1. WellWritten(request[q])
    BY DEF Written
  <2> QED
    BY <2>1 DEF WellWritten
<1> QED
  BY <1>1, <1>2, <1>3, TypeCorrect, PTL DEF Spec
============================================================================
