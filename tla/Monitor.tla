------------------------------- MODULE Monitor -----------------------------
(***************************************************************************)
(* What ctsubmit knows of the health of the logs (monitor/), and how it    *)
(* comes to know it: five backoff tables that submissions and fetches      *)
(* write, the signing times of the latest tree heads, which fetches in the *)
(* background bring in, and two uptime tables read from a CSV file.  The   *)
(* start of the process (main.go) is here too, since it makes the first    *)
(* fetches and then declares the service ready.                            *)
(*                                                                         *)
(* Time is a counter of ticks.  A time of 0 is Go's zero time or a nil     *)
(* pointer.  A log is its index in the list of logs.                       *)
(***************************************************************************)
EXTENDS Integers, Sequences, FiniteSets

CONSTANTS NumLogs,         \* the number of logs
          Monitored,       \* the logs with an entry in sthData: those whose key can be parsed
          Period,          \* the configured backoff period of each kind
          RetryAfters,     \* the Retry-After headers considered
          DurationRange,   \* the number of values of a time.Duration (2^64 in the code)
          RefreshInterval, \* sthMonitor.refreshInterval
          HTTPTimeout,     \* sthMonitor.httpTimeout
          StartupTime,     \* the longest the two uptime fetches at startup take
          PublishInterval, \* the oldest a head is that a log serves
          CsvFiles,        \* the uptime files considered
          FailingKinds,    \* the kinds of failure considered
          MaxTime,         \* bound: the last instant considered
          MaxFailures      \* bound: the failures of logs considered

BackoffKinds == {"bad response", "timeout", "5xx", "4xx", "slow response"}
Windows == {"24h", "90d"}

\* A row of an uptime file gives a percentage; a row may be missing, or its
\* percentage may be no number.  "submit" is the endpoint that the submission uses,
\* "other" stands for the others of the same log.
Endpoints == {"submit", "other"}
Missing == -1
Garbled == -2
Percentages == {Missing, Garbled} \cup 0..100

RetryAfterHeaders == [form : {"none", "seconds", "date"}, value : Nat]

Logs == 1..NumLogs

ASSUME MonitorAssumption ==
  /\ NumLogs \in Nat \ {0}
  /\ Monitored \subseteq Logs
  /\ Period \in [BackoffKinds -> Nat]
  /\ RetryAfters \subseteq RetryAfterHeaders
  /\ DurationRange \in Nat \ {0}
  /\ RefreshInterval \in Nat \ {0} /\ HTTPTimeout \in Nat \ {0}
  /\ StartupTime \in Nat /\ PublishInterval \in Nat
  /\ CsvFiles \subseteq [Logs -> [Endpoints -> Percentages]]
  /\ FailingKinds \subseteq BackoffKinds
  /\ MaxTime \in Nat /\ MaxFailures \in Nat

VARIABLES
  now,          \* the clock
  failures,     \* the number of failures so far, for the bound
  backoffUntil, \* the five backoff maps
  sthTimestamp, \* sthData[log].Timestamp
  fetches,      \* the goroutines fetching a head; head is 0 until the log has answered
  nextFetch,    \* when the timer of STHMonitor fires
  uptime,       \* the two uptime maps
  startup       \* the goroutine of main: "fetch24h", "fetch90d", "fetchHeads", "ready", "done"

monitorVars == <<now, failures, backoffUntil, sthTimestamp, fetches, nextFetch, uptime, startup>>

Fetch == [log : Monitored, started : Nat, head : Nat]

\* An entry of an uptime table: nil, or the uptime of the submission endpoint and
\* the lowest of all.
NoUptime == [listed |-> FALSE, submit |-> 0, lowest |-> 0]
UptimeEntry == [listed : BOOLEAN, submit : 0..100, lowest : 0..100]

MonitorTypeOK ==
  /\ now \in Nat /\ failures \in Nat
  /\ backoffUntil \in [BackoffKinds -> [Logs -> Nat]]
  /\ sthTimestamp \in [Logs -> Nat]
  /\ fetches \subseteq Fetch
  /\ nextFetch \in Nat
  /\ uptime \in [Windows -> [Logs -> UptimeEntry]]
  /\ startup \in {"fetch24h", "fetch90d", "fetchHeads", "ready", "done"}

\* monitor.New, and main up to the goroutines it starts.
MonitorInit ==
  /\ now = 1 /\ failures = 0
  /\ backoffUntil = [k \in BackoffKinds |-> [l \in Logs |-> 0]]
  /\ sthTimestamp = [l \in Logs |-> 0]
  /\ fetches = {}
  /\ nextFetch = 1 + RefreshInterval
  /\ uptime = [w \in Windows |-> [l \in Logs |-> NoUptime]]
  /\ startup = "fetch24h"

---------------------------------------------------------------------------
(***************************************************************************)
(* Backoffs.                                                               *)
(***************************************************************************)

\* time.Duration(seconds) * time.Second, in 64 bits with a sign.
Wrapped(n) ==
  LET m == n % DurationRange
  IN  IF 2 * m < DurationRange THEN m ELSE m - DurationRange

parseRetryAfter(header) ==
  CASE header.form = "seconds" /\ header.value > 0 -> Wrapped(header.value)
    [] header.form = "date" /\ header.value > now  -> header.value - now
    [] OTHER                                       -> 0

BackoffDuration(kind, header) ==
  IF kind \in {"5xx", "4xx"} /\ parseRetryAfter(header) > 0
  THEN parseRetryAfter(header) ELSE Period[kind]

\* Mutant: the latest failure decides.
Replaced(old, new) == new

\* A backoff is only ever extended.
Extended(old, new) == IF old < new THEN new ELSE old

\* RecordBadResponse, RecordTimeout, Record5xxResponse, Record4xxResponse and
\* RecordSlowResponse, each under the lock of its own map.
Record(kind, log, header) ==
  /\ backoffUntil' = [backoffUntil EXCEPT ![kind][log] =
                        Extended(@, now + BackoffDuration(kind, header))]
  /\ failures < MaxFailures
  /\ failures' = failures + 1

\* GetBadResponseBackoff and its four sisters return a positive duration.
InBackoff(kind, log) == now < backoffUntil[kind][log]

\* A submission to the log, of any request, has failed or is slow.
SubmissionFails ==
  /\ \E kind \in FailingKinds, log \in Logs, header \in RetryAfters : Record(kind, log, header)
  /\ UNCHANGED <<now, sthTimestamp, fetches, nextFetch, uptime, startup>>

---------------------------------------------------------------------------
(***************************************************************************)
(* Tree heads.  A fetch starts a goroutine for each log and waits for      *)
(* none, so fetches of the same log may overlap and end in any order.      *)
(***************************************************************************)

FetchAllSTHs == fetches' = fetches \cup [log : Monitored, started : {now}, head : {0}]

\* The timer of STHMonitor, which is set again when it has fired.
RefreshHeads ==
  /\ now = nextFetch
  /\ FetchAllSTHs
  /\ nextFetch' = now + RefreshInterval
  /\ UNCHANGED <<now, failures, backoffUntil, sthTimestamp, uptime, startup>>

\* A log serves one of the heads it has signed lately, not always the latest.
LogAnswers(f) ==
  /\ f.head = 0
  /\ \E head \in 1..now :
       /\ head + PublishInterval >= now
       /\ fetches' = (fetches \ {f}) \cup {[f EXCEPT !.head = head]}
  /\ UNCHANGED <<now, failures, backoffUntil, sthTimestamp, nextFetch, uptime, startup>>

\* The head is verified and stored under the lock, whatever is stored already.
StoreHead(f) ==
  /\ f.head # 0
  /\ sthTimestamp' = [sthTimestamp EXCEPT ![f.log] = f.head]
  /\ fetches' = fetches \ {f}
  /\ UNCHANGED <<now, failures, backoffUntil, nextFetch, uptime, startup>>

\* No answer in time (the client's own timeout, or an earlier one of the connection), an
\* HTTP error, a body or a head that cannot be used.
FetchFails(f) ==
  /\ \E kind \in FailingKinds \ {"slow response"}, header \in RetryAfters :
       /\ kind = "timeout" => f.head = 0 \/ now = f.started + HTTPTimeout
       /\ kind \in {"5xx", "4xx"} => f.head = 0
       /\ Record(kind, f.log, header)
  /\ fetches' = fetches \ {f}
  /\ UNCHANGED <<now, sthTimestamp, nextFetch, uptime, startup>>

---------------------------------------------------------------------------
(***************************************************************************)
(* Uptimes.                                                                *)
(***************************************************************************)

Numbers(row) == {row[e] : e \in Endpoints} \cap 0..100

\* A log of which any row is listed has an entry, in which an endpoint without a
\* number counts 0; only numbers lower the lowest.
EntryFrom(row) ==
  IF \A e \in Endpoints : row[e] = Missing THEN NoUptime
  ELSE [listed |-> TRUE,
        submit |-> IF row["submit"] >= 0 THEN row["submit"] ELSE 0,
        lowest |-> CHOOSE p \in Numbers(row) \cup {100} :
                     \A q \in Numbers(row) \cup {100} : p <= q]

\* fetchEndpointUptimes replaces the whole table, or leaves it alone when it fails.
FetchUptimes(window) ==
  \/ \E file \in CsvFiles :
       uptime' = [uptime EXCEPT ![window] = [l \in Logs |-> EntryFrom(file[l])]]
  \/ UNCHANGED uptime

\* The timer of UptimeFetcher.  Its interval is long; here it may fire at any time.
RefreshUptimes ==
  /\ startup = "done"
  /\ \E window \in Windows : FetchUptimes(window)
  /\ UNCHANGED <<now, failures, backoffUntil, sthTimestamp, fetches, nextFetch, startup>>

---------------------------------------------------------------------------
(***************************************************************************)
(* The goroutine that main starts: FetchEndpointUptimes, FetchAllSTHs, and *)
(* SetInitialDataReady.                                                    *)
(***************************************************************************)

LoadUptimes ==
  /\ \/ startup = "fetch24h" /\ FetchUptimes("24h") /\ startup' = "fetch90d"
     \/ startup = "fetch90d" /\ FetchUptimes("90d") /\ startup' = "fetchHeads"
  /\ UNCHANGED <<now, failures, backoffUntil, sthTimestamp, fetches, nextFetch>>

LoadHeads ==
  /\ startup = "fetchHeads"
  /\ FetchAllSTHs
  /\ startup' = "ready"
  /\ UNCHANGED <<now, failures, backoffUntil, sthTimestamp, nextFetch, uptime>>

SetInitialDataReady ==
  /\ startup = "ready"
  /\ startup' = "done"
  /\ UNCHANGED <<now, failures, backoffUntil, sthTimestamp, fetches, nextFetch, uptime>>

initialDataReady == startup = "done"

---------------------------------------------------------------------------
\* Mutant: the HTTP client has no timeout.
NothingIsDue ==
  /\ now < nextFetch
  /\ startup # "done" => now < 1 + StartupTime

\* What has to happen by now: the timer of STHMonitor fires, a fetch is over when
\* the HTTP client's timeout is, and the fetches at startup are made in time.
NothingIsOverdue ==
  /\ now < nextFetch
  /\ \A f \in fetches : now < f.started + HTTPTimeout
  /\ startup # "done" => now < 1 + StartupTime

Tick ==
  /\ now < MaxTime
  /\ NothingIsOverdue
  /\ now' = now + 1
  /\ UNCHANGED <<failures, backoffUntil, sthTimestamp, fetches, nextFetch, uptime, startup>>

MonitorNext ==
  \/ SubmissionFails
  \/ RefreshHeads
  \/ (\E f \in fetches : LogAnswers(f) \/ StoreHead(f) \/ FetchFails(f))
  \/ RefreshUptimes
  \/ LoadUptimes \/ LoadHeads \/ SetInitialDataReady
  \/ Tick

============================================================================
