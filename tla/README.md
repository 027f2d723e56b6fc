# A TLA+ development for ctsubmit

ctsubmit takes a certificate or precertificate, works out how many SCTs from how
many log operators it needs, and submits it to Certificate Transparency logs until
a compliant quorum of SCTs is collected. This directory holds TLA+ models of its
core, TLC configurations that check them on small instances, and proofs of the
properties that matter most, checked by TLAPS for every value of the constants.

Paths below are relative to the repository (`src/` is its root).

## 1. Inventory of the system

| Component | State it keeps | Operations | Hard behaviour | What makes it correct |
|---|---|---|---|---|
| Coordinator, `submitter/orchestrate.go` | `quorumState`, `inFlight`, `inFlightIndices`, `slowInFlightIndices`, the outcomes in the strategy, one buffered channel | `submit` | one goroutine per log, events in any order, cancellation, fallback launches | replies with a quorum, counts what is in flight exactly, leaves no goroutine behind, contacts a log once, gives up only when no quorum is possible |
| Quorum bookkeeping, `submitter/quorum.go` | responses, SCTs, operators, two type flags | `addSuccess`, `isQuorumMet`, `helpsQuorum`, `wouldHelp`, `trimToQuorum`, `canDropSafely` | order-dependent greedy trim with two swaps | the trim leaves a quorum of the size asked for; nothing needed is discarded |
| Submission goroutine, `submitter/submitToLog.go` | two timers, the request in a goroutine of its own | `submitToLog`, `processHTTPResponse` | request, timers and context race in one `select` | one final event, after all others; the right backoff, before it; ends when cancelled |
| Strategy, `submitter/strategy.go` | none (reads the monitor) | `devizeSubmissionStrategy` and its demotions | reads eight tables that change meanwhile | a log that something is held against comes behind the others; a healthy log is not demoted |
| Request handling, `submitter/handler.go`, `request.go`, `compatibleLogs.go` | the locals of each call; the cache of `pki` is shared | `Handle`, `determineSubmissionRequirements`, `determineCompatibleLogs` | several calls share the cache; partial results returned with errors; checks made early and relied on late | a reply has what was asked for and what the policy demands; a verdict is that of the request's own chain |
| Monitor, `monitor/` | five backoff tables, STH data, two uptime tables, sliding windows | `Record*`, `Get*`, `FetchAllSTHs`, `FetchEndpointUptimes` | background goroutines, overlapping fetches, timers | a backoff is never shortened; old heads do not make a log look stale; ready means loaded |
| Health and probes, `health/`, `server/livez.go`, `readyz.go`, `main.go` | three timestamps, `initialDataReady` | `UpdateLatestTimestamps`, `IsAlive`, `IsReady`, startup, shutdown | probe against its timeout, start-up in the background | a probe says ready only with data and when no timeout is recent; every probe is answered; shutdown cuts nobody off and ends |
| HTTP path, `request/post.go`, `server/server.go` | the response under construction | `POST`, `webHandler` | deadline passes between two checks | a status that tells what happened (section 6 has the exception); no timeout is forgotten |
| Log lists, `loglists/` | four package-level lists | filters, `LoadCustomTestLogList` | three browsers disagree about a log | a log used for policy is usable in all three and takes the certificate; no test log is used unasked (both claimed, neither holds: section 6) |
| PKI, `pki/` and `cmd/optimalparents` | the chain validation cache, the table of optimal parents | `ValidateChain`, `DiscoverChain`, the search for optimal parents, encoding, mimic SCTs | cache key without the leaf; validation outside the lock; cross-certificates | the cached answer is the answer; discovery ends, and in a root that a log accepts |
| Others: configuration, logger, web pages, diagnostics, CT linting | settings, log sinks | loading, rendering | none that state explains | not modelled |

How they interact: `POST` gives `Handle` a context with the request's deadline.
`Handle` derives the requirements, filters the log lists, asks the strategy for an
ordered list of logs (which reads the monitor), and calls `submit`. `submit` starts
`submitToLog` goroutines under a child context; they answer over one channel and
write to the monitor, which the next request's strategy reads.

`PROJECT.json` lists each component with its status, and the hazards of the code,
each at its line with the properties that cover it.

## 2. The modules

| Module | Models | Kind |
|---|---|---|
| `QuorumState` | `quorum.go` as operators on values, and `Compliant`, what a quorum is | pure operators |
| `QuorumGrowth`, `QuorumGrowthMC` | the life of one `quorumState`: any logs answer in any order | state machine over the operators |
| `SubmissionService` | what `submit` promises its caller: granted, refused, aborted, barren | abstract specification |
| `Submit`, `SubmitMC` | one call of `submit()`: coordinator, goroutines as seen from the channel, channel, context | detailed specification |
| `SubmitToLog` | the inside of one `submitToLog` goroutine | detailed specification |
| `Monitor` | `monitor/` and the startup goroutine of `main`: backoffs, tree heads, uptimes, clock | state machine |
| `Strategy`, `StrategyMC` | `devizeSubmissionStrategy` as a process that reads the monitor while it changes | composition |
| `Server` | the process around the submissions: `POST`, health, probes, monitor loops, signal and shutdown | state machine |
| `LogLists` | `loglists/filter.go`: the four base lists from what browsers publish | pure operators |
| `OptimalParents` | `cmd/optimalparents`: the parent listed for a key | pure operators |
| `Handle`, `HandleMC` | calls of `Handle` that share the validation cache, from parsed body to response | composition over `LogLists`, `OptimalParents`, `QuorumState` |
| `QuorumProofs` | what the operators of `QuorumState` guarantee: the trim is sound, nothing needed is discarded | proofs |
| `QuorumGrowthProofs` | theorems about `QuorumGrowth`, from those | proofs |
| `SubmitProofs` | theorems about `Submit`, and that it implements `SubmissionService` | proofs |
| `SubmitToLogProofs` | theorems about `SubmitToLog` | proofs |
| `StrategyProofs` | theorems about `Strategy` and `Monitor` | proofs |
| `ServerProofs` | theorems about `Server` | proofs |
| `OptimalParentsProofs` | what `OptimalParents` computes: shortest ways to roots, and parents that lead on to better ones | proofs |
| `HandleProofs` | theorems about `Handle`: types and lists, discovery, cache, issuer and replies | proofs |

### QuorumState and QuorumGrowth

A log is its index in the strategy. `quorumState` keeps `got` (the code's
`strategyIndices`, parallel to `responses` and `scts`), the operators and the two
flags. The boolean slice `selected` of `trimToQuorum` is a set of positions, the
loops that stop at the first or last hit are `Least` and `Greatest`, and the result
is the set of logs kept; the order in which they are kept is abstracted. In
`QuorumGrowth` the n-th log to answer is `strategy[n]`, so that TLC sees every order
of arrival of every strategy; each step is one iteration of the event loop that
receives a success.

### Submit

| Variable | Code |
|---|---|
| `sr`, `strategy` | the arguments |
| `phase` | where the coordinator is: before the loop, in it, in one of the two drain loops, returned |
| `ctxDone`, `cause` | `ctx.Err()`, `context.Cause(submissionCtx)` |
| `qs`, `inFlight`, `inFlightIndices`, `slowInFlightIndices` | the locals of the same name |
| `attempted` | `BeganAfter != 0` |
| `outcome` | the `Outcome` fields |
| `events` | the channel, of capacity `len(eligible)` |
| `goroutine` | where each `submitToLog` is, and the timers it has reported |
| `reply` | the returned values |

One iteration of the event loop is one action (`ReceiveSuccess`, `ReceiveFailure`,
`ReceiveTryNext`, `ReceiveSlow`), with every launch, mark and cancellation it makes:
nothing else reads the coordinator's locals in between, and the goroutines it starts
take their first visible step later. A drain loop takes one event per step, because
goroutines run between two receives. `NoticeContext` is the other case of the `select`
and may be taken while events wait. A goroutine's send is split in two (decide, then
send when there is room), so that it can block. `TimeTaken`, log lines, responses'
contents and `quorumFailureReason`'s wording are left out.

The model takes `BeganAfter != 0` to mean "launched", which a clock that has not
advanced since `start` would contradict. `Timers` says for each log which of its two timers may
fire before its request has ended.

`SubmissionService` keeps only who was contacted, whose answer was accepted, the
context and the reply. `ImplementsService` maps `contacted` to `attempted` and
`accepted` to the range of `qs.got`. Its strongest clause is `Refuse`: the
call may give up only if the accepted SCTs together with all the logs that were
*not* contacted could not make a quorum.

### SubmitToLog

`at` walks through the function: `prepare`, `select`, `wait` (the 100 ms after the
context's end), `process`, `send`, `record`, `done`. The environment ends the context,
fills and empties the channel, ends the request with any answer and fires timers. A
failure is recorded with the monitor (`penalty`), sent, and counted
(`counted`), in the code's order. The signature, timestamp and encoding checks of an SCT are one
choice, `valid` or `invalid`; what they read is data.

`EventProtocol` is what `Submit` takes for granted of a goroutine, so the two compose:
each timer is reported at most once, exactly one final event is sent, and last.

### Monitor

| Variable | Code |
|---|---|
| `backoffUntil` | `BackoffUntil` in the five backoff maps |
| `sthTimestamp` | `sthData[log].Timestamp`, 0 for nil; `Monitored` are the logs with an entry at all |
| `fetches` | the goroutines that `FetchAllSTHs` has started and that have not ended |
| `nextFetch` | the `time.After` of `STHMonitor` |
| `uptime` | `uptime24h` and `uptime90d` |
| `startup` | where the goroutine of `main` is |
| `now` | the clock |

Each `Record*` is one action, as it runs under the lock of its map; each `Get*` is one read.
A Retry-After header is a number of seconds, a date, or nothing usable; seconds wrap
around as the product with `time.Second` does in 64 bits (`Wrapped`), here with
`DurationRange` values. A fetch has two steps besides its start: the log answers with
one of the heads it has signed lately, and the head is stored. In between other fetches of
the same log may start and end. An uptime file is a function from logs to rows; what
the code does with a log that has no row (nil) and with a row whose percentage is no
number (it counts as 0 for that endpoint, and leaves the lowest alone) is `EntryFrom`.

`LastFetched` and `TreeSize`, `StatusCode` and `BackoffPeriod` are left out: only the
dashboard shows them. (For RFC 6962 logs `sthMonitor.go:142-146` makes `LastFetched` and
`Timestamp` point to the same variable, so that the dashboard shows the head's time as the
time of the fetch.)

### Strategy

`devizing`, `member` and `check` say where the loop of `devizeSubmissionStrategy` is;
`bucket` and `order` are what it builds; `held` is a history variable, the backoffs when
the strategy was begun. The loop reads up to eight tables for each log, every one under its own
lock: each read is a step, and any step of `Monitor` may come in between. The regexes and
operator names of the configuration are the sets `Excluded` and `Preferred`, all logs
have the same `MMD`, and the random weights are the choice of any order that is sorted
by bucket. `strategy.preferred.operators` has no counterpart: `docs/INSTALL.md:180`
documents it, `config.go:41` reads it, and nothing uses it.

### Server

| Variable | Code |
|---|---|
| `now` | the clock; 0 is Go's zero time |
| `request` | for each `POST`: where it is, its deadline, the status code and kind of body in its `fasthttp` context |
| `probe` | for each `/livez` or `/readyz`: the handler, the goroutine it has started, the locals of that goroutine, and the response both write |
| `latest` | the three timestamps of `Health` |
| `dataReady` | `initialDataReady` |
| `loop` | the two loops of the monitor, as far as `ShutdownWG` goes |
| `signalled`, `stopping` | the context of `main`, and which wait of its shutdown it is in |

`Handle` is reduced to when it returns and with what: after the deadline (`TimeOut`,
`post.go:99-104`, which records the timestamp), or in time (`Send`); then `Settle`, the
deferred function, looks at the deadline a second time. When `POST` has returned -1, `webHandler` answers with
503 and no body in a step of its own (`Refuse`, `server.go:57-64`), so that a probe may come between
the record and the answer.

A probe is two processes: `readyz` starts a goroutine that calls `IsReady` and sets code
and body of the response one after the other (`Look`, `Compare`, `SetCode`,
`SetBody`), and waits for it no longer than until its deadline; if that passes, `monitoringHandler`
sets code and body of the *same* response (`AnswerTimeout`) while the goroutine goes on.
The code has no lock there. Each write is a step, and the reply is what the
response holds when the handler returns. `IsReady` reads the busy timestamp and takes
`time.Since` of it afterwards, which are two steps too.

`latest["nonError"]` and `latest["error"]` exist because `UpdateLatestTimestamps` takes them; no
caller passes them, so they stay 0 and `/livez` always answers 200.

### Handle, LogLists, OptimalParents

A *world* is what one run of the program meets: the log lists embedded in it, the CA certificates
that `optimalparents` knew when it was run and those that CCADB knows now, the roots
that logs accept, what the configuration excludes and includes, and the requests. TLC checks
sets of worlds; the proofs hold for any. What worlds may be is `IsWorld`, and its part about
foreign data is `AsPublished`: a browser lists a log once and marks none of its logs as a
test log; custom logs are all test logs, which `validateLogList` enforces.

| Variable | Code |
|---|---|
| `bases` | `UsableTLSLogs`, `TestTLSLogs`, `UsableBIMILogs`, `CrtshV3Active`, computed by `init` |
| `table` | `optimalParent`, embedded as a file |
| `cache` | `logValidateChainCacheMap`: log, CA certificates of the chain, verdict |
| `handle` | for each call: where it is, the request with its requirements and chain so far, the logs still to be looked at and those found, the log being validated, the issuer's key, the response |

One call goes through `Parse` (decoding errors and `determineSubmissionRequirements`),
`Discover` (one parent per step), `Filter` (what `determineCompatibleLogs` checks
without the chain), `LookUp` and `Validate` for each log (read under one lock, validation without, write under
another), `Count`, `LookUpIssuer` and `Submit`. Steps of several calls interleave; a call has
nothing else to share than `cache`. Logs are looked at in any order, where the code goes operator by operator.

`Submit` is the promise of `SubmissionService` on the one hand, granted with a quorum of the
strategy's eligible logs or else an error, and `Handle`'s rendering of it on the
other. A certificate has an identity, the keys it certifies, claims to be signed with and is
signed with, and an end of validity; a chain is accepted by a log if it is signed link by link and
ends in, or below, one of its accepted roots (`Valid`, which stands for `ctfe.ValidateChain`; its checks of
the leaf's end against the log's window, which `determineCompatibleLogs` has made before, and of path lengths are left out).

`Search` in `OptimalParents` is the breadth-first search of `buildChains` by levels; `Better`
is its comparison: score, length, end of validity, hash.

## 3. The runs

| Run | Question | Bounds, and why they are enough |
|---|---|---|
| `quorum_growth` | is the trim right, is nothing needed thrown away? | 3 operators, SCTs and operators up to 3 (the policy asks for 2 or 3), 6 answers: enough for two surplus entries of each kind on top of three SCTs |
| `submit` | is the reply right in every interleaving, is the service implemented, does anything outlive `submit` or start twice, does it come back? | every strategy of two logs (an excluded third behind them) and two of three logs, over two operators, where a fallback, a try-next beside a slow log and a surplus SCT to trim all occur; requests for one SCT with and without conditions, the policy's default, and that with an RFC 6962 log. Every log may be late, and the second slow besides, so that events outnumber the places in the channel. 1.3 million states |
| `submit_reply_is_exact` | the comment at `quorum.go:89` | violated, see section 6 |
| `submit_to_log` | does a goroutine keep its promises? | no bound: the model is finite |
| `submit_to_log_bad_response` | a sentence of the docs | violated, see section 6 |
| `strategy_backoffs` | is a log in a backoff behind the others? | 3 logs: one excluded and without an entry, one preferred, one with bad uptimes; two failures with any of three headers: a short one after a long one, and one whose seconds overflow; two ticks of time, so that a backoff can run out while the strategy is drawn up |
| `strategy_heads` | can slow fetches demote a log that is well? | one log, as logs do not influence each other's heads; `MaxTime` = 6 covers the startup fetch and the next two of the timer; an `MMD` of exactly `RefreshInterval + 2 HTTPTimeout + PublishInterval`, the least for which it holds |
| `strategy_unknown_logs` | two sentences, one of the docs and one of `main.go` | violated, see section 6 |
| `server` | do health, probes and shutdown tell the truth, and end? | two requests (timeouts recorded in either order), one probe (probes share nothing but what they read), one loop, timeouts of one tick and `MaxTime` = 4: a request may time out before, during and after a probe, and be forgotten before the end. No request or probe arrives whose deadline lies beyond `MaxTime`. 0.9 million states |
| `server_error_status` | the statuses of `docs/REST_API.md` | violated, see section 6 |
| `handle` | has a reply what was asked for and what the code makes sure of? | some 6500 worlds in seven families, each of which varies what one part depends on: `DiscoveryWorlds` (every subset of seven CA certificates, with cross-certification and a loop), `ExtensionWorlds` (chains that have begun already), `FilterWorlds` (three browsers that disagree about one log of three), `ListWorlds` (a log that Mozilla only qualifies, and a test log), `KindWorlds` (every endpoint, kind of certificate and configuration), `NumberWorlds` (numbers, test and custom logs, excluded logs, unknown issuers), `CacheWorlds` (two requests at once whose chains agree but for the leaf, or not) |
| `handle_logs_as_documented` | three sentences of the docs about the logs that are used | violated, see section 6; `ListWorlds` alone |

The inductive invariants of the proofs were checked by TLC as well, on the instances of the runs: `IInv`,
`Pace` and `Answers` of `Submit` on that of `submit`, `HInv` of `Strategy` on that of `strategy_heads`
(1.8 million states, with its quantifier over all times cut at 9), `IInv` of `Server` on that of `server`, and `HandleInv` on that of `handle`.

Every property of a passing run has a mutant in `PROJECT.json`: a definition of the
model changed the way a plausible bug would change the code, for which TLC finds the
property violated.

`HealthyLogIsNotDemoted` depends on time: timers fire promptly, a fetch is over when the HTTP
client's timeout is, and the two uptime fetches at startup take at most `StartupTime`
(`NothingIsOverdue`). With the defaults of `config.go:257-258` the sum is 30 s + 2 * 15 s,
one minute, plus the age of the heads a log serves. That is far from a day, the MMD of
RFC 6962 logs, but not below the minute that static logs commonly declare: a
slow static log may seem to have blown its MMD. MMDs come from log lists outside
the repository, so this is a remark and not a finding.

## 4. Fairness

`Submit`: weak fairness of the coordinator and, for each goroutine, of finishing its request and of its
send. The Go scheduler runs every goroutine that can run; `http.Client.Timeout`
(`submitter.go`) ends every request; a goroutine that waits in a send is
queued, and the coordinator keeps receiving until the count is zero. No timer is
assumed to fire and no context to end.

`SubmitToLog`: weak fairness of the goroutine and of the channel, strong fairness of
its send, since a place in the channel may come and go before it is this goroutine's turn
and Go queues waiting senders. Nothing is assumed of the request: it may never end, and the cancelled
goroutine ends all the same.

`Server`: weak fairness of what requests, loops and `main` do taken together (a submission returns, which is
`SubmitReturns` of `Submit`, and a fetch has the HTTP client's timeout), of each probe's handler, and of the clock.
Nothing is assumed of the goroutine a probe starts: `ProbeIsAnswered` holds although it may be stuck.

`Monitor`, `Strategy` and `Handle` have no liveness properties and state no fairness.

## 5. What is proved

`SubmitProofs` proves, for any number of logs, any strategies, requests, operators
and timers (`SubmitAssumption` says that they have their types, and that a request asks for no more
operators than SCTs, which `determineSubmissionRequirements` ensures at `request.go:86-88`):

| Theorem | Statement |
|---|---|
| `TypeCorrect` | `Spec => []TypeOK` |
| `Accounting` | `Spec => []InFlightAccounting` |
| `NothingLeftBehind` | `Spec => []NoGoroutineLeftBehind` |
| `LaunchedOnceAndInTime` | `Spec => LaunchOnceAndInTime` |
| `ConcurrencyIsBounded` | `Spec => []BoundedConcurrency` |
| `GrantedIsCompliant` | `Spec => []ReplyIsCompliant` |
| `GrantedIsTrimmed` | `Spec => [](ReplyIsExactFromTwo /\ ReplyPrefersStatic)` |
| `OutcomesAreRight` | `Spec => []OutcomesMatchReply` |
| `NoQuorumIsMissed` | `Spec => []LoopMissesNoQuorum` |
| `SubmitImplementsService` | `Spec => ImplementsService` |

`InFlightAccounting` is not inductive: to see that receiving a final event lowers
the number of unreported logs by exactly one, one has to know that this is the log's only
final event, that nothing of that log comes after it, and that its goroutine is gone. `IInv` adds this as
`Channel` (`NothingAfterFinal`, `FinalMeansGone`, `EventsOfUnreported`,
`AttemptedMeansStarted`), with `TimersNoted` (a try-next event waiting in the channel means the
goroutine has noted that it sent it, so it comes once), `IdleAtTheEnds` (what holds
before the start and after the return) and `LoopHasNoQuorum`. The proof has one step
per action and, under it, one per conjunct the action can disturb; the lemmas on
sequences and cardinalities come first. `NothingLeftBehind` follows from
the accounting: `inFlight` is zero on return, so no log is unreported.

Two more invariants are inductive relative to `IInv`. `Pace` is `BoundedConcurrency` with
`TryNextOnce`: a launch that follows a late log takes that log out of the count, and it could do so
twice if a log could be late twice; it cannot, because a try-next event is in the channel or in the
goroutine's hand at most once, and then its log is not yet among the slow ones. `Answers` relates
the books to the channel and the marks: the kept responses are of different logs and the
counters and flags summarise them (`Bookkeeping`), what was discarded has no weight (`Weighed`), a log is marked
as soon as it has reported and not before (`LoopOutcomes`, `QuorumOutcomes`, `ContextOutcomes`), the
loop has nothing in flight only if no log that is left would help (`NothingHelps`), and a granted reply is what the
trim made of a quorum (`ReplyIsTrimmed`). With `TrimIsSound` the reply is compliant; with
`Weighed` a quorum of all answers would be a quorum of the kept ones, which ends the loop.

The refinement maps step by step: launches are `Contact`, a success that is kept is `Accept`, the end of the
context is the service's own, and a return is `Grant`, `Refuse`, `Abort` or `Barren`. Only `Refuse` is hard: the service allows it if
the accepted SCTs together with all the logs not contacted make no quorum. `NobodyHelps` shows that logs that
`wouldHelp` rejects one by one are of no weight together, which is what the greedy check of the code relies on.

`QuorumProofs` has the lemmas about the operators, for any strategy and any state of the books, and one theorem,
`TrimIsSound`: of responses that meet the requirements, `trimToQuorum` leaves some that meet them still, with a static log if
one is preferred and there is one, and exactly as many as asked for if that is two or more. It follows the
code's passes: one response for each operator as far as needed (`DiverseSelection`), the two swaps, each of which adds one entry and may drop
one that `canDropSafely` lets go, and the filling up to the size. At each pass a `Selection` is
kept that has enough operators and is no larger than the request allows. From two SCTs on, an entry that may be dropped is
found by counting; for one SCT the static swap may find none, which is the violation in section 6.

`QuorumGrowthProofs` proves, for any operators, requests and number of answers:

| Theorem | Statement |
|---|---|
| `BooksAreTrue` | `Spec => [](TypeOK /\ Bookkeeping(qs, strategy))`: the kept responses are of different logs, and the operators and flags are exactly theirs |
| `TrimmedIsCompliant` | `Spec => []TrimKeepsQuorum` |
| `TrimmedIsExact` | `Spec => []TrimIsExact` |
| `TrimmedPrefersStatic` | `Spec => []TrimPrefersStatic` |
| `DiscardedIsNotNeeded` | `Spec => []NothingNeededIsDiscarded` |

Its `IInv` is `TypeOK`, `Bookkeeping` and `Weighed`, kept by an answer because a longer strategy changes
nothing for the answers there were (`LongerStrategy`).

`StrategyProofs` proves, for any logs, configuration, uptime files, headers and width of a
duration (`MonitorAssumption`, `StrategyAssumption`: types, and that the sets of logs are
sets of logs):

| Theorem | Statement |
|---|---|
| `TypeCorrect` | `Spec => []TypeOK` |
| `PenaltyRespected` | `Spec => []PenaltyIsRespected` |
| `HealthyKeepsPlace` | `Spec => []HealthyLogIsNotDemoted`, if `HeadsAreTimely` |

`PenaltyIsRespected` speaks of finished strategies; the invariant `IInv` says what
holds while one is drawn up. `HeldIsInForce`: backoffs have only been extended since
the beginning (`RecordExtends`). `Judged`: a log that was left unburdened had nothing
held against it, and of the log being looked at, the backoffs already read had run
out. A backoff that had run out when it was read, has run out for good as far as `held` goes, since the
clock does not go back; so nothing that happens between two reads can undo what the earlier one
established. `OrderIsSorted` and the numbers of the buckets do the rest.

`HealthyKeepsPlace` has a hypothesis on the constants, `HeadsAreTimely`: an MMD of at least `RefreshInterval` + 2
`HTTPTimeout` + `PublishInterval`. (On the instance of `strategy_heads`, which has exactly that, an MMD one tick shorter is violated.)
The heart of its invariant `HInv` is `HeadsKeepComing`: in every `RefreshInterval` a fetch was begun
for each log which either is still under way, and so is not older than `HTTPTimeout`, or is matched by the head
that is stored. The head stored may be that of an *older* fetch that came in later, but then that one was begun less than
`HTTPTimeout` before it came in (`FetchesAreTimely`), and this is where the second `HTTPTimeout` comes from. A fetch
that fails leaves a backoff behind, and then the log is not healthy any more (`FailureIsRemembered`); health, once lost, is not
regained in the sense of the property, so what was judged of a log that is healthy now was judged of one that was healthy then.

`SubmitToLogProofs` proves all four invariants of `SubmitToLog` (it has no constants; TLC
has checked it completely, and the proof says why it holds):

| Theorem | Statement |
|---|---|
| `TypeCorrect` | `Spec => []TypeOK` |
| `ProtocolKept` | `Spec => []EventProtocol` |
| `PenaltyFirst` | `Spec => []PenaltyPrecedesFailure` |
| `BodyClosed` | `Spec => []BodyIsClosed` |

`IInv` follows the final event: while the request races the timers nothing is recorded and only
served timers have been sent (`SentInOrder`); the event in hand is a timer that has not been sent, or the final event
(`PendingIsNew`), and then the backoff recorded is the one its outcome calls for (`PenaltyIsRight`), and
an open body belongs to it (`OpenIsInHand`). That at most three events are sent follows from there being
two timers.

`ServerProofs` proves, for any number of requests, probes and loops, any timeouts and any end of
time (`ServerAssumption`: types, and timeouts that are not 0):

| Theorem | Statement |
|---|---|
| `TypeCorrect` | `Spec => []TypeOK` |
| `TimeoutsRemembered` | `Spec => []TimeoutIsRemembered` |
| `NobodyCutOff` | `Spec => []NobodyIsCutOff` |
| `ReadyIsTrue` | `Spec => []ReadyMeansNotBusy` |
| `ResultsAreSentAsOK` | `Spec => []ResultIsSentAsOK` |

`ReadyMeansNotBusy` needs the most: the response may at any time hold the code of one writer and the
body of the other. `ProbeIsRight` says of each probe what its goroutine has read (`WorkerIsRight`: what it read is
at least as late as every timeout the probe knew of, since timestamps only advance), that whatever the response holds of readiness
is true (`ResponseIsRight`), and therefore so is a reply (`ReplyIsRight`): a probe that is *not*
ready may say both `OK` and 503, but if it says ready anywhere it is. What is forgotten stays
forgotten, as the clock does not go back. `TimeoutsKept` says that a busy time is recorded before its 503 is
sent, and `Written` which codes go with which bodies. `StoppedInOrder` says who is idle at each stage of the shutdown.

`HandleProofs` proves, for any worlds, any finite sets of logs and operators
(`HandleAssumption`: `IsWorld`, and that keys, hashes, times and the mark for garbage are what they are):

| Theorem | Statement |
|---|---|
| `TypeCorrect` | `Spec => []TypeOK` |
| `DiscoveryProgresses` | `Spec => []DiscoveryMovesOn` |
| `VerdictsAreOwn` | `Spec => []VerdictIsOwn` |
| `IssuersAreKnown` | `Spec => []IssuerIsKnown` |
| `RepliesAreAsAsked` | `Spec => []ReplyIsWhatWasAsked` |
| `PolicyRepliesAreAdmissible` | `Spec => []PolicyReplyIsAdmissible` |
| `SuccessesCarrySCTs` | `Spec => []SuccessCarriesSCTs` |
| `DiscoveredChainsAreAccepted` | `Spec => []DiscoveredChainIsAccepted`, if `CAsAreTrue` |
| `FollowedChainIsAccepted` (`OptimalParentsProofs`) | the same of any sequence that follows the table to its end |

The inductive invariant `HandleInv` is the conjunction of what each part hands to the next:
`AskedInv` (the request is the one that came in, with its requirements raised and its chain
extended), `AdmittedInv` (every log found is one of the base list that passes the filter), `VerdictInv`,
`IssuerInv`, `ReplyInv` and `DiscoveredInv`. For the cache, `CacheInv` keeps for every entry a request that has put it there, and
`SharedVerdict` is the lemma that makes the missing leaf harmless: two chains with the same CA certificates
whose leaves were both issued by the first of them validate alike. `Decided` then says of every log looked at that
it is among the found ones exactly if the chain validates. For the lists, `UsableCounts` shows from
`intersect` that what is in `UsableTLSLogs` is in all three browsers' lists, with the latest of
the dates since when it is usable that the code compares, and with the narrowest interval if Chrome states
one. `PolicyReplyIsAdmissible` says no more than that; that it is less than usable in all three, and in
all three intervals, is shown by the violated run.

A discovered chain is accepted because the table never leads in a circle before it has led to a root.
`OptimalParentsProofs` shows it in three parts. The search: after n levels it has visited what can be
reached in n steps and holds the shortest way to every root (`Searched`), and as many levels as there
are certificates are enough (`WholeSearch`, by counting), so that a certificate reaches a root exactly
if its chains are not empty (`FoundIsWay`, `WayIsFound`), and one of its parents is nearer to that root than
itself (`SomeParentIsCloser`). The choice: among finitely many results one is best, and only one, as
hashes differ (`OneIsBest`). The chain: from a listed certificate that reaches a root, the next one listed is accepted by more
logs, or by as many over a shorter way (`NextImproves`); were it one that the chain has already, a root would be
reached all along the circle (`ReachedFromBefore`), and going round it would improve on itself (`ImprovesAlong`). So the chain
ends below a root that is listed, and what is listed is accepted somewhere (`RootIsAccepted`), or in a certificate that
reaches no root and is listed because it is accepted itself. `DiscoveredInv` says that discovery builds such a chain and
ends only when there is nothing to add. TLC has checked it on the instance of `handle`.

The hypothesis `CAsAreTrue` says that CA certificates are finitely many, differ in their hashes, and name in their AKI, if
they have one, the key that has signed them. The tool and discovery go by the AKI and check no
signature, so without it a chain can be found that no log accepts. `HandleMC` assumes the same of its CAs, so TLC
evaluates it. That the leaf's AKI is true and CCADB still knows what the tool knew are conditions of the property itself.

Only model-checked: all liveness (`SubmitReturns`, `CancelledGoroutineEnds`,
`ProbeIsAnswered`, `ShutdownEnds`), which is beyond the prover because it needs ENABLED.

## 6. Where the code and its documents differ

- `quorum.go:89` says the trim "reduces the collected SCTs to exactly sr.SCTs". With
  one SCT asked for, an RFC 6962 log required and a static log preferred, a static
  success can be kept first and a required RFC 6962 success second; the static swap
  then adds an entry and can drop none, and two SCTs are returned
  (`submit_reply_is_exact`). `TrimIsExact` shows that from two SCTs on the sentence
  holds.
- `submitToLog.go:146`: if the context ends while the body is being read, the
  read fails and the log is charged with a bad response, a backoff of a minute by default, although
  it was ctsubmit that hung up (`submit_to_log_bad_response`; `docs/INSTALL.md:184`,
  `monitor/metrics.go:32`).
- `strategy.go:160`: a log without a tree head is excluded, say
  `docs/SubmissionStrategy.md:73` and `docs/REST_API.md:251`; the code excludes only logs without an entry in
  `sthData`, and entries are made at startup with no timestamp. And `main.go:62`: the service is marked ready when the
  first fetches of tree heads have been started, not when they have ended; `main.go:46` and `health.go:32` promise the
  latter. Either sentence by itself implies `NoUnknownLogIsUsed`, which is violated
  (`strategy_unknown_logs`): requests that come early are answered as if every log were fresh.
- `request/post.go:71`: errors are sent with 400 and timeouts answered with 503, say `docs/REST_API.md:122` and
  `:134-136` and `docs/openapi.yaml:68-76`. The deferred function sets no status once the deadline has passed; if it
  passes after `POST` has looked (`post.go:100`) and written the error, nobody sets one, and the error goes out
  with 200 (`server_error_status`). Nothing else goes wrong there: `ResultIsSentAsOK`.
- The logs that are used are not those that the documents name (`handle_logs_as_documented`). The run checks
  `SomeLogsAreAsDocumented`, the disjunction of three properties, so that the one state TLC finds contradicts
  all three:
  - `loglists/filter.go:96`: a log that Mozilla has as Qualified, with no Usable state, is used for
    policy-compliant requests. `docs/REST_API.md:195` wants it marked as usable by all three browsers,
    `docs/SubmissionStrategy.md:50` in the Usable state, and `filter.go:95` says it "will be filtered out
    per-request"; but what is looked at then is Chrome's entry (`PolicyLogsAreUsable`).
  - `loglists/filter.go:164`: an interval that only Apple or Mozilla states is dropped.
    `docs/SubmissionStrategy.md:49` wants "the log's temporal interval" to cover the certificate's validity period, and does not say
    whose; `PolicyLogsTakeTheLeaf` takes it of each list that a usable log has to be on, and, as the code does,
    the validity period as its end.
  - `submitter/request.go:57`: a request with neither `policyCompliant` nor `testLogs` uses every log of
    crt.sh's list, test logs included. `docs/REST_API.md:196` and `:44` and `docs/openapi.yaml:287` say production
    logs; `ActiveTLSLogs`, which has no test logs, is computed, and used for all but this (`NoTestLogIsUsedUnasked`).
- `server/livez.go`: `docs/INSTALL.md:231` says that `/livez` "Returns HTTP 200 if the application has successfully processed at least one
  submission." No caller of `UpdateLatestTimestamps` passes an error or non-error time and `CompleteRequest` has no caller, so both
  stay zero and liveness is reported from the start. There is no run for this: in the model, as in the code,
  `IsAlive` compares two constants, and no behaviour is to be explored.
- `config/config.go:41`: `docs/INSTALL.md:180` documents `strategy.preferred.operators` as "Operator names to prefer for
  submissions."; it is read and used by nothing. There is no run for it either: the models have no such operators.

## 7. Behaviour worth a maintainer's attention

Met while modelling. We found no document that decides these the other way, so there is no run for them, and the
properties are stated so as to allow for them.

- `pki/chain.go:54-60`: the cache's key leaves out the leaf. A leaf sent with CA
  certificates that did not issue it puts "does not validate" in the cache for every later leaf of those CAs,
  until the program ends. `docs/SubmissionStrategy.md:51` says "cached per chain/log pair"; the comment at these lines says
  why the leaf is not part of that. `VerdictIsOwn` supposes that no such leaf has been sent, and so does not judge the damage.
- `submitter/compatibleLogs.go:81`: logs are counted before the strategy excludes some.
- `submitter/submitToLog.go:224`: the issuer's key is nil when a precertificate comes without its issuer,
  CCADB does not know that issuer, and the log's roots are unknown or contain it; the
  dereference ends the process. In the model such a call may be `crashed`.
- `submitter/request.go:57`: a request that is not policy-compliant may use BIMI logs that crt.sh lists;
  discovery uses the column of the active TLS logs for it.
- `submitter/handler.go:170`: with `response.includeLogResponses` off, a certificate (not a precertificate) gets a
  successful response that contains no SCT.
- `pki/mimics.go:77-89`: mimic SCTs for a certificate are signed as precertificate entries.
- `pki/discovery.go`: a chain that ends in a self-signed root may be extended by a cross-certificate of that root.
- `server/readyz.go:32-39`: the goroutine of a probe that has timed out writes the response that
  `server.go:115-120` writes, without a lock.

## 8. What is not modelled, and what is left

- The sliding windows of `monitor/metrics.go`: only the dashboard reads them, and no decision rests on them. The time of a
  sample is taken under the lock, so samples are in order and dropping old ones from the front is enough.
- Encoding, signatures and mimic SCTs (`pki`), CT linting, web pages, diagnostics, configuration
  loading and logging: their correctness is about data or wording and not about state.
- An empty uptime file (`uptimeFetcher.go:115`, which panics), clocks that stand still between two events
  (`BeganAfter` = 0), and which key an SCT is checked with (`submitToLog.go:209`): listed as hazards without
  a property, each with the reason.
- Left to prove: nothing that is safety. Every invariant and every action property that a passing run
  checks is a theorem.
