------------------------- MODULE SubmissionService -------------------------
(***************************************************************************)
(* What submit() promises its caller (Handle, submitter/handler.go), free  *)
(* of goroutines, channels and timers: every log is contacted at most      *)
(* once, an answer is accepted only from a contacted log, and the call     *)
(* ends in one of four ways.                                               *)
(*   granted  with accepted SCTs that are a quorum                         *)
(*   refused  when neither the accepted SCTs nor all the logs that were    *)
(*            not contacted could make a quorum any more                   *)
(*   aborted  with nothing, when the request's context has ended           *)
(*   barren   with nothing, when no log is eligible                        *)
(* Submit implements this specification.                                   *)
(***************************************************************************)
EXTENDS QuorumState

CONSTANTS Logs,        \* the indices of a strategy
          Strategies,  \* the strategies considered
          Requests     \* the submission requests considered

VARIABLES sr, strategy,
          contacted,   \* the logs a submission was started to
          accepted,    \* the logs whose SCT was accepted towards the quorum
          contextDone, \* the request's deadline has passed or it was cancelled
          reply        \* status and SCTs given to the caller

vars == <<sr, strategy, contacted, accepted, contextDone, reply>>

Pending == reply.status = "pending"

Eligible == {i \in Logs : strategy[i].Bucket # "EXCLUDED"}

Init ==
  /\ sr \in Requests
  /\ strategy \in Strategies
  /\ contacted = {}
  /\ accepted = {}
  /\ contextDone \in BOOLEAN
  /\ reply = [status |-> "pending", scts |-> {}]

Contact(S) ==
  /\ Pending
  /\ S # {}
  /\ S \subseteq Eligible \ contacted
  /\ contacted' = contacted \cup S
  /\ UNCHANGED <<sr, strategy, accepted, contextDone, reply>>

\* Accepting an answer, or giving up on one, may start submissions to others.
Accept(i, S) ==
  /\ Pending
  /\ i \in contacted \ accepted
  /\ S \subseteq Eligible \ contacted
  /\ accepted' = accepted \cup {i}
  /\ contacted' = contacted \cup S
  /\ UNCHANGED <<sr, strategy, contextDone, reply>>

EndContext ==
  /\ ~contextDone
  /\ contextDone' = TRUE
  /\ UNCHANGED <<sr, strategy, contacted, accepted, reply>>

Answer(status, scts) ==
  /\ Pending
  /\ reply' = [status |-> status, scts |-> scts]
  /\ UNCHANGED <<sr, strategy, contacted, accepted, contextDone>>

Grant == \E scts \in SUBSET accepted :
           Compliant(sr, strategy, scts) /\ Answer("granted", scts)

Refuse ==
  /\ contacted # {}
  /\ ~Compliant(sr, strategy, accepted \cup (Eligible \ contacted))
  /\ Answer("refused", {})

Abort == contextDone /\ Answer("aborted", {})

Barren == Eligible = {} /\ Answer("barren", {})

Next ==
  \/ \E S \in SUBSET Eligible : Contact(S)
  \/ \E i \in Logs, S \in SUBSET Eligible : Accept(i, S)
  \/ EndContext
  \/ Grant
  \/ Refuse
  \/ Abort
  \/ Barren

Spec == Init /\ [][Next]_vars
============================================================================
