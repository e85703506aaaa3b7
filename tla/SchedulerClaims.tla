--------------------------- MODULE SchedulerClaims ---------------------------
(***************************************************************************)
(* What the comments and the docs say of the scheduler and the code does   *)
(* not do.  TLC finds each one violated.                                   *)
(***************************************************************************)
EXTENDS SchedulerProperties

\* "A sequence that can't get KV blocks mid-stream fails alone; prefills that
\* don't fit simply wait" (docs/theory/04) and "retry when blocks free up"
\* (scheduler.go): with a pool that has room for any one request, everybody
\* who is taken is answered if the scheduler is not stopped.
PrefillsSimplyWait == \A r \in Requests : Taken(r) ~> Closed(r) \/ stopping

\* "per-request failure" (docs/theory/04): the backend's range check ends only
\* a request that itself runs past MaxSeq.  Its last token is never fed back.
FailsAlone ==
  \A r \in Requests : ending[r] = "refused" => PromptLen[r] + SoloLen[r] - 1 > MaxSeq

\* "the returned channel streams one event per token and closes after Done"
\* (Submit): when run has returned, every stream Submit handed out is closed.
EveryStreamCloses ==
  pc = "halted" => \A r \in Requests : Taken(r) => Closed(r)
=============================================================================
