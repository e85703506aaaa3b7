-------------------------------- MODULE Server --------------------------------
(***************************************************************************)
(* server/server.go: POST /v1/generate over the streams of the scheduler,  *)
(* which are those of StreamService.  One handler per request submits it   *)
(* and relays its events as lines; the connection may break at any moment, *)
(* and the process may be killed, since cmd/serve handles no signal.       *)
(***************************************************************************)
EXTENDS StreamService, FiniteSets

VARIABLES
  up,           \* the process runs
  conn,         \* conn[r]: "none", "up" or "cut"
  handler,      \* handler[r]: "none", "submitting", "relaying" or "returned"
  taken,        \* taken[r]: the token events it has received
  status,       \* status[r]: "none" until the header is written, "ok", "unavailable"
  body          \* body[r]: the lines of the response that reached the client

httpVars == <<up, conn, handler, taken, status, body>>

ServerInit ==
  /\ ServiceInit
  /\ up = TRUE
  /\ conn = [r \in Requests |-> "none"]
  /\ handler = [r \in Requests |-> "none"]
  /\ taken = [r \in Requests |-> 0]
  /\ status = [r \in Requests |-> "none"]
  /\ body = [r \in Requests |-> <<>>]

TokenLine(k) == <<"token", k>>
ErrorLine == <<"error", 0>>
DoneLine == <<"done", 0>>

\* A request arrives, well formed.
Connect(r) ==
  /\ up
  /\ conn[r] = "none"
  /\ conn' = [conn EXCEPT ![r] = "up"]
  /\ handler' = [handler EXCEPT ![r] = "submitting"]
  /\ UNCHANGED <<serviceVars, up, taken, status, body>>

\* The scheduler, on its own goroutine.
SchedulerAnswers(r) ==
  /\ up
  /\ handler[r] = "submitting"
  /\ Answer(r, "open") \/ Answer(r, "refused")
  /\ UNCHANGED httpVars

SchedulerStreams(r) ==
  /\ up
  /\ Deliver(r) \/ FailStream(r)
  /\ UNCHANGED httpVars

\* Submit has returned the stream.
Accepted(r) ==
  /\ up
  /\ handler[r] = "submitting"
  /\ phase[r] \in {"open", "done", "failed"}
  /\ handler' = [handler EXCEPT ![r] = "relaying"]
  /\ UNCHANGED <<serviceVars, up, conn, taken, status, body>>

\* Submit has returned an error.
Refused(r) ==
  /\ up
  /\ handler[r] = "submitting"
  /\ phase[r] = "refused"
  /\ handler' = [handler EXCEPT ![r] = "returned"]
  /\ status' = [status EXCEPT ![r] = IF conn[r] = "up" THEN "unavailable" ELSE @]
  /\ UNCHANGED <<serviceVars, up, conn, taken, body>>

\* Mutant: a write waits for a client that is there.
EmitWaits(r, line) ==
  /\ conn[r] = "up"
  /\ status' = [status EXCEPT ![r] = "ok"]
  /\ body' = [body EXCEPT ![r] = Append(@, line)]

\* A line, and the header before the first; what is written to a connection
\* that is gone is lost, and nobody looks.
Emit(r, line) ==
  /\ status' = [status EXCEPT ![r] = IF conn[r] = "up" THEN "ok" ELSE @]
  /\ body' = [body EXCEPT ![r] = IF conn[r] = "up" THEN Append(@, line) ELSE @]

Relaying(r) == up /\ handler[r] = "relaying"

RelayToken(r) ==
  /\ Relaying(r)
  /\ taken[r] < Len(stream[r])
  /\ taken' = [taken EXCEPT ![r] = @ + 1]
  /\ Emit(r, TokenLine(stream[r][taken'[r]]))
  /\ UNCHANGED <<serviceVars, up, conn, handler>>

Returns(r) == handler' = [handler EXCEPT ![r] = "returned"]

\* The terminal event has an error.
RelayError(r) ==
  /\ Relaying(r)
  /\ taken[r] = Len(stream[r])
  /\ phase[r] = "failed"
  /\ Emit(r, ErrorLine)
  /\ Returns(r)
  /\ UNCHANGED <<serviceVars, up, conn, taken>>

\* Mutant: the end is seen before the events that precede it are relayed.
RelayDoneEarly(r) ==
  /\ Relaying(r)
  /\ phase[r] = "done"
  /\ Emit(r, DoneLine)
  /\ Returns(r)
  /\ UNCHANGED <<serviceVars, up, conn, taken>>

\* The stream is closed after a terminal event without one.
RelayDone(r) ==
  /\ Relaying(r)
  /\ taken[r] = Len(stream[r])
  /\ phase[r] = "done"
  /\ Emit(r, DoneLine)
  /\ Returns(r)
  /\ UNCHANGED <<serviceVars, up, conn, taken>>

\* The client leaves, or the network breaks.
Cut(r) ==
  /\ conn[r] = "up"
  /\ conn' = [conn EXCEPT ![r] = "cut"]
  /\ UNCHANGED <<serviceVars, up, handler, taken, status, body>>

\* The process is killed, and its connections with it.
Killed ==
  /\ up
  /\ up' = FALSE
  /\ conn' = [r \in Requests |-> IF conn[r] = "up" THEN "cut" ELSE conn[r]]
  /\ UNCHANGED <<serviceVars, handler, taken, status, body>>

Handle(r) == Accepted(r) \/ Refused(r) \/ RelayToken(r) \/ RelayError(r) \/ RelayDone(r)

\* The response of r has come to its regular end.
Complete(r) == handler[r] = "returned" /\ conn[r] = "up"

-----------------------------------------------------------------------------
\* What a client reads is its stream: the tokens in order, none twice, and
\* then, if it got that far, one line that says how the stream ended, nothing
\* after it (the handler of POST /v1/generate).
BodyFollowsStream ==
  \A r \in Requests :
    \A i \in DOMAIN body[r] :
      \/ /\ i <= Len(stream[r])
         /\ body[r][i] = TokenLine(i)
      \/ /\ i = Len(body[r])
         /\ i = Len(stream[r]) + 1
         /\ \/ body[r][i] = DoneLine /\ phase[r] = "done" /\ Len(stream[r]) = SoloLen[r]
            \/ body[r][i] = ErrorLine /\ phase[r] = "failed"

\* A handler is not left behind by a client that leaves: it returns when the
\* stream ends, unless the process does first.
HandlersReturn ==
  \A r \in Requests : handler[r] = "submitting" ~> handler[r] = "returned" \/ ~ up
=============================================================================
