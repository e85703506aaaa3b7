---------------------------- MODULE StreamService ----------------------------
(***************************************************************************)
(* What a client of the scheduler is promised, one request at a time and   *)
(* with no batching in sight: the request is refused, or it is accepted    *)
(* and streams the tokens it would get alone on the machine, in order and  *)
(* none twice, until the stream is complete or fails.                      *)
(***************************************************************************)
EXTENDS Naturals, Sequences

CONSTANTS
  Requests,
  SoloLen       \* SoloLen[r]: the tokens r gets when it runs alone

VARIABLES
  phase,        \* phase[r]: "new", "refused", "open", "done" or "failed"
  stream        \* stream[r]: the tokens delivered, each named by its place
                \* in the stream r gets alone

serviceVars == <<phase, stream>>

ServiceInit ==
  /\ phase = [r \in Requests |-> "new"]
  /\ stream = [r \in Requests |-> <<>>]

Answer(r, p) ==
  /\ phase[r] = "new"
  /\ phase' = [phase EXCEPT ![r] = p]
  /\ UNCHANGED stream

\* The next token; the last one also ends the stream.
Deliver(r) ==
  /\ phase[r] = "open"
  /\ stream' = [stream EXCEPT ![r] = Append(@, Len(@) + 1)]
  /\ phase' = [phase EXCEPT ![r] = IF Len(stream'[r]) = SoloLen[r] THEN "done" ELSE "open"]

\* A stream may be cut short, never made up.
FailStream(r) ==
  /\ phase[r] = "open"
  /\ phase' = [phase EXCEPT ![r] = "failed"]
  /\ UNCHANGED stream

ServiceNext ==
  \E r \in Requests :
    \/ Answer(r, "open")
    \/ Answer(r, "refused")
    \/ Deliver(r)
    \/ FailStream(r)

ServiceSpec == ServiceInit /\ [][ServiceNext]_serviceVars
=============================================================================
