----------------------------- MODULE LoadGenProofs -----------------------------
(***************************************************************************)
(* Proofs about the server and its load generator, for every number of     *)
(* requests and of workers: what a client reads follows its stream, and a  *)
(* request counted as served was served to its end.                        *)
(***************************************************************************)
EXTENDS LoadGen, SequenceTheorems, TLAPS

Phases == {"new", "refused", "open", "done", "failed"}
Lines == {"token", "error", "done"} \X Nat

ServerType ==
  /\ phase \in [Requests -> Phases]
  /\ stream \in [Requests -> Seq(Nat)]
  /\ up \in BOOLEAN
  /\ conn \in [Requests -> {"none", "up", "cut"}]
  /\ handler \in [Requests -> {"none", "submitting", "relaying", "returned"}]
  /\ taken \in [Requests -> Nat]
  /\ status \in [Requests -> {"none", "ok", "unavailable"}]
  /\ body \in [Requests -> Seq(Lines)]

\* A stream is the beginning of the solo one: all of it when it is done, less
\* while it is open, and nothing before it is.
StreamRight(r) ==
  /\ \A k \in 1 .. Len(stream[r]) : stream[r][k] = k
  /\ phase[r] \in {"new", "refused"} => Len(stream[r]) = 0
  /\ phase[r] = "open" => Len(stream[r]) < SoloLen[r]
  /\ phase[r] = "done" => Len(stream[r]) = SoloLen[r]

TokensOnly(r) == \A i \in 1 .. Len(body[r]) : i <= Len(stream[r]) /\ body[r][i] = TokenLine(i)

\* The last line says how the stream ended, the others are its tokens.
Ended(r) ==
  /\ Len(body[r]) = Len(stream[r]) + 1
  /\ \A i \in 1 .. Len(stream[r]) : body[r][i] = TokenLine(i)
  /\ \/ body[r][Len(body[r])] = DoneLine /\ phase[r] = "done"
     \/ body[r][Len(body[r])] = ErrorLine /\ phase[r] = "failed"

\* Where the handler is, and what has been written by then.
HandlerRight(r) ==
  /\ taken[r] <= Len(stream[r])
  /\ handler[r] \in {"none", "submitting"} => taken[r] = 0 /\ body[r] = <<>> /\ status[r] = "none"
  /\ handler[r] = "none" <=> conn[r] = "none"
  /\ handler[r] = "none" => phase[r] = "new"
  /\ handler[r] = "relaying" =>
       /\ phase[r] \in {"open", "done", "failed"}
       /\ TokensOnly(r)
       /\ conn[r] = "up" => Len(body[r]) = taken[r]
  /\ handler[r] = "returned" =>
       /\ phase[r] \in {"refused", "done", "failed"}
       /\ TokensOnly(r) \/ Ended(r)
       /\ conn[r] = "up" /\ phase[r] # "refused" => Ended(r)
  /\ status[r] = "ok" => phase[r] \in {"open", "done", "failed"}

ServerInv == ServerType /\ \A r \in Requests : StreamRight(r) /\ HandlerRight(r)

-----------------------------------------------------------------------------
(* One step of one request's stream or handler; the others keep theirs. *)

\* Everything the server has of x.
ServerOf(x) == <<phase[x], stream[x], conn[x], handler[x], taken[x], status[x], body[x]>>

LEMMA OthersKept ==
  ASSUME ServerInv, ServerType', NEW r \in Requests,
         \A x \in Requests \ {r} : ServerOf(x)' = ServerOf(x),
         StreamRight(r)', HandlerRight(r)'
  PROVE  ServerInv'
<1>1. ASSUME NEW x \in Requests \ {r}
      PROVE  StreamRight(x)' /\ HandlerRight(x)'
  <2>1. /\ phase'[x] = phase[x] /\ stream'[x] = stream[x] /\ conn'[x] = conn[x]
        /\ handler'[x] = handler[x] /\ taken'[x] = taken[x] /\ status'[x] = status[x]
        /\ body'[x] = body[x]
    BY <1>1 DEF ServerOf
  <2>2. StreamRight(x) /\ HandlerRight(x)
    BY DEF ServerInv
  <2>3. QED
    BY <2>1, <2>2 DEF StreamRight, HandlerRight, TokensOnly, Ended
<1>2. QED
  BY <1>1 DEF ServerInv

LEMMA AnswerInv ==
  ASSUME ServerInv, NEW r \in Requests, SchedulerAnswers(r)
  PROVE  ServerInv'
<1>1. PICK p \in {"open", "refused"} : Answer(r, p)
  BY DEF SchedulerAnswers
<1>2. /\ handler[r] = "submitting" /\ phase[r] = "new" /\ phase' = [phase EXCEPT ![r] = p]
      /\ UNCHANGED <<stream, up, conn, handler, taken, status, body>>
  BY <1>1 DEF SchedulerAnswers, Answer, httpVars
<1>3. ServerType'
  BY <1>2 DEF ServerInv, ServerType, Phases
<1>4. StreamRight(r) /\ HandlerRight(r) /\ phase'[r] = p /\ stream[r] \in Seq(Nat)
  BY <1>2 DEF ServerInv, ServerType
<1>5. 0 < SoloLen[r]
  BY LoadGenAssumption
<1>6. StreamRight(r)' /\ HandlerRight(r)'
  BY <1>2, <1>4, <1>5 DEF StreamRight, HandlerRight
<1>7. \A x \in Requests \ {r} : ServerOf(x)' = ServerOf(x)
  BY <1>2 DEF ServerOf, ServerInv, ServerType
<1>8. QED
  BY <1>3, <1>6, <1>7, OthersKept

\* A longer stream keeps what was read of it.
LEMMA DeliverInv ==
  ASSUME ServerInv, NEW r \in Requests, SchedulerStreams(r), Deliver(r)
  PROVE  ServerInv'
<1>. DEFINE n == Len(stream[r])
            p == IF Len(stream'[r]) = SoloLen[r] THEN "done" ELSE "open"
<1>1. /\ phase[r] = "open" /\ stream' = [stream EXCEPT ![r] = Append(stream[r], n + 1)]
      /\ phase' = [phase EXCEPT ![r] = p]
      /\ UNCHANGED <<up, conn, handler, taken, status, body>>
  BY DEF SchedulerStreams, Deliver, httpVars, ServerInv, ServerType
<1>2. /\ StreamRight(r) /\ HandlerRight(r) /\ stream \in [Requests -> Seq(Nat)]
      /\ n \in Nat /\ SoloLen[r] \in Nat \ {0} /\ body[r] \in Seq(Lines) /\ Len(body[r]) \in Nat
  BY LoadGenAssumption, LenProperties DEF ServerInv, ServerType
<1>3. /\ Append(stream[r], n + 1) \in Seq(Nat) /\ stream'[r] = Append(stream[r], n + 1)
      /\ Len(stream'[r]) = n + 1
      /\ \A k \in 1 .. n : stream'[r][k] = stream[r][k]
      /\ stream'[r][n + 1] = n + 1
  BY <1>1, <1>2, AppendProperties
<1>4. phase'[r] = p /\ p \in {"done", "open"}
  BY <1>1 DEF ServerInv, ServerType
<1>5. ServerType'
  BY <1>1, <1>3, <1>4 DEF ServerInv, ServerType, Phases
<1>6. StreamRight(r)'
  BY <1>1, <1>2, <1>3, <1>4 DEF StreamRight
<1>7. handler[r] \in {"submitting", "relaying"}
  BY <1>1, <1>2 DEF HandlerRight, ServerInv, ServerType
<1>8. HandlerRight(r)'
  <2>1. taken[r] \in Nat /\ taken[r] <= n /\ (TokensOnly(r) => TokensOnly(r)')
    BY <1>1, <1>2, <1>3 DEF HandlerRight, TokensOnly, ServerInv, ServerType
  <2>2. QED
    BY <1>1, <1>2, <1>3, <1>4, <1>7, <2>1 DEF HandlerRight
<1>9. \A x \in Requests \ {r} : ServerOf(x)' = ServerOf(x)
  BY <1>1 DEF ServerOf, ServerInv, ServerType
<1>10. QED
  BY <1>5, <1>6, <1>8, <1>9, OthersKept

LEMMA FailStreamInv ==
  ASSUME ServerInv, NEW r \in Requests, SchedulerStreams(r), FailStream(r)
  PROVE  ServerInv'
<1>1. /\ phase[r] = "open" /\ phase' = [phase EXCEPT ![r] = "failed"]
      /\ UNCHANGED <<stream, up, conn, handler, taken, status, body>>
  BY DEF SchedulerStreams, FailStream, httpVars
<1>2. StreamRight(r) /\ HandlerRight(r) /\ phase'[r] = "failed"
  BY <1>1 DEF ServerInv, ServerType
<1>3. ServerType'
  BY <1>1 DEF ServerInv, ServerType, Phases
<1>4. StreamRight(r)' /\ HandlerRight(r)'
  BY <1>1, <1>2 DEF StreamRight, HandlerRight, TokensOnly
<1>5. \A x \in Requests \ {r} : ServerOf(x)' = ServerOf(x)
  BY <1>1 DEF ServerOf, ServerInv, ServerType
<1>6. QED
  BY <1>3, <1>4, <1>5, OthersKept

LEMMA ConnectInv ==
  ASSUME ServerInv, NEW r \in Requests, Connect(r)
  PROVE  ServerInv'
<1>1. /\ conn[r] = "none" /\ conn' = [conn EXCEPT ![r] = "up"]
      /\ handler' = [handler EXCEPT ![r] = "submitting"]
      /\ UNCHANGED <<phase, stream, up, taken, status, body>>
  BY DEF Connect, serviceVars
<1>2. StreamRight(r) /\ HandlerRight(r) /\ conn'[r] = "up" /\ handler'[r] = "submitting"
  BY <1>1 DEF ServerInv, ServerType
<1>3. handler[r] = "none"
  BY <1>1, <1>2 DEF HandlerRight
<1>4. ServerType'
  BY <1>1 DEF ServerInv, ServerType
<1>5. StreamRight(r)' /\ HandlerRight(r)'
  BY <1>1, <1>2, <1>3 DEF StreamRight, HandlerRight
<1>6. \A x \in Requests \ {r} : ServerOf(x)' = ServerOf(x)
  BY <1>1 DEF ServerOf, ServerInv, ServerType
<1>7. QED
  BY <1>4, <1>5, <1>6, OthersKept

LEMMA SubmittedInv ==
  ASSUME ServerInv, NEW r \in Requests, Accepted(r) \/ Refused(r)
  PROVE  ServerInv'
<1>1. /\ handler[r] = "submitting" /\ UNCHANGED <<phase, stream, up, conn, taken, body>>
      /\ \/ /\ phase[r] \in {"open", "done", "failed"} /\ status' = status
            /\ handler' = [handler EXCEPT ![r] = "relaying"]
         \/ /\ phase[r] = "refused" /\ handler' = [handler EXCEPT ![r] = "returned"]
            /\ status' = [status EXCEPT ![r] = IF conn[r] = "up" THEN "unavailable" ELSE status[r]]
  BY DEF Accepted, Refused, serviceVars, ServerInv, ServerType
<1>2. StreamRight(r) /\ HandlerRight(r) /\ stream[r] \in Seq(Nat) /\ body[r] \in Seq(Lines)
  BY DEF ServerInv, ServerType
<1>3. ServerType'
  BY <1>1 DEF ServerInv, ServerType
<1>4. taken[r] = 0 /\ body[r] = <<>> /\ Len(body[r]) = 0
  BY <1>1, <1>2 DEF HandlerRight
<1>5. TokensOnly(r)'
  BY <1>1, <1>4 DEF TokensOnly
<1>6. /\ handler'[r] \in {"relaying", "returned"}
      /\ handler'[r] = "relaying" => phase[r] \in {"open", "done", "failed"}
      /\ handler'[r] = "returned" => phase[r] = "refused"
      /\ status'[r] # "ok"
  BY <1>1, <1>2 DEF HandlerRight, ServerInv, ServerType
<1>7. StreamRight(r)' /\ HandlerRight(r)'
  BY <1>1, <1>2, <1>4, <1>5, <1>6 DEF StreamRight, HandlerRight
<1>8. \A x \in Requests \ {r} : ServerOf(x)' = ServerOf(x)
  BY <1>1 DEF ServerOf, ServerInv, ServerType
<1>9. QED
  BY <1>3, <1>7, <1>8, OthersKept

\* A line that is emitted is the last of the body, if the client is there.
LEMMA Emitted ==
  ASSUME ServerInv, NEW r \in Requests, NEW line \in Lines, Emit(r, line)
  PROVE  /\ status' \in [Requests -> {"none", "ok", "unavailable"}]
         /\ body' \in [Requests -> Seq(Lines)]
         /\ \A x \in Requests \ {r} : status'[x] = status[x] /\ body'[x] = body[x]
         /\ conn[r] # "up" => body'[r] = body[r] /\ status'[r] = status[r]
         /\ conn[r] = "up" => /\ Len(body'[r]) = Len(body[r]) + 1
                              /\ \A i \in 1 .. Len(body[r]) : body'[r][i] = body[r][i]
                              /\ body'[r][Len(body[r]) + 1] = line
<1>1. body \in [Requests -> Seq(Lines)] /\ status \in [Requests -> {"none", "ok", "unavailable"}]
  BY DEF ServerInv, ServerType
<1>2. /\ Append(body[r], line) \in Seq(Lines) /\ Len(Append(body[r], line)) = Len(body[r]) + 1
      /\ \A i \in 1 .. Len(body[r]) : Append(body[r], line)[i] = body[r][i]
      /\ Append(body[r], line)[Len(body[r]) + 1] = line
  BY <1>1, AppendProperties
<1>3. /\ status' = [status EXCEPT ![r] = IF conn[r] = "up" THEN "ok" ELSE status[r]]
      /\ body' = [body EXCEPT ![r] = IF conn[r] = "up" THEN Append(body[r], line) ELSE body[r]]
  BY <1>1 DEF Emit
<1>4. body' \in [Requests -> Seq(Lines)] /\ status' \in [Requests -> {"none", "ok", "unavailable"}]
  BY <1>1, <1>2, <1>3
<1>5. QED
  BY <1>1, <1>2, <1>3, <1>4

LEMMA RelayTokenInv ==
  ASSUME ServerInv, NEW r \in Requests, RelayToken(r)
  PROVE  ServerInv'
<1>. DEFINE k == taken[r] + 1
<1>1. /\ handler[r] = "relaying" /\ taken[r] < Len(stream[r])
      /\ taken' = [taken EXCEPT ![r] = k] /\ Emit(r, TokenLine(stream[r][taken'[r]]))
      /\ UNCHANGED <<phase, stream, up, conn, handler>>
  BY DEF RelayToken, Relaying, serviceVars, ServerInv, ServerType
<1>2. /\ StreamRight(r) /\ HandlerRight(r) /\ taken[r] \in Nat /\ taken'[r] = k
      /\ Len(stream[r]) \in Nat /\ Len(body[r]) \in Nat
      /\ \A x \in Requests \ {r} : taken'[x] = taken[x]
  BY <1>1, LenProperties DEF ServerInv, ServerType
<1>3. k \in 1 .. Len(stream[r]) /\ stream[r][k] = k
  BY <1>1, <1>2 DEF StreamRight
<1>4. TokenLine(k) \in Lines /\ Emit(r, TokenLine(k))
  BY <1>1, <1>2, <1>3 DEF Lines, TokenLine
<1>5. /\ TokensOnly(r) /\ phase[r] \in {"open", "done", "failed"}
      /\ conn[r] = "up" => Len(body[r]) = taken[r]
  BY <1>1, <1>2 DEF HandlerRight
<1>6. /\ status' \in [Requests -> {"none", "ok", "unavailable"}]
      /\ body' \in [Requests -> Seq(Lines)]
      /\ \A x \in Requests \ {r} : status'[x] = status[x] /\ body'[x] = body[x]
      /\ conn[r] # "up" => body'[r] = body[r] /\ status'[r] = status[r]
      /\ conn[r] = "up" => /\ Len(body'[r]) = Len(body[r]) + 1
                           /\ \A i \in 1 .. Len(body[r]) : body'[r][i] = body[r][i]
                           /\ body'[r][Len(body[r]) + 1] = TokenLine(k)
  BY <1>4, Emitted
<1>7. ServerType'
  <2>1. taken' \in [Requests -> Nat]
    <3>1. k \in Nat /\ taken \in [Requests -> Nat]
      BY <1>2 DEF ServerInv, ServerType
    <3>. HIDE DEF k
    <3>2. QED
      BY <1>1, <3>1
  <2>2. QED
    BY <1>1, <1>6, <2>1 DEF ServerInv, ServerType
<1>8. TokensOnly(r)' /\ (conn[r] = "up" => Len(body'[r]) = k)
  <2>1. CASE conn[r] # "up"
    BY <1>1, <1>5, <1>6, <2>1 DEF TokensOnly
  <2>2. CASE conn[r] = "up"
    <3>1. Len(body'[r]) = k /\ \A i \in 1 .. k : i \in 1 .. Len(body[r]) \/ i = Len(body[r]) + 1
      BY <1>2, <1>5, <1>6, <2>2
    <3>2. \A i \in 1 .. k : i <= Len(stream[r]) /\ body'[r][i] = TokenLine(i)
      <4>1. ASSUME NEW i \in 1 .. Len(body[r])
            PROVE  i <= Len(stream[r]) /\ body'[r][i] = TokenLine(i)
        BY <1>5, <1>6, <2>2 DEF TokensOnly
      <4>2. k <= Len(stream[r]) /\ body'[r][k] = TokenLine(k) /\ k = Len(body[r]) + 1
        BY <1>3, <1>5, <1>6, <2>2
      <4>. HIDE DEF k
      <4>3. QED
        BY <3>1, <4>1, <4>2
    <3>3. QED
      BY <1>1, <3>1, <3>2 DEF TokensOnly
  <2>3. QED
    BY <2>1, <2>2
<1>9. StreamRight(r)' /\ HandlerRight(r)'
  <2>1. StreamRight(r)'
    BY <1>1, <1>2 DEF StreamRight
  <2>2. k <= Len(stream[r])
    BY <1>3
  <2>3. QED
    BY <1>1, <1>2, <1>5, <1>8, <2>1, <2>2 DEF HandlerRight
<1>10. \A x \in Requests \ {r} : ServerOf(x)' = ServerOf(x)
  BY <1>1, <1>2, <1>6 DEF ServerOf, ServerInv, ServerType
<1>11. QED
  BY <1>7, <1>9, <1>10, OthersKept

\* The last line, for either ending.
LEMMA RelayEndInv ==
  ASSUME ServerInv, NEW r \in Requests, RelayError(r) \/ RelayDone(r)
  PROVE  ServerInv'
<1>1. /\ handler[r] = "relaying" /\ taken[r] = Len(stream[r])
      /\ handler' = [handler EXCEPT ![r] = "returned"]
      /\ UNCHANGED <<phase, stream, up, conn, taken>>
      /\ \/ phase[r] = "failed" /\ Emit(r, ErrorLine)
         \/ phase[r] = "done" /\ Emit(r, DoneLine)
  BY DEF RelayError, RelayDone, Relaying, Returns, serviceVars
<1>2. PICK line \in Lines : /\ Emit(r, line)
                            /\ \/ line = DoneLine /\ phase[r] = "done"
                               \/ line = ErrorLine /\ phase[r] = "failed"
  <2>1. DoneLine \in Lines /\ ErrorLine \in Lines
    BY DEF Lines, DoneLine, ErrorLine
  <2>2. QED
    BY <1>1, <2>1
<1>3. /\ StreamRight(r) /\ HandlerRight(r) /\ Len(stream[r]) \in Nat /\ Len(body[r]) \in Nat
      /\ handler'[r] = "returned" /\ \A x \in Requests \ {r} : handler'[x] = handler[x]
  BY <1>1, LenProperties DEF ServerInv, ServerType
<1>4. TokensOnly(r) /\ (conn[r] = "up" => Len(body[r]) = Len(stream[r]))
  BY <1>1, <1>3 DEF HandlerRight
<1>5. /\ status' \in [Requests -> {"none", "ok", "unavailable"}]
      /\ body' \in [Requests -> Seq(Lines)]
      /\ \A x \in Requests \ {r} : status'[x] = status[x] /\ body'[x] = body[x]
      /\ conn[r] # "up" => body'[r] = body[r] /\ status'[r] = status[r]
      /\ conn[r] = "up" => /\ Len(body'[r]) = Len(body[r]) + 1
                           /\ \A i \in 1 .. Len(body[r]) : body'[r][i] = body[r][i]
                           /\ body'[r][Len(body[r]) + 1] = line
  BY <1>2, Emitted
<1>6. ServerType'
  BY <1>1, <1>5 DEF ServerInv, ServerType
<1>7. CASE conn[r] # "up"
  <2>1. TokensOnly(r)'
    BY <1>1, <1>4, <1>5, <1>7 DEF TokensOnly
  <2>2. HandlerRight(r)'
    BY <1>1, <1>2, <1>3, <1>5, <1>7, <2>1 DEF HandlerRight
  <2>3. QED
    <3>1. StreamRight(r)'
      BY <1>1, <1>3 DEF StreamRight
    <3>2. \A x \in Requests \ {r} : ServerOf(x)' = ServerOf(x)
      BY <1>1, <1>3, <1>5 DEF ServerOf
    <3>3. QED
      BY <1>6, <2>2, <3>1, <3>2, OthersKept
<1>8. CASE conn[r] = "up"
  <2>1. Ended(r)'
    <3>1. Len(body'[r]) = Len(stream[r]) + 1 /\ body'[r][Len(body'[r])] = line
      BY <1>3, <1>4, <1>5, <1>8
    <3>2. \A i \in 1 .. Len(stream[r]) : body'[r][i] = TokenLine(i)
      BY <1>3, <1>4, <1>5, <1>8 DEF TokensOnly
    <3>3. QED
      BY <1>1, <1>2, <3>1, <3>2 DEF Ended
  <2>2. HandlerRight(r)'
    BY <1>1, <1>2, <1>3, <2>1 DEF HandlerRight
  <2>3. StreamRight(r)'
    BY <1>1, <1>3 DEF StreamRight
  <2>4. \A x \in Requests \ {r} : ServerOf(x)' = ServerOf(x)
    BY <1>1, <1>3, <1>5 DEF ServerOf
  <2>5. QED
    BY <1>6, <2>2, <2>3, <2>4, OthersKept
<1>9. QED
  BY <1>7, <1>8

\* Connections may break, one or all of them.
LEMMA BrokenInv ==
  ASSUME ServerInv, Killed \/ \E r \in Requests : Cut(r)
  PROVE  ServerInv'
<1>1. /\ UNCHANGED <<phase, stream, handler, taken, status, body>>
      /\ conn' \in [Requests -> {"none", "up", "cut"}] /\ up' \in BOOLEAN
      /\ \A x \in Requests : conn'[x] = conn[x] \/ (conn[x] = "up" /\ conn'[x] = "cut")
  BY DEF Killed, Cut, serviceVars, ServerInv, ServerType
<1>2. ServerType'
  BY <1>1 DEF ServerInv, ServerType
<1>3. ASSUME NEW x \in Requests
      PROVE  StreamRight(x)' /\ HandlerRight(x)'
  <2>1. StreamRight(x) /\ HandlerRight(x)
    BY DEF ServerInv
  <2>2. conn'[x] = conn[x] \/ (conn[x] = "up" /\ conn'[x] = "cut")
    BY <1>1
  <2>3. QED
    BY <1>1, <2>1, <2>2 DEF StreamRight, HandlerRight, TokensOnly, Ended
<1>4. QED
  BY <1>2, <1>3 DEF ServerInv

\* Every step of the server, or of a client that posts.
LEMMA ServerNext ==
  ASSUME ServerInv,
         \/ \E r \in Requests : ServerSteps(r)
         \/ Killed
         \/ \E r \in Requests : Connect(r)
         \/ UNCHANGED <<serviceVars, httpVars>>
  PROVE  ServerInv'
<1>1. ASSUME NEW r \in Requests, ServerSteps(r)
      PROVE  ServerInv'
  <2>1. SchedulerAnswers(r) \/ SchedulerStreams(r) \/ Handle(r) \/ Cut(r)
    BY <1>1 DEF ServerSteps
  <2>2. CASE SchedulerStreams(r)
    BY <2>2, DeliverInv, FailStreamInv DEF SchedulerStreams
  <2>3. CASE Handle(r)
    BY <2>3, SubmittedInv, RelayTokenInv, RelayEndInv DEF Handle
  <2>4. QED
    BY <2>1, <2>2, <2>3, AnswerInv, BrokenInv
<1>2. CASE UNCHANGED <<serviceVars, httpVars>>
  BY <1>2 DEF serviceVars, httpVars, ServerInv, ServerType, StreamRight, HandlerRight, TokensOnly,
     Ended
<1>3. QED
  BY <1>1, <1>2, BrokenInv, ConnectInv

LEMMA ServerFirst == ServerInit => ServerInv
<1>. SUFFICES ASSUME ServerInit PROVE ServerInv
  OBVIOUS
<1>1. ServerType
  BY DEF ServerInit, ServiceInit, ServerType, Phases
<1>2. ASSUME NEW r \in Requests PROVE StreamRight(r) /\ HandlerRight(r)
  BY DEF ServerInit, ServiceInit, StreamRight, HandlerRight
<1>3. QED
  BY <1>1, <1>2 DEF ServerInv

-----------------------------------------------------------------------------
(* What a client reads. *)

LEMMA ServerFollows == ServerInv => BodyFollowsStream
<1>. SUFFICES ASSUME ServerInv, NEW r \in Requests, NEW i \in DOMAIN body[r]
              PROVE  \/ i <= Len(stream[r]) /\ body[r][i] = TokenLine(i)
                     \/ /\ i = Len(body[r])
                        /\ i = Len(stream[r]) + 1
                        /\ \/ body[r][i] = DoneLine /\ phase[r] = "done" /\ Len(stream[r]) = SoloLen[r]
                           \/ body[r][i] = ErrorLine /\ phase[r] = "failed"
  BY DEF BodyFollowsStream
<1>1. /\ StreamRight(r) /\ HandlerRight(r)
      /\ i \in 1 .. Len(body[r]) /\ Len(body[r]) \in Nat /\ Len(stream[r]) \in Nat
  BY LenProperties DEF ServerInv, ServerType
<1>2. TokensOnly(r) \/ Ended(r)
  <2>1. body[r] # <<>>
    BY <1>1
  <2>2. QED
    BY <1>1, <2>1 DEF HandlerRight, ServerInv, ServerType
<1>3. CASE TokensOnly(r)
  BY <1>1, <1>3 DEF TokensOnly
<1>4. CASE Ended(r)
  <2>1. CASE i = Len(body[r])
    BY <1>1, <1>4, <2>1 DEF Ended, StreamRight
  <2>2. CASE i # Len(body[r])
    <3>1. i \in 1 .. Len(stream[r])
      BY <1>1, <1>4, <2>2 DEF Ended
    <3>2. QED
      BY <1>4, <3>1 DEF Ended
  <2>3. QED
    BY <2>1, <2>2
<1>5. QED
  BY <1>2, <1>3, <1>4

-----------------------------------------------------------------------------
(* The workers, and what they count. *)

LoadType ==
  /\ main \in {"feeding", "waiting", "reported", "failed"}
  /\ nextJob \in 1 .. NumRequests + 1
  /\ job \in [Workers -> -1 .. NumRequests]
  /\ reading \in [Requests -> BOOLEAN]
  /\ scanned \in [Requests -> Nat]
  /\ counted \in [Requests -> Nat]
  /\ result \in [Requests -> {"none", "ok", "err"}]

\* A request that was handed out has a result or one worker; the others have
\* neither.
JobsRight ==
  /\ \A w \in Workers : job[w] > 0 => job[w] < nextJob /\ result[job[w]] = "none"
  /\ \A w, v \in Workers : job[w] > 0 /\ job[w] = job[v] => w = v
  /\ \A r \in Requests : result[r] # "none" => r < nextJob
  /\ \A r \in Requests : r < nextJob => result[r] # "none" \/ \E w \in Workers : job[w] = r
  /\ main # "feeding" => nextJob = NumRequests + 1
  /\ main \in {"reported", "failed"} => Waited

\* What has been read of a response, and what it is counted as.
ScanRight(r) ==
  /\ reading[r] => status[r] = "ok"
  /\ scanned[r] <= Len(body[r]) /\ counted[r] = scanned[r]
  /\ \A i \in 1 .. scanned[r] : body[r][i] = TokenLine(i)
  /\ result[r] = "ok" => phase[r] = "done" /\ counted[r] = SoloLen[r]

LoadInv == LoadType /\ JobsRight /\ (\A r \in Requests : ScanRight(r)) /\ LevelAddsUp

\* The server takes nothing back: not a line, not a header, not the end.
LEMMA ServerKeeps ==
  ASSUME ServerInv, NEW r \in Requests, ServerSteps(r) \/ Connect(r) \/ Killed, NEW x \in Requests
  PROVE  /\ status[x] = "ok" => status'[x] = "ok"
         /\ phase[x] = "done" => phase'[x] = "done"
         /\ Len(body[x]) <= Len(body'[x])
         /\ \A i \in 1 .. Len(body[x]) : body'[x][i] = body[x][i]
<1>1. Len(body[x]) \in Nat /\ Len(body[x]) <= Len(body[x])
  BY LenProperties DEF ServerInv, ServerType
<1>2. CASE UNCHANGED <<phase, status, body>>
  BY <1>1, <1>2
<1>3. CASE SchedulerAnswers(r) \/ SchedulerStreams(r)
  BY <1>1, <1>3 DEF SchedulerAnswers, SchedulerStreams, Answer, Deliver, FailStream, httpVars,
     ServerInv, ServerType
<1>4. CASE Refused(r)
  <2>1. handler[r] = "submitting" /\ phase' = phase /\ body' = body
        /\ \A y \in Requests \ {r} : status'[y] = status[y]
    BY <1>4 DEF Refused, serviceVars, ServerInv, ServerType
  <2>2. status[r] = "none"
    BY <2>1 DEF ServerInv, HandlerRight
  <2>3. QED
    BY <1>1, <2>1, <2>2
<1>5. ASSUME NEW line \in Lines, Emit(r, line), phase' = phase
      PROVE  /\ status[x] = "ok" => status'[x] = "ok"
             /\ phase[x] = "done" => phase'[x] = "done"
             /\ Len(body[x]) <= Len(body'[x])
             /\ \A i \in 1 .. Len(body[x]) : body'[x][i] = body[x][i]
  <2>1. CASE x # r \/ conn[r] # "up"
    <3>1. body'[x] = body[x] /\ status'[x] = status[x]
      BY <1>5, <2>1, Emitted
    <3>2. QED
      BY <1>1, <1>5, <3>1
  <2>2. CASE x = r /\ conn[r] = "up"
    <3>1. /\ Len(body'[x]) = Len(body[x]) + 1
          /\ \A i \in 1 .. Len(body[x]) : body'[x][i] = body[x][i]
      BY <1>5, <2>2, Emitted
    <3>2. status'[x] = "ok"
      BY <1>5, <2>2 DEF Emit, ServerInv, ServerType
    <3>3. QED
      BY <1>1, <1>5, <3>1, <3>2
  <2>3. QED
    BY <2>1, <2>2
<1>6. CASE RelayToken(r)
  <2>1. /\ taken[r] < Len(stream[r]) /\ taken'[r] = taken[r] + 1 /\ phase' = phase
        /\ Emit(r, TokenLine(stream[r][taken'[r]]))
    BY <1>6 DEF RelayToken, serviceVars, ServerInv, ServerType
  <2>2. stream[r] \in Seq(Nat) /\ taken'[r] \in 1 .. Len(stream[r])
    BY <2>1, LenProperties DEF ServerInv, ServerType
  <2>3. stream[r][taken'[r]] \in Nat
    BY <2>2
  <2>4. TokenLine(stream[r][taken'[r]]) \in Lines
    BY <2>3 DEF TokenLine, Lines
  <2>5. QED
    BY <1>5, <2>1, <2>4
<1>7. CASE RelayError(r) \/ RelayDone(r)
  <2>1. DoneLine \in Lines /\ ErrorLine \in Lines /\ phase' = phase
    BY <1>7 DEF RelayError, RelayDone, DoneLine, ErrorLine, Lines, serviceVars
  <2>2. QED
    BY <1>5, <1>7, <2>1 DEF RelayError, RelayDone
<1>8. QED
  BY <1>2, <1>3, <1>4, <1>6, <1>7 DEF ServerSteps, Handle, Accepted, Cut, Connect, Killed,
     serviceVars

LEMMA ScanKept ==
  ASSUME ServerInv, LoadInv, UNCHANGED loadVars,
         \/ \E r \in Requests : ServerSteps(r) \/ Connect(r)
         \/ Killed
         \/ UNCHANGED <<serviceVars, httpVars>>
  PROVE  LoadInv'
<1>1. LoadType' /\ JobsRight' /\ LevelAddsUp'
  <2>1. LoadType' /\ JobsRight'
    BY DEF LoadInv, loadVars, LoadType, JobsRight, Waited
  <2>2. LevelAddsUp'
    BY DEF LoadInv, loadVars, LevelAddsUp
  <2>3. QED
    BY <2>1, <2>2
<1>2. ASSUME NEW x \in Requests
      PROVE  ScanRight(x)'
  <2>1. ScanRight(x) /\ scanned[x] \in Nat /\ Len(body[x]) \in Nat
    BY LenProperties DEF LoadInv, LoadType, ServerInv, ServerType
  <2>2. /\ status[x] = "ok" => status'[x] = "ok"
        /\ phase[x] = "done" => phase'[x] = "done"
        /\ Len(body[x]) <= Len(body'[x])
        /\ \A i \in 1 .. Len(body[x]) : body'[x][i] = body[x][i]
    <3>1. CASE UNCHANGED <<serviceVars, httpVars>>
      BY <2>1, <3>1 DEF serviceVars, httpVars
    <3>2. CASE ~ UNCHANGED <<serviceVars, httpVars>>
      BY <3>2, ServerKeeps
    <3>3. QED
      BY <3>1, <3>2
  <2>3. scanned[x] <= Len(body[x]) /\ Len(body[x]) <= Len(body'[x])
    BY <2>1, <2>2 DEF ScanRight
  <2>4. Len(body'[x]) \in Nat
    BY ServerNext, LenProperties DEF ServerInv, ServerType
  <2>5. scanned[x] <= Len(body'[x]) /\ \A i \in 1 .. scanned[x] : i \in 1 .. Len(body[x])
    BY <2>1, <2>3, <2>4
  <2>6. QED
    BY <2>1, <2>2, <2>5 DEF ScanRight, loadVars
<1>3. QED
  BY <1>1, <1>2 DEF LoadInv

\* Where a scan is over, the request was served to its end.
LEMMA OverIsServed ==
  ASSUME ServerInv, LoadInv, NEW r \in Requests, reading[r], Over(r)
  PROVE  phase[r] = "done" /\ counted[r] = SoloLen[r]
<1>1. /\ StreamRight(r) /\ HandlerRight(r) /\ ScanRight(r)
      /\ Len(body[r]) \in Nat /\ Len(stream[r]) \in Nat /\ scanned[r] \in Nat
      /\ DOMAIN body[r] = 1 .. Len(body[r])
  BY LenProperties DEF ServerInv, ServerType, LoadInv, LoadType
<1>2. CASE HasLine(r)
  <2>1. /\ scanned[r] + 1 \in DOMAIN body[r] /\ body[r][scanned[r] + 1] = DoneLine
    BY <1>1, <1>2 DEF HasLine, Line, Over
  <2>2. \A k : TokenLine(k) # DoneLine /\ DoneLine # ErrorLine
    BY DEF TokenLine, DoneLine, ErrorLine
  <2>3. scanned[r] + 1 = Len(stream[r]) + 1 /\ phase[r] = "done" /\ Len(stream[r]) = SoloLen[r]
    BY <2>1, <2>2, ServerFollows DEF BodyFollowsStream
  <2>4. QED
    BY <1>1, <2>3 DEF ScanRight
<1>3. CASE ~ HasLine(r)
  <2>1. handler[r] = "returned" /\ conn[r] = "up" /\ status[r] = "ok"
    BY <1>1, <1>3 DEF Over, Complete, ScanRight
  <2>2. Ended(r)
    BY <1>1, <2>1 DEF HandlerRight
  <2>3. Len(body[r]) \in 1 .. scanned[r]
    BY <1>1, <1>3, <2>2 DEF HasLine, Ended
  <2>4. body[r][Len(body[r])] = TokenLine(Len(body[r]))
    BY <1>1, <2>3 DEF ScanRight
  <2>5. QED
    BY <2>2, <2>4 DEF Ended, TokenLine, DoneLine, ErrorLine
<1>4. QED
  BY <1>2, <1>3

\* The steps that touch neither the responses nor the results.
LEMMA HandOutInv ==
  ASSUME ServerInv, LoadInv, NEW w \in Workers, HandOut(w)
  PROVE  LoadInv'
<1>1. /\ main = "feeding" /\ nextJob <= NumRequests /\ job[w] = 0
      /\ job' = [job EXCEPT ![w] = nextJob] /\ nextJob' = nextJob + 1
      /\ UNCHANGED <<serviceVars, httpVars, main, reading, scanned, counted, result, total>>
  BY DEF HandOut
<1>2. /\ LoadType /\ JobsRight /\ NumRequests \in Nat /\ Requests = 1 .. NumRequests
      /\ nextJob \in Requests
  <2>1. LoadType /\ JobsRight /\ NumRequests \in Nat /\ Requests = 1 .. NumRequests
    BY LoadGenAssumption DEF LoadInv
  <2>2. nextJob \in 1 .. NumRequests
    BY <1>1, <2>1 DEF LoadType
  <2>3. QED
    BY <2>1, <2>2
<1>3. LoadType'
  BY <1>1, <1>2 DEF LoadType
<1>4. /\ job'[w] = nextJob /\ result[nextJob] = "none"
      /\ \A v \in Workers \ {w} : job'[v] = job[v] /\ (job[v] > 0 => job[v] < nextJob)
  BY <1>1, <1>2 DEF LoadType, JobsRight
<1>5. JobsRight'
  <2>1. \A v \in Workers : job'[v] > 0 => job'[v] < nextJob' /\ result'[job'[v]] = "none"
    BY <1>1, <1>2, <1>4 DEF JobsRight, LoadType
  <2>2. \A u, v \in Workers : job'[u] > 0 /\ job'[u] = job'[v] => u = v
    BY <1>1, <1>2, <1>4 DEF JobsRight, LoadType
  <2>3. \A r \in Requests : result'[r] # "none" => r < nextJob'
    BY <1>1, <1>2 DEF JobsRight, LoadType
  <2>4. \A r \in Requests : r < nextJob' => result'[r] # "none" \/ \E v \in Workers : job'[v] = r
    <3>1. ASSUME NEW r \in Requests, r < nextJob', result'[r] = "none"
          PROVE  \E v \in Workers : job'[v] = r
      <4>1. CASE r = nextJob
        BY <1>4, <4>1
      <4>2. CASE r # nextJob
        <5>1. r < nextJob /\ result[r] = "none" /\ r > 0
          BY <1>1, <1>2, <3>1, <4>2 DEF LoadType
        <5>2. PICK v \in Workers : job[v] = r
          BY <1>2, <5>1 DEF JobsRight
        <5>3. v # w
          BY <1>1, <5>1, <5>2
        <5>4. QED
          BY <1>4, <5>2, <5>3
      <4>3. QED
        BY <4>1, <4>2
    <3>2. QED
      BY <3>1
  <2>5. QED
    BY <1>1, <2>1, <2>2, <2>3, <2>4 DEF JobsRight
<1>6. \A x \in Requests : ScanRight(x)'
  BY <1>1 DEF LoadInv, ScanRight, serviceVars, httpVars
<1>7. LevelAddsUp'
  BY <1>1 DEF LoadInv, LevelAddsUp
<1>8. QED
  BY <1>3, <1>5, <1>6, <1>7 DEF LoadInv

LEMMA CloseInv ==
  ASSUME ServerInv, LoadInv, CloseJobs \/ \E w \in Workers : WorkerExits(w)
  PROVE  LoadInv'
<1>1. /\ UNCHANGED <<serviceVars, httpVars, nextJob, reading, scanned, counted, result, total>>
      /\ job' \in [Workers -> -1 .. NumRequests]
      /\ \A v \in Workers : job'[v] = job[v] \/ (job[v] = 0 /\ job'[v] = -1)
      /\ \/ main = "feeding" /\ nextJob > NumRequests /\ main' = "waiting"
         \/ main # "feeding" /\ main' = main
  BY LoadGenAssumption DEF CloseJobs, WorkerExits, LoadInv, LoadType
<1>2. LoadType /\ JobsRight /\ NumRequests \in Nat /\ Requests = 1 .. NumRequests
  BY LoadGenAssumption DEF LoadInv
<1>3. LoadType'
  BY <1>1, <1>2 DEF LoadType
<1>4. \A v \in Workers : /\ job'[v] > 0 => job'[v] = job[v]
                         /\ job[v] > 0 => job'[v] = job[v]
                         /\ job[v] = -1 => job'[v] = -1
  BY <1>1
<1>5. JobsRight'
  <2>1. \A v \in Workers : job'[v] > 0 => job'[v] < nextJob' /\ result'[job'[v]] = "none"
    BY <1>1, <1>2, <1>4 DEF JobsRight
  <2>2. \A u, v \in Workers : job'[u] > 0 /\ job'[u] = job'[v] => u = v
    BY <1>2, <1>4 DEF JobsRight
  <2>3. \A r \in Requests : result'[r] # "none" => r < nextJob'
    BY <1>1, <1>2 DEF JobsRight
  <2>4. \A r \in Requests : r < nextJob' => result'[r] # "none" \/ \E v \in Workers : job'[v] = r
    <3>1. ASSUME NEW r \in Requests, r < nextJob', result'[r] = "none"
          PROVE  \E v \in Workers : job'[v] = r
      <4>1. PICK v \in Workers : job[v] = r
        BY <1>1, <1>2, <3>1 DEF JobsRight
      <4>2. job[v] > 0
        BY <1>2, <4>1
      <4>3. QED
        BY <1>4, <4>1, <4>2
    <3>2. QED
      BY <3>1
  <2>5. main' # "feeding" => nextJob' = NumRequests + 1
    BY <1>1, <1>2 DEF JobsRight, LoadType
  <2>6. main' \in {"reported", "failed"} => Waited'
    BY <1>1, <1>2, <1>4 DEF JobsRight, Waited
  <2>7. QED
    BY <2>1, <2>2, <2>3, <2>4, <2>5, <2>6 DEF JobsRight
<1>6. \A x \in Requests : ScanRight(x)'
  BY <1>1 DEF LoadInv, ScanRight, serviceVars, httpVars
<1>7. LevelAddsUp'
  BY <1>1 DEF LoadInv, LevelAddsUp
<1>8. QED
  BY <1>3, <1>5, <1>6, <1>7 DEF LoadInv

\* A worker that has a job: whose, and that nobody else has it.
LEMMA WorkerHasJob ==
  ASSUME LoadInv, NEW w \in Workers, job[w] > 0
  PROVE  /\ job[w] \in Requests /\ result[job[w]] = "none" /\ job[w] < nextJob
         /\ \A v \in Workers \ {w} : job[v] # job[w]
         /\ main \in {"feeding", "waiting"}
<1>1. LoadType /\ JobsRight /\ NumRequests \in Nat /\ Requests = 1 .. NumRequests
  BY LoadGenAssumption DEF LoadInv
<1>2. job[w] \in Requests
  <2>1. job[w] \in -1 .. NumRequests
    BY <1>1 DEF LoadType
  <2>2. QED
    BY <1>1, <2>1
<1>3. ~ Waited
  BY DEF Waited
<1>4. main \in {"feeding", "waiting"}
  BY <1>1, <1>3 DEF JobsRight, LoadType
<1>5. QED
  BY <1>1, <1>2, <1>4 DEF JobsRight

\* A result is stored, once, by the worker that has the request.
LEMMA StoredInv ==
  ASSUME ServerInv, LoadInv, NEW w \in Workers, PostFails(w) \/ ScanOver(w) \/ ScanFails(w)
  PROVE  LoadInv'
<1>1. PICK res \in {"ok", "err"} :
        /\ Stored(w, res) /\ job[w] > 0 /\ UNCHANGED <<scanned, counted>>
        /\ res = "ok" => reading[job[w]] /\ Over(job[w])
  BY DEF PostFails, ScanOver, ScanFails, Scanning
<1>2. PICK q \in Requests : q = job[w]
  BY <1>1, WorkerHasJob
<1>3. /\ result[q] = "none" /\ q < nextJob /\ main \in {"feeding", "waiting"}
      /\ \A v \in Workers \ {w} : job[v] # q
  BY <1>1, <1>2, WorkerHasJob
<1>4. /\ result' = [result EXCEPT ![q] = res] /\ job' = [job EXCEPT ![w] = 0]
      /\ UNCHANGED <<serviceVars, httpVars, main, nextJob, reading, total, scanned, counted>>
  BY <1>1, <1>2 DEF Stored
<1>5. LoadType /\ JobsRight /\ NumRequests \in Nat /\ Requests = 1 .. NumRequests
  BY LoadGenAssumption DEF LoadInv
<1>6. LoadType'
  <2>1. 0 \in -1 .. NumRequests
    BY <1>5
  <2>2. QED
    BY <1>4, <1>5, <2>1 DEF LoadType
<1>7. /\ job'[w] = 0 /\ \A v \in Workers \ {w} : job'[v] = job[v]
      /\ result'[q] = res /\ \A r \in Requests \ {q} : result'[r] = result[r]
  BY <1>4, <1>5 DEF LoadType
<1>8. JobsRight'
  <2>1. \A v \in Workers : job'[v] > 0 => job'[v] < nextJob' /\ result'[job'[v]] = "none"
    <3>1. ASSUME NEW v \in Workers, job'[v] > 0
          PROVE  job'[v] < nextJob /\ result'[job'[v]] = "none"
      <4>1. v # w /\ job'[v] = job[v] /\ job[v] > 0
        BY <1>7, <3>1
      <4>2. job[v] \in Requests \ {q} /\ result[job[v]] = "none" /\ job[v] < nextJob
        BY <1>3, <4>1, WorkerHasJob
      <4>3. QED
        BY <1>7, <4>1, <4>2
    <3>2. QED
      BY <1>4, <3>1
  <2>2. \A u, v \in Workers : job'[u] > 0 /\ job'[u] = job'[v] => u = v
    BY <1>5, <1>7 DEF JobsRight
  <2>3. \A r \in Requests : result'[r] # "none" => r < nextJob'
    BY <1>3, <1>4, <1>5, <1>7 DEF JobsRight
  <2>4. \A r \in Requests : r < nextJob' => result'[r] # "none" \/ \E v \in Workers : job'[v] = r
    <3>1. ASSUME NEW r \in Requests, r < nextJob', result'[r] = "none"
          PROVE  \E v \in Workers : job'[v] = r
      <4>1. r # q /\ result[r] = "none" /\ r < nextJob
        BY <1>1, <1>4, <1>7, <3>1
      <4>2. PICK v \in Workers : job[v] = r
        BY <1>5, <4>1 DEF JobsRight
      <4>3. QED
        BY <1>2, <1>7, <4>1, <4>2
    <3>2. QED
      BY <3>1
  <2>5. QED
    BY <1>3, <1>4, <1>5, <2>1, <2>2, <2>3, <2>4 DEF JobsRight
<1>9. ASSUME NEW x \in Requests
      PROVE  ScanRight(x)'
  <2>1. ScanRight(x)
    BY DEF LoadInv
  <2>2. result'[x] = "ok" => phase[x] = "done" /\ counted[x] = SoloLen[x]
    <3>1. CASE x # q
      BY <1>7, <2>1, <3>1 DEF ScanRight
    <3>2. CASE x = q
      BY <1>1, <1>2, <1>7, <3>2, OverIsServed
    <3>3. QED
      BY <3>1, <3>2
  <2>3. QED
    BY <1>4, <2>1, <2>2 DEF ScanRight, serviceVars, httpVars
<1>10. LevelAddsUp'
  BY <1>3, <1>4 DEF LevelAddsUp
<1>11. QED
  BY <1>6, <1>8, <1>9, <1>10 DEF LoadInv

\* The response is read.
LEMMA ReadInv ==
  ASSUME ServerInv, LoadInv, NEW w \in Workers, PostOk(w) \/ ScanToken(w)
  PROVE  LoadInv'
<1>1. job[w] > 0 /\ UNCHANGED <<serviceVars, httpVars, main, nextJob, job, result, total>>
  BY DEF PostOk, ScanToken, Scanning
<1>2. PICK q \in Requests : q = job[w]
  BY <1>1, WorkerHasJob
<1>3. /\ result[q] = "none" /\ LoadType
      /\ Len(body[q]) \in Nat /\ DOMAIN body[q] = 1 .. Len(body[q]) /\ scanned[q] \in Nat
      /\ counted[q] \in Nat
  BY <1>1, <1>2, WorkerHasJob, LenProperties DEF LoadInv, LoadType, ServerInv, ServerType
<1>4. JobsRight' /\ LevelAddsUp'
  <2>1. JobsRight'
    BY <1>1 DEF LoadInv, JobsRight, Waited
  <2>2. LevelAddsUp'
    BY <1>1 DEF LoadInv, LevelAddsUp
  <2>3. QED
    BY <2>1, <2>2
<1>5. CASE PostOk(w)
  <2>1. /\ status[q] = "ok" /\ reading' = [reading EXCEPT ![q] = TRUE]
        /\ UNCHANGED <<scanned, counted>>
    BY <1>2, <1>5 DEF PostOk
  <2>2. LoadType'
    BY <1>1, <1>3, <2>1 DEF LoadType
  <2>3. \A x \in Requests : reading'[x] => reading[x] \/ x = q
    BY <1>3, <2>1 DEF LoadType
  <2>4. ASSUME NEW x \in Requests PROVE ScanRight(x)'
    <3>1. ScanRight(x)
      BY DEF LoadInv
    <3>2. QED
      BY <1>1, <2>1, <2>3, <3>1 DEF ScanRight, serviceVars, httpVars
  <2>5. QED
    BY <1>4, <2>2, <2>4 DEF LoadInv
<1>6. CASE ScanToken(w)
  <2>1. /\ scanned[q] < Len(body[q])
        /\ body[q][scanned[q] + 1] # ErrorLine /\ body[q][scanned[q] + 1] # DoneLine
        /\ scanned' = [scanned EXCEPT ![q] = scanned[q] + 1]
        /\ counted' = [counted EXCEPT ![q] = counted[q] + 1]
        /\ reading' = reading
    BY <1>2, <1>3, <1>6 DEF ScanToken, HasLine, Line, LoadType
  <2>2. LoadType'
    <3>1. scanned[q] + 1 \in Nat /\ counted[q] + 1 \in Nat
      BY <1>3
    <3>2. scanned' \in [Requests -> Nat] /\ counted' \in [Requests -> Nat]
      BY <1>3, <2>1, <3>1 DEF LoadType
    <3>3. QED
      BY <1>1, <1>3, <2>1, <3>2 DEF LoadType
  <2>3. body[q][scanned[q] + 1] = TokenLine(scanned[q] + 1)
    <3>1. scanned[q] + 1 \in DOMAIN body[q]
      BY <1>3, <2>1
    <3>2. QED
      BY <2>1, <3>1, ServerFollows DEF BodyFollowsStream
  <2>4. ScanRight(q)'
    <3>1. ScanRight(q) /\ scanned'[q] = scanned[q] + 1 /\ counted'[q] = counted[q] + 1
      BY <1>3, <2>1 DEF LoadInv, LoadType
    <3>2. \A i \in 1 .. scanned[q] + 1 : body[q][i] = TokenLine(i)
      <4>1. \A i \in 1 .. scanned[q] + 1 : i \in 1 .. scanned[q] \/ i = scanned[q] + 1
        BY <1>3
      <4>2. QED
        BY <2>3, <3>1, <4>1 DEF ScanRight
    <3>3. scanned[q] + 1 <= Len(body[q])
      BY <1>3, <2>1
    <3>4. QED
      BY <1>1, <1>3, <2>1, <3>1, <3>2, <3>3 DEF ScanRight, serviceVars, httpVars
  <2>5. ASSUME NEW x \in Requests \ {q} PROVE ScanRight(x)'
    <3>1. ScanRight(x) /\ scanned'[x] = scanned[x] /\ counted'[x] = counted[x]
      BY <1>3, <2>1 DEF LoadInv, LoadType
    <3>2. QED
      BY <1>1, <2>1, <3>1 DEF ScanRight, serviceVars, httpVars
  <2>6. QED
    BY <1>4, <2>2, <2>4, <2>5 DEF LoadInv
<1>7. QED
  BY <1>5, <1>6

\* All workers gone, every request has a result; if none is an error each was
\* counted in full.
LEMMA ReportInv ==
  ASSUME ServerInv, LoadInv, Report
  PROVE  LoadInv'
<1>1. /\ main = "waiting" /\ Waited
      /\ UNCHANGED <<serviceVars, httpVars, nextJob, job, reading, scanned, counted, result>>
      /\ \/ main' = "failed"
         \/ /\ \A r \in Requests : result[r] # "err"
            /\ main' = "reported" /\ total' = TotalOf(counted)
  BY DEF Report
<1>2. LoadType /\ JobsRight /\ NumRequests \in Nat /\ Requests = 1 .. NumRequests
  BY LoadGenAssumption DEF LoadInv
<1>3. LoadType'
  BY <1>1, <1>2 DEF LoadType
<1>4. JobsRight'
  BY <1>1, <1>2 DEF JobsRight, Waited
<1>5. \A x \in Requests : ScanRight(x)'
  BY <1>1 DEF LoadInv, ScanRight, serviceVars, httpVars
<1>6. \A r \in Requests : result[r] # "none"
  <2>1. ASSUME NEW r \in Requests, result[r] = "none" PROVE FALSE
    <3>1. r < nextJob /\ r > 0
      BY <1>1, <1>2 DEF JobsRight
    <3>2. PICK v \in Workers : job[v] = r
      BY <1>2, <2>1, <3>1 DEF JobsRight
    <3>3. job[v] = -1
      BY <1>1 DEF Waited
    <3>4. QED
      BY <3>1, <3>2, <3>3
  <2>2. QED
    BY <2>1
<1>7. LevelAddsUp'
  <2>1. CASE main' = "failed"
    BY <2>1 DEF LevelAddsUp
  <2>2. CASE main' = "reported" /\ total' = TotalOf(counted) /\ \A r \in Requests : result[r] # "err"
    <3>1. \A r \in Requests : result[r] = "ok"
      BY <1>2, <1>6, <2>2 DEF LoadType
    <3>2. \A r \in Requests : counted[r] = SoloLen[r]
      BY <3>1 DEF LoadInv, ScanRight
    <3>3. counted = SoloLen
      BY <1>2, <3>2, LoadGenAssumption DEF LoadType
    <3>4. QED
      BY <1>1, <2>2, <3>1, <3>3 DEF LevelAddsUp
  <2>3. QED
    BY <1>1, <2>1, <2>2
<1>8. QED
  BY <1>3, <1>4, <1>5, <1>7 DEF LoadInv

-----------------------------------------------------------------------------
LGInv == ServerInv /\ LoadInv

LEMMA LGInvInit == LGInit => LGInv
<1>. SUFFICES ASSUME LGInit PROVE LGInv
  OBVIOUS
<1>1. NumRequests \in Nat /\ Requests = 1 .. NumRequests
  BY LoadGenAssumption
<1>2. ServerInv
  BY ServerFirst DEF LGInit
<1>3. LoadType
  <2>1. 0 \in -1 .. NumRequests /\ 1 \in 1 .. NumRequests + 1
    BY <1>1
  <2>2. QED
    BY <2>1 DEF LGInit, LoadType
<1>4. JobsRight
  BY <1>1 DEF LGInit, JobsRight
<1>5. \A r \in Requests : ScanRight(r)
  <2>. SUFFICES ASSUME NEW r \in Requests PROVE ScanRight(r)
    OBVIOUS
  <2>1. reading[r] = FALSE /\ scanned[r] = 0 /\ counted[r] = 0
        /\ result[r] = "none" /\ body[r] = <<>>
    BY DEF LGInit, ServerInit
  <2>2. Len(<<>>) = 0 /\ 1 .. 0 = {}
    OBVIOUS
  <2>3. QED
    BY <2>1, <2>2 DEF ScanRight
<1>6. LevelAddsUp
  BY DEF LGInit, LevelAddsUp
<1>7. QED
  BY <1>2, <1>3, <1>4, <1>5, <1>6 DEF LGInv, LoadInv

LEMMA LGInvNext == LGInv /\ [LGNext]_lgVars => LGInv'
<1>. SUFFICES ASSUME ServerInv, LoadInv, [LGNext]_lgVars PROVE ServerInv' /\ LoadInv'
  BY DEF LGInv
<1>1. ASSUME NEW r \in Requests, ServerSteps(r) PROVE ServerInv' /\ LoadInv'
  BY <1>1, ServerNext, ScanKept DEF ServerSteps
<1>2. CASE Killed /\ UNCHANGED loadVars
  BY <1>2, ServerNext, ScanKept
<1>3. CASE LGDone \/ UNCHANGED lgVars
  BY <1>3, ServerNext, ScanKept DEF LGDone, lgVars
<1>4. CASE CloseJobs \/ Report
  BY <1>4, ServerNext, CloseInv, ReportInv DEF CloseJobs, Report
<1>5. ASSUME NEW w \in Workers, HandOut(w) \/ WorkerExits(w) \/ Works(w)
      PROVE  ServerInv' /\ LoadInv'
  <2>1. CASE Post(w)
    <3>1. job[w] \in Requests /\ Connect(job[w]) /\ UNCHANGED loadVars
      BY <2>1, WorkerHasJob DEF Post
    <3>2. QED
      BY <3>1, ServerNext, ScanKept
  <2>2. CASE ~ Post(w)
    <3>1. UNCHANGED <<serviceVars, httpVars>>
      BY <1>5, <2>2 DEF HandOut, WorkerExits, Works, PostFails, PostOk, ScanToken, ScanOver,
         ScanFails, Stored
    <3>2. ServerInv'
      BY <3>1, ServerNext
    <3>3. LoadInv'
      BY <1>5, <2>2, HandOutInv, CloseInv, StoredInv, ReadInv DEF Works
    <3>4. QED
      BY <3>2, <3>3
  <2>3. QED
    BY <2>1, <2>2
<1>6. QED
  BY <1>1, <1>2, <1>3, <1>4, <1>5 DEF LGNext

LEMMA LGInductive == LGSpec => []LGInv
BY LGInvInit, LGInvNext, PTL DEF LGSpec

\* Whatever breaks, and however many requests and workers there are, a client
\* reads the tokens of its own stream in order and then how the stream ended.
THEOREM ClientsReadTheirStreams == LGSpec => []BodyFollowsStream
<1>1. LGInv => BodyFollowsStream
  BY ServerFollows DEF LGInv
<1>2. QED
  BY LGInductive, <1>1, PTL

\* A request that is counted as served was served to its end.
THEOREM CountedInFull == LGSpec => []CountedIsServed
<1>1. LGInv => CountedIsServed
  BY DEF LGInv, LoadInv, ScanRight, CountedIsServed
<1>2. QED
  BY LGInductive, <1>1, PTL

\* A level that is reported has every request in its totals.
THEOREM ReportedInFull == LGSpec => []LevelAddsUp
<1>1. LGInv => LevelAddsUp
  BY DEF LGInv, LoadInv
<1>2. QED
  BY LGInductive, <1>1, PTL
=============================================================================
