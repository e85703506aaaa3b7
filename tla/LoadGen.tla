------------------------------- MODULE LoadGen -------------------------------
(***************************************************************************)
(* cmd/loadgen against the server: runLevel hands the requests to a pool   *)
(* of workers, each of which posts one at a time, scans the response line  *)
(* by line, and stores its result; then runLevel adds the results up.      *)
(***************************************************************************)
EXTENDS Server, SequencesExt

CONSTANTS
  Workers,      \* the goroutines of the level
  NumRequests   \* its requests, 1 .. NumRequests

ASSUME LoadGenAssumption ==
  /\ NumRequests \in Nat
  /\ Requests = 1 .. NumRequests
  /\ SoloLen \in [Requests -> Nat \ {0}]

VARIABLES
  main,         \* runLevel: "feeding", "waiting", "reported" or "failed"
  nextJob,      \* the next request to hand out
  job,          \* job[w]: the request w works on; 0 at the channel, -1 gone
  reading,      \* reading[r]: one is past http.Post
  scanned,      \* scanned[r]: the lines read
  counted,      \* counted[r]: r.tokens
  result,       \* results[r]: "none", "ok" or "err"
  total         \* totalTokens, as reported

loadVars == <<main, nextJob, job, reading, scanned, counted, result, total>>
lgVars == <<serviceVars, httpVars, loadVars>>

LGInit ==
  /\ ServerInit
  /\ main = "feeding" /\ nextJob = 1 /\ total = 0
  /\ job = [w \in Workers |-> 0]
  /\ reading = [r \in Requests |-> FALSE]
  /\ scanned = [r \in Requests |-> 0]
  /\ counted = [r \in Requests |-> 0]
  /\ result = [r \in Requests |-> "none"]

\* jobs is unbuffered: main and a worker that waits meet.
HandOut(w) ==
  /\ main = "feeding"
  /\ nextJob <= NumRequests
  /\ job[w] = 0
  /\ job' = [job EXCEPT ![w] = nextJob]
  /\ nextJob' = nextJob + 1
  /\ UNCHANGED <<serviceVars, httpVars, main, reading, scanned, counted, result, total>>

CloseJobs ==
  /\ main = "feeding"
  /\ nextJob > NumRequests
  /\ main' = "waiting"
  /\ UNCHANGED <<serviceVars, httpVars, nextJob, job, reading, scanned, counted, result, total>>

\* The range over jobs ends.
WorkerExits(w) ==
  /\ main # "feeding"
  /\ job[w] = 0
  /\ job' = [job EXCEPT ![w] = -1]
  /\ UNCHANGED <<serviceVars, httpVars, main, nextJob, reading, scanned, counted, result, total>>

-----------------------------------------------------------------------------
(* one. *)

Post(w) ==
  /\ job[w] > 0
  /\ Connect(job[w])
  /\ UNCHANGED loadVars

\* one returns, and w goes back to the channel.
Stored(w, res) ==
  /\ result' = [result EXCEPT ![job[w]] = res]
  /\ job' = [job EXCEPT ![w] = 0]
  /\ UNCHANGED <<serviceVars, httpVars, main, nextJob, reading, total>>

\* Mutant: a server that does not answer is tried again.
PostRetries(w) ==
  /\ job[w] > 0
  /\ ~ reading[job[w]]
  /\ \/ conn[job[w]] = "none" /\ ~ up /\ UNCHANGED lgVars
     \/ /\ conn[job[w]] = "cut" \/ status[job[w]] = "unavailable"
        /\ Stored(w, "err")
        /\ UNCHANGED <<scanned, counted>>

\* http.Post fails, or the header says anything but OK.
PostFails(w) ==
  /\ job[w] > 0
  /\ ~ reading[job[w]]
  /\ \/ conn[job[w]] = "none" /\ ~ up
     \/ conn[job[w]] = "cut"
     \/ status[job[w]] = "unavailable"
  /\ Stored(w, "err")
  /\ UNCHANGED <<scanned, counted>>

PostOk(w) ==
  /\ job[w] > 0
  /\ ~ reading[job[w]]
  /\ status[job[w]] = "ok"
  /\ reading' = [reading EXCEPT ![job[w]] = TRUE]
  /\ UNCHANGED <<serviceVars, httpVars, main, nextJob, job, scanned, counted, result, total>>

Scanning(r) == r > 0 /\ reading[r]
HasLine(r) == scanned[r] < Len(body[r])
Line(r) == body[r][scanned[r] + 1]

ScanToken(w) ==
  LET r == job[w]
  IN  /\ Scanning(r)
      /\ HasLine(r)
      /\ Line(r) # ErrorLine /\ Line(r) # DoneLine
      /\ scanned' = [scanned EXCEPT ![r] = @ + 1]
      /\ counted' = [counted EXCEPT ![r] = @ + 1]
      /\ UNCHANGED <<serviceVars, httpVars, main, nextJob, job, reading, result, total>>

\* Mutant: a connection that breaks ends the scan like any other end.
OverWhenCut(r) ==
  IF HasLine(r) THEN Line(r) = DoneLine ELSE Complete(r) \/ conn[r] = "cut"

\* [DONE], or the end of a response that is complete.
Over(r) == IF HasLine(r) THEN Line(r) = DoneLine ELSE Complete(r)

ScanOver(w) ==
  /\ Scanning(job[w])
  /\ Over(job[w])
  /\ Stored(w, "ok")
  /\ UNCHANGED <<scanned, counted>>

\* The server's error line, or sc.Err: with the connection gone, lines that
\* had arrived may or may not be read first.
ScanFails(w) ==
  /\ Scanning(job[w])
  /\ (HasLine(job[w]) /\ Line(job[w]) = ErrorLine) \/ conn[job[w]] = "cut"
  /\ Stored(w, "err")
  /\ UNCHANGED <<scanned, counted>>

Works(w) == Post(w) \/ PostFails(w) \/ PostOk(w) \/ ScanToken(w) \/ ScanOver(w) \/ ScanFails(w)

-----------------------------------------------------------------------------
\* Mutant: the sum does not wait for the workers.
SumAtOnce == TRUE

\* wg.Wait has returned.
Waited == \A w \in Workers : job[w] = -1

TotalOf(tokens) == FoldFunction(+, 0, tokens)

\* The sum over the results, unless one of them is an error.
Report ==
  /\ main = "waiting"
  /\ Waited
  /\ IF \E r \in Requests : result[r] = "err"
     THEN main' = "failed" /\ UNCHANGED total
     ELSE /\ main' = "reported"
          /\ total' = TotalOf(counted)
  /\ UNCHANGED <<serviceVars, httpVars, nextJob, job, reading, scanned, counted, result>>

LGDone == main \in {"reported", "failed"} /\ UNCHANGED lgVars

ServerSteps(r) ==
  /\ SchedulerAnswers(r) \/ SchedulerStreams(r) \/ Handle(r) \/ Cut(r)
  /\ UNCHANGED loadVars

LGNext ==
  \/ \E r \in Requests : ServerSteps(r)
  \/ Killed /\ UNCHANGED loadVars
  \/ \E w \in Workers : HandOut(w) \/ WorkerExits(w) \/ Works(w)
  \/ CloseJobs \/ Report
  \/ LGDone

LGSpec == LGInit /\ [][LGNext]_lgVars

\* Goroutines that can run do, and the scheduler answers and ends each stream,
\* as it does while blocks suffice and it is not stopped (its Answered).
LGFairness ==
  /\ \A r \in Requests :
       /\ WF_lgVars(SchedulerAnswers(r) /\ UNCHANGED loadVars)
       /\ WF_lgVars(SchedulerStreams(r) /\ UNCHANGED loadVars)
       /\ WF_lgVars(Handle(r) /\ UNCHANGED loadVars)
  /\ \A w \in Workers : WF_lgVars(HandOut(w) \/ WorkerExits(w) \/ Works(w))
  /\ WF_lgVars(CloseJobs \/ Report)

LGFairSpec == LGSpec /\ LGFairness

-----------------------------------------------------------------------------
\* A request counted as served was served to its end, every token of it, also
\* when others fail, connections break or the server is killed meanwhile: no
\* truncated response passes for a short one (one, and the handler).
CountedIsServed ==
  \A r \in Requests :
    result[r] = "ok" => phase[r] = "done" /\ counted[r] = SoloLen[r]

\* A level that is reported has every request of it in its totals, whatever
\* worker served it (runLevel: wg.Wait before the sum).
LevelAddsUp ==
  main = "reported" =>
    /\ \A r \in Requests : result[r] = "ok"
    /\ total = TotalOf(SoloLen)

\* A level comes to its end, whatever breaks.
LevelReturns == <>(main \in {"reported", "failed"})
=============================================================================
