------------------------------- MODULE JobRun -------------------------------
(***************************************************************************)
(* One session, from the moment a worker has its lock: run_job_sync in the *)
(* worker's thread against the API handlers that write the same session    *)
(* hash and the list resume:{id}, and recovery after the worker has died.  *)
(* An action is one Redis command, or one gen.send of the agent.           *)
(*                                                                         *)
(* /cancel, /browser/reset and _cancel_prev_iterations do the same to one  *)
(* session and are the Canceller; /resume is the Answerer; the sweep of    *)
(* /browser/kill-all is the Admin.  Each of them is one request.           *)
(***************************************************************************)
EXTENDS Integers, Sequences

CONSTANTS
    Canceller, Answerer, Admin,   \* the requests about this session
    CallbackMode,                 \* the set of modes to consider
    MaxSteps,                     \* max_steps: records the agent yields
    MaxCrashes                    \* bound on the deaths of the worker

ASSUME RunAssumption ==
    /\ Canceller \cap Answerer = {}   \* a request is of one route
    /\ CallbackMode \subseteq BOOLEAN
    /\ MaxSteps \in Nat
    /\ MaxCrashes \in Nat

Request == Canceller \cup Answerer \cup Admin

VARIABLES
    status,      \* session:{id} status
    cancelReq,   \* session:{id} cancel_requested
    resume,      \* the list resume:{id}
    events,      \* types of the events pushed, in order
    result,      \* status in result.json, "none": not written
    callback,    \* the session has a callback_url
    pc, verdict, steps,          \* the worker's thread
    rpc, rmsg,                   \* the requests
    recPc, crashes

hashVars == <<status, cancelReq>>
jobVars  == <<pc, verdict, steps>>
reqVars  == <<rpc, rmsg>>
vars == <<hashVars, resume, events, result, callback, jobVars, reqVars, recPc,
          crashes>>

Terminal == {"done", "failed", "cancelled", "timed_out"}

\* What a user's answer is to the worker: a cancel keyword, "confirm_done" or
\* a text that goes to the agent.
Answer == {"stop", "confirm_done", "text"}

Announced == \E i \in DOMAIN events : events[i] \in Terminal

Init ==
    /\ status = "queued"
    /\ cancelReq = FALSE
    /\ resume = <<>>
    /\ events = <<>>
    /\ result = "none"
    /\ callback \in CallbackMode
    /\ pc = "assign"
    /\ verdict = "none"
    /\ steps = 0
    /\ rpc = [r \in Request |-> "idle"]
    /\ rmsg = [r \in Request |-> "none"]
    /\ recPc = "idle"
    /\ crashes = 0

-----------------------------------------------------------------------------
(* The worker's thread. *)

\* A worker pops the session again that recovery has queued, and has its lock.
\* Nothing says that one does: module JobDispatch has what keeps it from it.
Take ==
    /\ pc = "queued"
    /\ pc' = "assign"
    /\ UNCHANGED <<hashVars, resume, events, result, callback, verdict, steps,
                   reqVars, recPc, crashes>>

Assign ==
    /\ pc = "assign"
    /\ status' = "assigned"
    /\ pc' = "begin"
    /\ UNCHANGED <<cancelReq, resume, events, result, callback, verdict, steps,
                   reqVars, recPc, crashes>>

Begin ==
    /\ pc = "begin"
    /\ status' = "running"
    /\ pc' = "load"
    /\ UNCHANGED <<cancelReq, resume, events, result, callback, verdict, steps,
                   reqVars, recPc, crashes>>

\* The run is to end as v: first its event, then its status, then its result.
Conclude(v) ==
    /\ verdict' = v
    /\ pc' = "announce"

\* The spec snapshot is validated, or the scenario is not there.
Load ==
    /\ pc = "load"
    /\ Conclude("failed") \/ (pc' = "check" /\ UNCHANGED verdict)
    /\ UNCHANGED <<hashVars, resume, events, result, callback, steps, reqVars,
                   recPc, crashes>>

CheckIgnored ==   \* mutant: cancel_requested is not read before a step
    /\ pc = "check"
    /\ pc' = "gen"
    /\ UNCHANGED <<hashVars, resume, events, result, callback, verdict, steps,
                   reqVars, recPc, crashes>>

\* cancel_requested, then the hard cap of ten minutes.
Check ==
    /\ pc = "check"
    /\ IF cancelReq
       THEN Conclude("cancelled")
       ELSE Conclude("failed") \/ (pc' = "gen" /\ UNCHANGED verdict)
    /\ UNCHANGED <<hashVars, resume, events, result, callback, steps, reqVars,
                   recPc, crashes>>

GenYieldsOneMore ==   \* mutant: max_steps is off by one
    /\ pc = "gen"
    /\ steps <= MaxSteps
    /\ steps' = steps + 1
    /\ pc' = "step"
    /\ UNCHANGED <<hashVars, resume, events, result, callback, verdict, reqVars,
                   recPc, crashes>>

\* gen.send yields a record: a step, a question or the end.
GenYields ==
    /\ pc = "gen"
    /\ steps < MaxSteps
    /\ steps' = steps + 1
    /\ \/ pc' \in {"step", "ask"} /\ UNCHANGED verdict
       \/ Conclude("done")
    /\ UNCHANGED <<hashVars, resume, events, result, callback, reqVars, recPc,
                   crashes>>

\* gen.send raises.
GenRaises ==
    /\ pc = "gen"
    /\ Conclude("failed")
    /\ UNCHANGED <<hashVars, resume, events, result, callback, steps, reqVars,
                   recPc, crashes>>

\* StopIteration: the agent has used up max_steps, or a hook ended it.
GenStops ==
    /\ pc = "gen"
    /\ status' = "done"
    /\ pc' = "cleanup"
    /\ UNCHANGED <<cancelReq, resume, events, result, callback, verdict, steps,
                   reqVars, recPc, crashes>>

PushStep ==
    /\ pc = "step"
    /\ events' = Append(events, "step")
    /\ pc' = "check"
    /\ UNCHANGED <<hashVars, resume, result, callback, verdict, steps, reqVars,
                   recPc, crashes>>

\* The question goes out before the status says that it is waiting.
PushAsk ==
    /\ pc = "ask"
    /\ events' = Append(events, "ask")
    /\ pc' = "wait"
    /\ UNCHANGED <<hashVars, resume, result, callback, verdict, steps, reqVars,
                   recPc, crashes>>

Wait ==
    /\ pc = "wait"
    /\ status' = "waiting_for_user"
    /\ pc' = "blocked"
    /\ UNCHANGED <<cancelReq, resume, events, result, callback, verdict, steps,
                   reqVars, recPc, crashes>>

\* BLPOP resume:{id} returns a message.
Resumed ==
    /\ pc = "blocked"
    /\ resume # <<>>
    /\ resume' = Tail(resume)
    /\ CASE Head(resume) \in {"cancel", "stop"} -> Conclude("cancelled")
         [] Head(resume) = "confirm_done"       -> Conclude("done")
         [] Head(resume) = "text"               -> pc' = "resumed" /\ UNCHANGED verdict
    /\ UNCHANGED <<hashVars, events, result, callback, steps, reqVars, recPc,
                   crashes>>

AskTimeoutSilent ==   \* mutant: no event before the status
    /\ pc = "blocked"
    /\ resume = <<>>
    /\ ~callback
    /\ verdict' = "timed_out"
    /\ pc' = "verdict"
    /\ UNCHANGED <<hashVars, resume, events, result, callback, steps, reqVars,
                   recPc, crashes>>

AskTimeoutSwapped ==   \* mutant: the two modes' timeouts are swapped
    /\ pc = "blocked"
    /\ resume = <<>>
    /\ callback
    /\ Conclude("timed_out")
    /\ UNCHANGED <<hashVars, resume, events, result, callback, steps, reqVars,
                   recPc, crashes>>

\* It returns nothing; in callback mode it has no timeout.
AskTimeout ==
    /\ pc = "blocked"
    /\ resume = <<>>
    /\ ~callback
    /\ Conclude("timed_out")
    /\ UNCHANGED <<hashVars, resume, events, result, callback, steps, reqVars,
                   recPc, crashes>>

RunAgain ==
    /\ pc = "resumed"
    /\ status' = "running"
    /\ pc' = "check"
    /\ UNCHANGED <<cancelReq, resume, events, result, callback, verdict, steps,
                   reqVars, recPc, crashes>>

AnnounceNoBreak ==   \* mutant: the loop goes on after the event
    /\ pc = "announce"
    /\ events' = Append(events, verdict)
    /\ pc' = "check"
    /\ UNCHANGED <<hashVars, resume, result, callback, verdict, steps, reqVars,
                   recPc, crashes>>

Announce ==
    /\ pc = "announce"
    /\ events' = Append(events, verdict)
    /\ pc' = "verdict"
    /\ UNCHANGED <<hashVars, resume, result, callback, verdict, steps, reqVars,
                   recPc, crashes>>

WriteVerdict ==
    /\ pc = "verdict"
    /\ status' = verdict
    /\ pc' = "persist"
    /\ UNCHANGED <<cancelReq, resume, events, result, callback, verdict, steps,
                   reqVars, recPc, crashes>>

\* _persist_artifacts writes the result or swallows the error.
Persist ==
    /\ pc = "persist"
    /\ result' \in {verdict, result}
    /\ pc' = "cleanup"
    /\ UNCHANGED <<hashVars, resume, events, callback, verdict, steps, reqVars,
                   recPc, crashes>>

\* finally: DELETE resume:{id}.
Cleanup ==
    /\ pc = "cleanup"
    /\ resume' = <<>>
    /\ pc' = "end"
    /\ UNCHANGED <<hashVars, events, result, callback, verdict, steps, reqVars,
                   recPc, crashes>>

-----------------------------------------------------------------------------
(* The API's requests.  Each reads the hash in one await and writes in the *)
(* next ones, by what it has read. *)

Refuse(r) == rpc' = [rpc EXCEPT ![r] = "refused"] /\ UNCHANGED rmsg

CancelRead(r) ==
    /\ rpc[r] = "idle"
    /\ IF status \in Terminal
       THEN Refuse(r)
       ELSE /\ rpc' = [rpc EXCEPT ![r] = "flag"]
            /\ rmsg' = [rmsg EXCEPT ![r] =
                           IF status = "waiting_for_user" THEN "cancel" ELSE "none"]
    /\ UNCHANGED <<hashVars, resume, events, result, callback, jobVars, recPc,
                   crashes>>

FlaggedOnly(r) ==   \* mutant: the worker that waits gets no message
    rpc' = [rpc EXCEPT ![r] = "ok"]

\* Only a session that was seen waiting gets a message.
Flagged(r) ==
    rpc' = [rpc EXCEPT ![r] = IF rmsg[r] = "none" THEN "ok" ELSE "push"]

CancelForces(r) ==   \* mutant: the handler writes the status itself
    /\ rpc[r] = "flag"
    /\ cancelReq' = TRUE
    /\ status' = "cancelled"
    /\ Flagged(r)
    /\ UNCHANGED <<resume, events, result, callback, jobVars, rmsg, recPc,
                   crashes>>

CancelFlag(r) ==
    /\ rpc[r] = "flag"
    /\ cancelReq' = TRUE
    /\ Flagged(r)
    /\ UNCHANGED <<status, resume, events, result, callback, jobVars, rmsg,
                   recPc, crashes>>

KillWrite(r) ==
    /\ rpc[r] = "flag"
    /\ cancelReq' = TRUE
    /\ status' = "cancelled"
    /\ Flagged(r)
    /\ UNCHANGED <<resume, events, result, callback, jobVars, rmsg, recPc,
                   crashes>>

ResumeRead(r) ==
    /\ rpc[r] = "idle"
    /\ IF status # "waiting_for_user"
       THEN Refuse(r)
       ELSE /\ rpc' = [rpc EXCEPT ![r] = "push"]
            /\ \E a \in Answer : rmsg' = [rmsg EXCEPT ![r] = a]
    /\ UNCHANGED <<hashVars, resume, events, result, callback, jobVars, recPc,
                   crashes>>

PushResume(r) ==
    /\ rpc[r] = "push"
    /\ resume' = Append(resume, rmsg[r])
    /\ rpc' = [rpc EXCEPT ![r] = "ok"]
    /\ UNCHANGED <<hashVars, events, result, callback, jobVars, rmsg, recPc,
                   crashes>>

-----------------------------------------------------------------------------
(* The worker dies (a crash, or the emergency exit of kill-all) and the    *)
(* recovery loop finds its session. *)

Die ==
    /\ pc \notin {"queued", "assign", "end", "dead"}
    /\ crashes < MaxCrashes
    /\ crashes' = crashes + 1
    /\ pc' = "dead"
    /\ UNCHANGED <<hashVars, resume, events, result, callback, verdict, steps,
                   reqVars, recPc>>

RecRead ==
    /\ pc = "dead"
    /\ recPc = "idle"
    /\ \/ status = "assigned" /\ recPc' = "requeue"
       \/ status \in {"running", "waiting_for_user"} /\ recPc' = "fail"
    /\ UNCHANGED <<hashVars, resume, events, result, callback, jobVars, reqVars,
                   crashes>>

RecRequeue ==
    /\ recPc = "requeue"
    /\ status' = "queued"
    /\ recPc' = "idle"
    /\ pc' = "queued"
    /\ UNCHANGED <<cancelReq, resume, events, result, callback, verdict, steps,
                   reqVars, crashes>>

RecFail ==
    /\ recPc = "fail"
    /\ status' = "failed"
    /\ recPc' = "push"
    /\ UNCHANGED <<cancelReq, resume, events, result, callback, jobVars,
                   reqVars, crashes>>

RecPush ==
    /\ recPc = "push"
    /\ events' = Append(events, "failed")
    /\ recPc' = "idle"
    /\ UNCHANGED <<hashVars, resume, result, callback, jobVars, reqVars,
                   crashes>>

-----------------------------------------------------------------------------
JobStep ==
    \/ Assign \/ Begin \/ Load \/ Check \/ GenYields \/ GenRaises \/ GenStops
    \/ PushStep \/ PushAsk \/ Wait \/ Resumed \/ AskTimeout \/ RunAgain
    \/ Announce \/ WriteVerdict \/ Persist \/ Cleanup

CancelStep(r) == CancelRead(r) \/ CancelFlag(r) \/ PushResume(r)
ResumeStep(r) == ResumeRead(r) \/ PushResume(r)
KillStep(r)   == CancelRead(r) \/ KillWrite(r) \/ PushResume(r)

RecoveryStep == RecRead \/ RecRequeue \/ RecFail \/ RecPush

Next ==
    \/ JobStep
    \/ \E r \in Canceller : CancelStep(r)
    \/ \E r \in Answerer : ResumeStep(r)
    \/ \E r \in Admin : KillStep(r)
    \/ Die
    \/ RecoveryStep
    \/ Take

Spec == Init /\ [][Next]_vars

\* The thread runs, the agent's calls and the BLPOP with a timeout return, and
\* a handler that has begun goes on.  Nothing is said of recovery, which may
\* never look, nor of another worker's Take.
Fairness ==
    /\ WF_vars(JobStep)
    /\ \A r \in Canceller : WF_vars(CancelFlag(r) \/ PushResume(r))
    /\ \A r \in Answerer : WF_vars(PushResume(r))
    /\ \A r \in Admin : WF_vars(KillWrite(r) \/ PushResume(r))

FairSpec == Spec /\ Fairness
-----------------------------------------------------------------------------
\* The ranges of the variables.
TypeOK ==
    /\ status \in {"queued", "assigned", "running", "waiting_for_user"} \cup Terminal
    /\ cancelReq \in BOOLEAN
    /\ resume \in Seq({"cancel"} \cup Answer)
    /\ events \in Seq({"step", "ask"} \cup Terminal)
    /\ result \in {"none"} \cup Terminal
    /\ callback \in BOOLEAN
    /\ pc \in {"queued", "assign", "begin", "load", "check", "gen", "step", "ask", "wait",
              "blocked", "resumed", "announce", "verdict", "persist", "cleanup",
              "end", "dead"}
    /\ verdict \in {"none"} \cup Terminal
    /\ steps \in 0..MaxSteps
    /\ rpc \in [Request -> {"idle", "flag", "push", "ok", "refused"}]
    /\ rmsg \in [Request -> {"none", "cancel"} \cup Answer]
    /\ recPc \in {"idle", "requeue", "fail", "push"}
    /\ crashes \in 0..MaxCrashes

\* Nothing follows a run's terminal event, on which clients close the stream,
\* but recovery's "failed" when the worker died between event and status.
OneVerdict ==
    \A i \in DOMAIN events :
        events[i] \in Terminal =>
            \/ i = Len(events)
            \/ i + 1 = Len(events) /\ events[i + 1] = "failed" /\ pc = "dead"

\* A result.json says what the last event said, and the status says so too
\* unless a kill-all has put "cancelled" over it.
ResultIsAnnounced ==
    result # "none" =>
        /\ events # <<>> /\ events[Len(events)] = result
        /\ status = result \/ (status = "cancelled" /\ \E r \in Admin : rpc[r] # "idle")

\* A cancel that found the session waiting, and has been answered 200, never
\* leaves the worker waiting: whichever question it now waits on, an answer
\* that came first included, the message is there to end it.
WaitingCancelArrives ==
    \A r \in Canceller \cup Admin :
        rpc[r] = "ok" /\ rmsg[r] = "cancel" /\ pc = "blocked" =>
            \E i \in DOMAIN resume : resume[i] = "cancel"

\* After a cancel has been answered 200 the agent is given at most the one
\* gen.send that was under way or already decided.
OneStepAfterCancel ==
    \A r \in Canceller : \A n \in 0..MaxSteps :
        [](rpc[r] = "ok" /\ steps = n => [](steps <= n + 1))

\* A run in SSE mode comes to its end with a final status, whoever cancels or
\* answers it, or nobody: no interleaving leaves the thread blocked.  Only the
\* death of its worker ends it earlier; such a session may stay as it is, or
\* be queued and never taken (CrashedRunEnds of MCJobDispatch).
SseRunEnds ==
    ~callback => <>[](\/ status \in Terminal /\ pc = "end"
                      \/ pc \in {"dead", "queued"})

\* The status goes through the states of SessionLifecycle and no others, for
\* all that cancels, answers, timeouts and recovery write to it, until an
\* admin's kill-all reads it.
Lifecycle == INSTANCE SessionLifecycle WITH
    state <- status, killed <- \E r \in Admin : rpc[r] # "idle"
LifecycleHolds == Lifecycle!Spec
=============================================================================
