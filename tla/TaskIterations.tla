--------------------------- MODULE TaskIterations ---------------------------
(***************************************************************************)
(* The iterations of one task: POST /v1/tasks/{id}/run (create_session)    *)
(* numbers an iteration, cancels the earlier ones and queues its own       *)
(* session, while workers run the sessions and a caller of the task's      *)
(* cancel and resume routes acts on "the latest" or "the waiting" one.     *)
(* Every action of a handler is one Redis command; a session is named by   *)
(* the POST that creates it.  Of crashes there is what they do to a        *)
(* session; how recovery finds one is JobDispatch.                         *)
(***************************************************************************)
EXTENDS Integers, Sequences, FiniteSets

CONSTANTS
    Post,       \* the POSTs, and the sessions they create
    Caller,     \* calls of the cancel and resume routes of the task
    HardCap,    \* _HARD_CAP
    Workers,    \* how many sessions run at a time
    MaxSteps,   \* bound on the steps of a session
    Callback,   \* the POSTs with a callback_url
    MaxFaults   \* bound on deaths of workers and expiries of the counter

ASSUME TaskAssumption ==
    /\ IsFiniteSet(Post)
    /\ HardCap \in Nat \ {0} /\ Workers \in Nat \ {0} /\ MaxSteps \in Nat
    /\ Callback \subseteq Post
    /\ MaxFaults \in Nat

Terminal    == {"done", "failed", "cancelled", "timed_out"}
NonTerminal == {"queued", "assigned", "running", "waiting_for_user"}

VARIABLES
    counter, expiries,           \* task:{id}:counter and how often it expired
    queue,                       \* pending_jobs
    status, iter, flag, resume,  \* session hashes and resume:{id}
    stepping, steps,             \* the worker's generator of a session
    crashed, crashes,            \* sessions that a crash took from their worker
    parallel,                    \* POSTs with cancel_prev_iterations=false
    ppc, num, life, todo, cur,   \* a POST: its number and from which of the
                                 \* counter's lives, keys left, key read
    cpc, op, ctodo, seen, targets,  \* a caller
    before, listed               \* history: POSTs over when p began; the
                                 \* sessions a caller's KEYS returned

crashVars   == <<crashed, crashes>>
sessionVars == <<status, iter, flag, resume, stepping, steps, crashVars>>
numberVars  == <<num, life>>
intakeVars  == <<counter, expiries, parallel>>
postVars    == <<intakeVars, ppc, numberVars, todo, cur, before>>
callerVars  == <<cpc, op, ctodo, seen, targets, listed>>
vars == <<queue, sessionVars, postVars, callerVars>>

Exists(s) == status[s] # "none"
NotRead   == "unread"

Init ==
    /\ counter = 0 /\ expiries = 0 /\ queue = <<>>
    /\ status = [s \in Post |-> "none"]
    /\ iter = [s \in Post |-> 0]
    /\ flag = [s \in Post |-> FALSE]
    /\ resume = [s \in Post |-> <<>>]
    /\ stepping = [s \in Post |-> FALSE]
    /\ steps = [s \in Post |-> 0]
    /\ crashed = {} /\ crashes = 0
    /\ parallel = {}
    /\ ppc = [p \in Post |-> "idle"]
    /\ num = [p \in Post |-> 0] /\ life = [p \in Post |-> 0]
    /\ todo = [p \in Post |-> {}]
    /\ cur = [p \in Post |-> {}]
    /\ before = [p \in Post |-> {}]
    /\ cpc = [c \in Caller |-> "idle"]
    /\ op = [c \in Caller |-> "cancel"]
    /\ ctodo = [c \in Caller |-> {}]
    /\ seen = [c \in Caller |-> [s \in Post |-> NotRead]]
    /\ targets = [c \in Caller |-> {}]
    /\ listed = [c \in Caller |-> {}]

-----------------------------------------------------------------------------
(* create_session. *)

\* is_over_capacity.
Arrive(p) ==
    /\ ppc[p] = "idle"
    /\ ppc' = [ppc EXCEPT ![p] = IF Len(queue) >= HardCap THEN "refused"
                                                          ELSE "prepare"]
    /\ before' = [before EXCEPT ![p] = {q \in Post : ppc[q] = "done"}]
    /\ UNCHANGED <<queue, sessionVars, intakeVars, numberVars, todo, cur, callerVars>>

\* The scenario: pasted, generated by the LLM or looked up; its inputs.  What is
\* wrong with them is answered 404, 409, 422 or 502, and leaves nothing behind.
PrepareFails(p) ==
    /\ ppc[p] = "prepare"
    /\ ppc' = [ppc EXCEPT ![p] = "refused"]
    /\ before' = [before EXCEPT ![p] = {}]
    /\ UNCHANGED <<queue, sessionVars, intakeVars, numberVars, todo, cur, callerVars>>

NumberByCount(p) ==   \* mutant: counts the sessions, with no counter
    /\ ppc[p] = "prepare"
    /\ counter' = counter
    /\ num' = [num EXCEPT ![p] = Cardinality({s \in Post : Exists(s)}) + 1]
    /\ life' = [life EXCEPT ![p] = expiries]
    /\ \/ ppc' = [ppc EXCEPT ![p] = "keys"] /\ UNCHANGED parallel
       \/ ppc' = [ppc EXCEPT ![p] = "create"] /\ parallel' = parallel \cup {p}
    /\ UNCHANGED <<queue, sessionVars, expiries, todo, cur, before, callerVars>>

\* _next_iteration: INCR, then EXPIRE.  Whether it cancels the earlier iterations
\* is in the request.
Number(p) ==
    /\ ppc[p] = "prepare"
    /\ counter' = counter + 1
    /\ num' = [num EXCEPT ![p] = counter']
    /\ life' = [life EXCEPT ![p] = expiries]
    /\ \/ ppc' = [ppc EXCEPT ![p] = "keys"] /\ UNCHANGED parallel
       \/ ppc' = [ppc EXCEPT ![p] = "create"] /\ parallel' = parallel \cup {p}
    /\ UNCHANGED <<queue, sessionVars, expiries, todo, cur, before, callerVars>>

\* The counter lives for 24 h after the last POST, and a session's hash for 24 h
\* after its last write; no POST takes that long from its number to its end.
CounterExpires ==
    /\ counter > 0 /\ crashes + expiries < MaxFaults
    /\ \A p \in Post : ppc[p] \in {"idle", "prepare", "refused", "done"}
    /\ counter' = 0
    /\ expiries' = expiries + 1
    /\ UNCHANGED <<queue, sessionVars, parallel, ppc, numberVars, todo, cur, before,
                   callerVars>>

\* _cancel_prev_iterations: KEYS, then one session after the other.
Keys(p) ==
    /\ ppc[p] = "keys"
    /\ todo' = [todo EXCEPT ![p] = {s \in Post : Exists(s)}]
    /\ ppc' = [ppc EXCEPT ![p] = "sweep"]
    /\ UNCHANGED <<queue, sessionVars, intakeVars, numberVars, cur, before, callerVars>>

SweepReadRunning(p, s) ==   \* mutant: an iteration not yet running is let alone
    /\ ppc[p] = "sweep"
    /\ s \in todo[p]
    /\ IF status[s] \in {"running", "waiting_for_user"}
       THEN /\ cur' = [cur EXCEPT ![p] = {s}]
            /\ ppc' = [ppc EXCEPT ![p] = IF status[s] = "waiting_for_user"
                                         THEN "flagWaiting" ELSE "flag"]
       ELSE UNCHANGED <<cur, ppc>>
    /\ todo' = [todo EXCEPT ![p] = @ \ {s}]
    /\ UNCHANGED <<queue, sessionVars, intakeVars, numberVars, before, callerVars>>

SweepRead(p, s) ==
    /\ ppc[p] = "sweep"
    /\ s \in todo[p]
    /\ IF status[s] \in NonTerminal
       THEN /\ cur' = [cur EXCEPT ![p] = {s}]
            /\ ppc' = [ppc EXCEPT ![p] = IF status[s] = "waiting_for_user"
                                         THEN "flagWaiting" ELSE "flag"]
       ELSE UNCHANGED <<cur, ppc>>
    /\ todo' = [todo EXCEPT ![p] = @ \ {s}]
    /\ UNCHANGED <<queue, sessionVars, intakeVars, numberVars, before, callerVars>>

SweepFlag(p) ==
    /\ ppc[p] \in {"flag", "flagWaiting"}
    /\ flag' = [s \in Post |-> flag[s] \/ s \in cur[p]]
    /\ ppc' = [ppc EXCEPT ![p] = IF @ = "flag" THEN "sweep" ELSE "unblock"]
    /\ UNCHANGED <<queue, status, iter, resume, stepping, steps, crashVars, intakeVars, numberVars,
                   todo, cur, before, callerVars>>

SweepUnblock(p) ==
    /\ ppc[p] = "unblock"
    /\ resume' = [s \in Post |-> IF s \in cur[p]
                                 THEN Append(resume[s], "cancel") ELSE resume[s]]
    /\ ppc' = [ppc EXCEPT ![p] = "sweep"]
    /\ UNCHANGED <<queue, status, iter, flag, stepping, steps, crashVars, intakeVars, numberVars,
                   todo, cur, before, callerVars>>

Create(p) ==
    /\ \/ ppc[p] = "create"
       \/ ppc[p] = "sweep" /\ todo[p] = {}
    /\ status' = [status EXCEPT ![p] = "queued"]
    /\ iter' = [iter EXCEPT ![p] = num[p]]
    /\ ppc' = [ppc EXCEPT ![p] = "push"]
    /\ cur' = [cur EXCEPT ![p] = {}]
    /\ UNCHANGED <<queue, flag, resume, stepping, steps, crashVars, intakeVars, numberVars, todo,
                   before, callerVars>>

Push(p) ==
    /\ ppc[p] = "push"
    /\ queue' = Append(queue, p)
    /\ ppc' = [ppc EXCEPT ![p] = "done"]
    /\ UNCHANGED <<sessionVars, intakeVars, numberVars, todo, cur, before, callerVars>>

-----------------------------------------------------------------------------
(* A worker on session s: what JobRun has of one run, without its events. *)

SetStatus(s, v) == status' = [status EXCEPT ![s] = v]

\* The sessions in the workers' hands.
Running == {s \in Post : status[s] \in NonTerminal \ {"queued"}} \ crashed

PopUnlessFlagged ==   \* mutant: the job of a cancelled session is thrown away
    /\ queue # <<>>
    /\ Cardinality(Running) < Workers
    /\ queue' = Tail(queue)
    /\ IF flag[Head(queue)] THEN UNCHANGED status
                            ELSE SetStatus(Head(queue), "assigned")
    /\ crashed' = crashed \ {Head(queue)}
    /\ UNCHANGED <<iter, flag, resume, stepping, steps, crashes, postVars, callerVars>>

Pop ==
    /\ queue # <<>>
    /\ Cardinality(Running) < Workers
    /\ queue' = Tail(queue)
    /\ SetStatus(Head(queue), "assigned")
    /\ crashed' = crashed \ {Head(queue)}
    /\ UNCHANGED <<iter, flag, resume, stepping, steps, crashes, postVars, callerVars>>

\* The dead worker's lock still stands: the job is dropped, the session stays
\* queued in no queue.
SkipLocked ==
    /\ queue # <<>>
    /\ Cardinality(Running) < Workers
    /\ Head(queue) \in crashed
    /\ queue' = Tail(queue)
    /\ UNCHANGED <<sessionVars, postVars, callerVars>>

WorkerDies(s) ==
    /\ s \in Running
    /\ crashes + expiries < MaxFaults
    /\ crashes' = crashes + 1
    /\ crashed' = crashed \cup {s}
    /\ stepping' = [stepping EXCEPT ![s] = FALSE]
    /\ UNCHANGED <<queue, status, iter, flag, resume, steps, postVars, callerVars>>

\* _handle_recoverable_session
Requeue(s) ==
    /\ s \in crashed
    /\ status[s] = "assigned"
    /\ SetStatus(s, "queued")
    /\ queue' = Append(queue, s)
    /\ UNCHANGED <<iter, flag, resume, stepping, steps, crashVars, postVars, callerVars>>

\* _handle_lost_session
Lost(s) ==
    /\ s \in crashed
    /\ status[s] \in {"running", "waiting_for_user"}
    /\ SetStatus(s, "failed")
    /\ crashed' = crashed \ {s}
    /\ UNCHANGED <<queue, iter, flag, resume, stepping, steps, crashes, postVars,
                   callerVars>>

Start(s) ==
    /\ status[s] = "assigned"
    /\ SetStatus(s, "running")
    /\ UNCHANGED <<queue, iter, flag, resume, stepping, steps, crashVars, postVars,
                   callerVars>>

\* The end of a run deletes resume:{id}.
End(s, v) ==
    /\ SetStatus(s, v)
    /\ resume' = [resume EXCEPT ![s] = <<>>]

\* cancel_requested is read before each step of the generator.
Check(s) ==
    /\ status[s] = "running" /\ ~stepping[s]
    /\ IF flag[s]
       THEN End(s, "cancelled") /\ UNCHANGED stepping
       ELSE /\ stepping' = [stepping EXCEPT ![s] = TRUE]
            /\ UNCHANGED <<status, resume>>
    /\ UNCHANGED <<queue, iter, flag, steps, crashVars, postVars, callerVars>>

StepOneMore(s) ==   \* mutant: the step limit is off by one
    /\ status[s] = "running" /\ stepping[s]
    /\ stepping' = [stepping EXCEPT ![s] = FALSE]
    /\ \/ steps[s] <= MaxSteps
          /\ steps' = [steps EXCEPT ![s] = @ + 1]
          /\ \/ UNCHANGED status
             \/ SetStatus(s, "waiting_for_user")
          /\ UNCHANGED resume
       \/ End(s, "done") /\ UNCHANGED steps
    /\ UNCHANGED <<queue, iter, flag, crashVars, postVars, callerVars>>

\* The generator yields a step, asks the user, or ends, which is "done" here
\* also when it raised.
Step(s) ==
    /\ status[s] = "running" /\ stepping[s]
    /\ stepping' = [stepping EXCEPT ![s] = FALSE]
    /\ \/ steps[s] < MaxSteps
          /\ steps' = [steps EXCEPT ![s] = @ + 1]
          /\ \/ UNCHANGED status
             \/ SetStatus(s, "waiting_for_user")
          /\ UNCHANGED resume
       \/ End(s, "done") /\ UNCHANGED steps
    /\ UNCHANGED <<queue, iter, flag, crashVars, postVars, callerVars>>

\* BLPOP of resume:{id}.  An answer goes to the agent, or it is a cancel keyword
\* or confirm_done.
Resumed(s) ==
    /\ status[s] = "waiting_for_user"
    /\ resume[s] # <<>>
    /\ \/ End(s, "cancelled")
       \/ /\ Head(resume[s]) = "answer"
          /\ \/ End(s, "done")
             \/ SetStatus(s, "running") /\ resume' = [resume EXCEPT ![s] = Tail(@)]
    /\ UNCHANGED <<queue, iter, flag, stepping, steps, crashVars, postVars, callerVars>>

\* Waiting with no message; with a callback_url BLPOP has no timeout.
Waits(s) == status[s] = "waiting_for_user" /\ resume[s] = <<>>

AskTimeout(s) ==
    /\ Waits(s)
    /\ s \notin Callback
    /\ End(s, "timed_out")
    /\ UNCHANGED <<queue, iter, flag, stepping, steps, crashVars, postVars,
                   callerVars>>

-----------------------------------------------------------------------------
(* cancel_task and resume_task: list_async reads KEYS and then each hash. *)

Call(c) ==
    /\ cpc[c] = "idle"
    /\ listed' = [listed EXCEPT ![c] = {s \in Post : Exists(s)}]
    /\ ctodo' = [ctodo EXCEPT ![c] = listed'[c]]
    /\ cpc' = [cpc EXCEPT ![c] = "read"]
    /\ UNCHANGED <<queue, sessionVars, postVars, op, seen, targets>>

CallRead(c, s) ==
    /\ cpc[c] = "read"
    /\ s \in ctodo[c]
    /\ ctodo' = [ctodo EXCEPT ![c] = @ \ {s}]
    /\ seen' = [seen EXCEPT ![c][s] = status[s]]
    /\ UNCHANGED <<queue, sessionVars, postVars, cpc, op, targets, listed>>

SeenIn(c, S) == {s \in Post : seen[c][s] \in S}

LatestByCreation(S) == S   \* mutant: KEYS order, for want of the sort

\* The last one by iteration, which need not be one only (UniqueIteration).
Latest(S) == {s \in S : \A t \in S : iter[t] <= iter[s]}

\* A handler's locals end with it.
Forget(c) == seen' = [seen EXCEPT ![c] = [s \in Post |-> NotRead]]

OneOf(S, T) == IF S = {} THEN T = {} ELSE \E s \in S : T = {s}

\* Which of the three requests it is shows only now.  Nothing to act on: the
\* answer is 404 or 409 and nothing changes.
CallDecide(c) ==
    /\ cpc[c] = "read"
    /\ ctodo[c] = {}
    /\ \E o \in {"cancel", "cancelAll", "resume"}, T \in SUBSET Post :
          /\ CASE o = "cancelAll" -> T = SeenIn(c, NonTerminal)
               [] o = "cancel"    -> OneOf(Latest(SeenIn(c, NonTerminal)), T)
               [] o = "resume"    -> LET W == SeenIn(c, {"waiting_for_user"})
                                     IN  T = IF Cardinality(W) = 1 THEN W ELSE {}
          /\ IF T = {}
             THEN /\ cpc' = [cpc EXCEPT ![c] = "refused"]
                  /\ listed' = [listed EXCEPT ![c] = {}]
                  /\ Forget(c)
                  /\ UNCHANGED op
             ELSE /\ cpc' = [cpc EXCEPT ![c] = "act"]
                  /\ op' = [op EXCEPT ![c] = o]
                  /\ UNCHANGED <<seen, listed>>
          /\ targets' = [targets EXCEPT ![c] = T]
    /\ UNCHANGED <<queue, sessionVars, postVars, ctodo>>

\* The next target; "unblock" when it was seen waiting.
CallFlag(c, s) ==
    /\ cpc[c] = "act" /\ op[c] # "resume"
    /\ s \in targets[c]
    /\ flag' = [flag EXCEPT ![s] = TRUE]
    /\ IF seen[c][s] = "waiting_for_user"
       THEN /\ cpc' = [cpc EXCEPT ![c] = "unblock"]
            /\ ctodo' = [ctodo EXCEPT ![c] = {s}]
       ELSE UNCHANGED <<cpc, ctodo>>
    /\ targets' = [targets EXCEPT ![c] = @ \ {s}]
    /\ UNCHANGED <<queue, status, iter, resume, stepping, steps, crashVars, postVars, op,
                   seen, listed>>

CallUnblock(c, s) ==
    /\ cpc[c] = "unblock"
    /\ s \in ctodo[c]
    /\ resume' = [resume EXCEPT ![s] = Append(@, "cancel")]
    /\ ctodo' = [ctodo EXCEPT ![c] = {}]
    /\ cpc' = [cpc EXCEPT ![c] = "act"]
    /\ UNCHANGED <<queue, status, iter, flag, stepping, steps, crashVars, postVars, op,
                   seen, targets, listed>>

CallAnswer(c, s) ==
    /\ cpc[c] = "act" /\ op[c] = "resume"
    /\ s \in targets[c]
    /\ resume' = [resume EXCEPT ![s] = Append(@, "answer")]
    /\ targets' = [targets EXCEPT ![c] = {}]
    /\ UNCHANGED <<queue, status, iter, flag, stepping, steps, crashVars, postVars, cpc, op,
                   ctodo, seen, listed>>

CallReturn(c) ==
    /\ cpc[c] = "act"
    /\ targets[c] = {}
    /\ cpc' = [cpc EXCEPT ![c] = "returned"]
    /\ Forget(c)
    /\ UNCHANGED <<queue, sessionVars, postVars, op, ctodo, targets, listed>>

-----------------------------------------------------------------------------
PostStep(p) ==
    \/ PrepareFails(p) \/ Number(p) \/ Keys(p) \/ SweepFlag(p) \/ SweepUnblock(p)
    \/ Create(p) \/ Push(p) \/ \E s \in Post : SweepRead(p, s)

WorkerStep(s) ==
    /\ s \notin crashed
    /\ Start(s) \/ Check(s) \/ Step(s) \/ Resumed(s) \/ AskTimeout(s)

CrashStep(s) == WorkerDies(s) \/ Requeue(s) \/ Lost(s)

CallerStep(c) ==
    \/ Call(c) \/ CallDecide(c) \/ CallReturn(c)
    \/ \E s \in Post : CallRead(c, s) \/ CallFlag(c, s) \/ CallUnblock(c, s)
                       \/ CallAnswer(c, s)

Next ==
    \/ \E p \in Post : Arrive(p) \/ PostStep(p)
    \/ CounterExpires
    \/ Pop \/ SkipLocked
    \/ \E s \in Post : WorkerStep(s) \/ CrashStep(s)
    \/ \E c \in Caller : CallerStep(c)

Spec == Init /\ [][Next]_vars

\* A request that was accepted is served; the workers go on stepping, and on
\* popping as long as none has died, which nothing starts again; an ask that
\* nobody answers times out where it can.  Nothing is said of recovery.
FairSpec ==
    /\ Spec
    /\ WF_vars(crashes = 0 /\ Pop)
    /\ \A p \in Post : WF_vars(PostStep(p)) /\ WF_vars(WorkerStep(p))

-----------------------------------------------------------------------------
Status == Terminal \cup NonTerminal \cup {"none"}

\* The ranges of the variables.
TypeOK ==
    /\ counter \in 0..Cardinality(Post) /\ expiries \in 0..MaxFaults
    /\ queue \in Seq(Post)
    /\ status \in [Post -> Status]
    /\ iter \in [Post -> 0..Cardinality(Post)]
    /\ flag \in [Post -> BOOLEAN]
    /\ resume \in [Post -> Seq({"cancel", "answer"})]
    /\ stepping \in [Post -> BOOLEAN] /\ steps \in [Post -> 0..MaxSteps]
    /\ crashed \subseteq Post /\ crashes \in 0..MaxFaults
    /\ parallel \subseteq Post
    /\ ppc \in [Post -> {"idle", "prepare", "refused", "keys", "sweep",
                         "flag", "flagWaiting", "unblock", "create", "push", "done"}]
    /\ num \in [Post -> 0..Cardinality(Post)] /\ life \in [Post -> 0..expiries]
    /\ todo \in [Post -> SUBSET Post] /\ cur \in [Post -> SUBSET Post]
    /\ before \in [Post -> SUBSET Post]
    /\ cpc \in [Caller -> {"idle", "read", "act", "unblock", "refused",
                           "returned"}]
    /\ op \in [Caller -> {"cancel", "cancelAll", "resume"}]
    /\ ctodo \in [Caller -> SUBSET Post]
    /\ targets \in [Caller -> SUBSET Post] /\ listed \in [Caller -> SUBSET Post]
    /\ seen \in [Caller -> [Post -> Status \cup {NotRead}]]

\* However the POSTs overlap, two iterations of a task share a number only when
\* the counter expired between them; "latest" is the later one otherwise.
UniqueIteration ==
    \A p, q \in Post : p # q /\ Exists(p) /\ Exists(q) =>
        iter[p] # iter[q] \/ life[p] # life[q]

Over(s) == status[s] \in Terminal

\* When a POST with cancel_prev_iterations has returned, each iteration whose
\* POST had returned before it began is over or will be told to stop.
EarlierIsCancelled ==
    \A q \in Post \ parallel : ppc[q] \in {"push", "done"} =>
        \A p \in before[q] : flag[p] \/ Over(p)

\* A session waits in each worker's hands for a callback user who may not come.
AllHeld == Cardinality({s \in Running \cap Callback : Waits(s)}) = Workers

\* ... and it does stop: again and again there comes a moment when each of them
\* is over, but for one whose worker died, one with a callback_url that asks a
\* question after it was read as running, and one that is not popped for such
\* sessions or for want of the worker that died.
EarlierEnds ==
    []<>(\A p \in Post :
            (\E q \in Post \ parallel : ppc[q] = "done" /\ p \in before[q]) =>
                \/ Over(p) \/ p \in crashed
                \/ p \in Callback /\ Waits(p)
                \/ status[p] = "queued" /\ (AllHeld \/ crashes > 0))

\* When the cancel route has answered 200, no iteration it listed is live and
\* unflagged, unless (without all=true) another one, with no lower a number,
\* was live and is flagged.
CancelHitsLatest ==
    \A c \in Caller : cpc[c] = "returned" /\ op[c] # "resume" =>
        \A s \in listed[c] :
            \/ Over(s) \/ flag[s]
            \/ op[c] = "cancel" /\ \E t \in listed[c] : flag[t] /\ iter[t] >= iter[s]

=============================================================================
