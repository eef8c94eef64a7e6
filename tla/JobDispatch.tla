---------------------------- MODULE JobDispatch ----------------------------
(***************************************************************************)
(* How a session gets from POST /v1/sessions to exactly one browser worker *)
(* and what happens when a process dies on the way: the Redis list         *)
(* pending_jobs, the session hash's status and assigned_worker, the key    *)
(* lock:session:{id}, the worker registry keys, the worker's main loop and *)
(* heartbeat task, the API's recovery loop and the kill-all endpoint.      *)
(*                                                                         *)
(* Each action is one Redis command of one process, so every interleaving  *)
(* of awaits is a behaviour.  Redis TTLs and sleeps are counted in ticks   *)
(* of LOCK_RENEW_S (15 s).  What the job does between Begin and Finish is  *)
(* module JobRun's subject; here it is one step, and the worker's own      *)
(* verdict (done, failed, timed_out or cancelled) is written "done".       *)
(***************************************************************************)
EXTENDS Integers, Sequences

CONSTANTS
    Worker,       \* worker ids, the {id} of worker:{id}
    Session,      \* session ids that clients may create
    NoWorker,     \* the empty assigned_worker / lock owner
    NoSession,    \* the empty current_session
    HbPeriod,     \* LOCK_RENEW_S, the heartbeat's sleep, in ticks
    WorkerTTL,    \* _WORKER_TTL_S, in ticks
    DeadAge,      \* _DEAD_THRESHOLD_S, in ticks
    LockTTL,      \* LOCK_TTL_S, in ticks
    RecPeriod,    \* the recovery loop's sleep, in ticks
    FlagTTL,      \* _EMERGENCY_EXIT_TTL_S, in ticks
    MaxFaults,    \* bound on crashes of a worker or the API, and on ticks with
                  \* a blocked event loop, in a behaviour
    MaxKills      \* bound on kill-all requests in a behaviour

ASSUME DispatchAssumption ==
    /\ NoWorker \notin Worker
    /\ NoSession \notin Session
    /\ HbPeriod \in Nat \ {0}
    /\ WorkerTTL \in Nat
    /\ HbPeriod < WorkerTTL   \* "key TTL=30s and we refresh every 15s"
    /\ LockTTL \in Nat \ {0}
    /\ RecPeriod \in Nat \ {0}
    /\ FlagTTL \in Nat
    /\ MaxFaults \in Nat
    /\ MaxKills \in Nat

\* A registry record is gone before find_dead could call it stale, so the
\* recovery loop's first strategy never has a worker to handle.
ASSUME StaleScanIsIdle == DeadAge \in Nat /\ WorkerTTL <= DeadAge

VARIABLES
    \* Redis
    queue,        \* pending_jobs
    status,       \* [Session -> Status]; "absent": no such hash yet
    assignee,     \* [Session -> Worker or NoWorker]: assigned_worker
    lockTtl,      \* [Session -> ticks left of lock:session:{id}; 0: no key]
    lockOwner,    \* [Session -> Worker or NoWorker]
    regTtl,       \* [Worker -> ticks left of worker:{id}; 0: no key]
    regCur,       \* [Worker -> current_session in worker:{id}]
    flag,         \* ticks left of control:worker_emergency_exit
    \* worker processes: main loop and heartbeat task
    pc, job, hbPc, hbCur, hbTimer,
    \* API process: create_session handlers, recovery loop, kill-all handler
    creating,
    recPc, recTodo, recSession, recOwner, recTimer,
    killPc, killTodo, killSession,
    \* bounds
    faults, kills,
    \* history: the sessions that a worker had, or was the assigned_worker of,
    \* while its event loop stood still for a tick
    hung

redisVars  == <<queue, status, assignee, lockTtl, lockOwner, regTtl, regCur,
                flag>>
mainVars   == <<pc, job>>
hbVars     == <<hbPc, hbCur, hbTimer>>
workerVars == <<pc, job, hbPc, hbCur, hbTimer>>
recVars    == <<recPc, recTodo, recSession, recOwner, recTimer>>
killVars   == <<killPc, killTodo, killSession>>
apiVars    == <<creating, recVars, killVars>>
boundVars  == <<faults, kills, hung>>
vars       == <<redisVars, workerVars, apiVars, boundVars>>

-----------------------------------------------------------------------------
Recoverable == {"queued", "assigned"}
Lost        == {"running"}     \* running | waiting_for_user
Active      == Recoverable \cup Lost
Terminal    == {"done", "failed", "cancelled"}
Status      == {"absent"} \cup Active \cup Terminal

Live(w) == pc[w] \notin {"new", "down"}

\* Worker w has popped s and not finished with it.
Holds(w, s) ==
    /\ pc[w] \in {"lock", "busy", "assign", "begin", "work", "unlock", "idle"}
    /\ job[w] = s

Dec(n) == IF n = 0 THEN 0 ELSE n - 1

Init ==
    /\ queue = <<>>
    /\ status = [s \in Session |-> "absent"]
    /\ assignee = [s \in Session |-> NoWorker]
    /\ lockTtl = [s \in Session |-> 0]
    /\ lockOwner = [s \in Session |-> NoWorker]
    /\ regTtl = [w \in Worker |-> 0]
    /\ regCur = [w \in Worker |-> NoSession]
    /\ flag = 0
    /\ pc = [w \in Worker |-> "new"]
    /\ job = [w \in Worker |-> NoSession]
    /\ hbPc = [w \in Worker |-> "off"]
    /\ hbCur = [w \in Worker |-> NoSession]
    /\ hbTimer = [w \in Worker |-> 0]
    /\ creating = {}
    /\ recPc = "sleep"
    /\ recTodo = {}
    /\ recSession = NoSession
    /\ recOwner = NoWorker
    /\ recTimer = 0
    /\ killPc = "off"
    /\ killTodo = {}
    /\ killSession = NoSession
    /\ faults = 0
    /\ kills = 0
    /\ hung = {}

-----------------------------------------------------------------------------
(* create_session: create_async, then push_job. *)

Create(s) ==
    /\ status[s] = "absent"
    /\ status' = [status EXCEPT ![s] = "queued"]
    /\ creating' = creating \cup {s}
    /\ UNCHANGED <<queue, assignee, lockTtl, lockOwner, regTtl, regCur, flag,
                   workerVars, recVars, killVars, boundVars>>

Enqueue(s) ==
    /\ s \in creating
    /\ queue' = Append(queue, s)
    /\ creating' = creating \ {s}
    /\ UNCHANGED <<status, assignee, lockTtl, lockOwner, regTtl, regCur, flag,
                   workerVars, recVars, killVars, boundVars>>

-----------------------------------------------------------------------------
(* The worker's main loop. *)

SetReg(w, s) ==
    /\ regTtl' = [regTtl EXCEPT ![w] = WorkerTTL]
    /\ regCur' = [regCur EXCEPT ![w] = s]

Goto(w, label) == pc' = [pc EXCEPT ![w] = label]

\* register(idle, "") and the start of the heartbeat task.  The manager starts a
\* dead worker again under its old id; a new pod is an id not used before.
Start(w) ==
    /\ pc[w] \in {"new", "down"}
    /\ Goto(w, "poll")
    /\ SetReg(w, NoSession)
    /\ hbPc' = [hbPc EXCEPT ![w] = "sleep"]
    /\ hbTimer' = [hbTimer EXCEPT ![w] = 0]
    /\ UNCHANGED <<queue, status, assignee, lockTtl, lockOwner, flag, job,
                   hbCur, apiVars, boundVars>>

Pop(w) ==
    /\ pc[w] = "poll"
    /\ queue # <<>>
    /\ job' = [job EXCEPT ![w] = Head(queue)]
    /\ queue' = Tail(queue)
    /\ Goto(w, "lock")
    /\ UNCHANGED <<status, assignee, lockTtl, lockOwner, regTtl, regCur, flag,
                   hbVars, apiVars, boundVars>>

\* SET lock:session:{id} NX EX succeeds.
TakeLock(w) ==
    /\ pc[w] = "lock"
    /\ lockTtl[job[w]] = 0
    /\ lockTtl' = [lockTtl EXCEPT ![job[w]] = LockTTL]
    /\ lockOwner' = [lockOwner EXCEPT ![job[w]] = w]
    /\ Goto(w, "busy")
    /\ UNCHANGED <<queue, status, assignee, regTtl, regCur, flag, job, hbVars,
                   apiVars, boundVars>>

\* It fails: the popped job is dropped and the loop continues.
SkipLocked(w) ==
    /\ pc[w] = "lock"
    /\ lockTtl[job[w]] > 0
    /\ job' = [job EXCEPT ![w] = NoSession]
    /\ Goto(w, "poll")
    /\ UNCHANGED <<redisVars, hbVars, apiVars, boundVars>>

MarkBusy(w) ==
    /\ pc[w] = "busy"
    /\ SetReg(w, job[w])
    /\ Goto(w, "assign")
    /\ UNCHANGED <<queue, status, assignee, lockTtl, lockOwner, flag, job,
                   hbVars, apiVars, boundVars>>

Assign(w) ==
    /\ pc[w] = "assign"
    /\ status' = [status EXCEPT ![job[w]] = "assigned"]
    /\ assignee' = [assignee EXCEPT ![job[w]] = w]
    /\ Goto(w, "begin")
    /\ UNCHANGED <<queue, lockTtl, lockOwner, regTtl, regCur, flag, job,
                   hbVars, apiVars, boundVars>>

\* run_job_sync's first write, in its thread.
Begin(w) ==
    /\ pc[w] = "begin"
    /\ status' = [status EXCEPT ![job[w]] = "running"]
    /\ Goto(w, "work")
    /\ UNCHANGED <<queue, assignee, lockTtl, lockOwner, regTtl, regCur, flag,
                   job, hbVars, apiVars, boundVars>>

\* run_job_sync returns after writing its verdict over whatever is there.
Finish(w) ==
    /\ pc[w] = "work"
    /\ status' = [status EXCEPT ![job[w]] = "done"]
    /\ Goto(w, "unlock")
    /\ UNCHANGED <<queue, assignee, lockTtl, lockOwner, regTtl, regCur, flag,
                   job, hbVars, apiVars, boundVars>>

\* run_job_sync raises: main catches, logs and releases without a verdict.
JobRaises(w) ==
    /\ pc[w] \in {"begin", "work"}
    /\ Goto(w, "unlock")
    /\ UNCHANGED <<redisVars, job, hbVars, apiVars, boundVars>>

\* DELETE lock:session:{id}, whoever owns it.
Unlock(w) ==
    /\ pc[w] = "unlock"
    /\ lockTtl' = [lockTtl EXCEPT ![job[w]] = 0]
    /\ lockOwner' = [lockOwner EXCEPT ![job[w]] = NoWorker]
    /\ Goto(w, "idle")
    /\ UNCHANGED <<queue, status, assignee, regTtl, regCur, flag, job, hbVars,
                   apiVars, boundVars>>

MarkIdle(w) ==
    /\ pc[w] = "idle"
    /\ SetReg(w, NoSession)
    /\ job' = [job EXCEPT ![w] = NoSession]
    /\ Goto(w, "poll")
    /\ UNCHANGED <<queue, status, assignee, lockTtl, lockOwner, flag, hbVars,
                   apiVars, boundVars>>

-----------------------------------------------------------------------------
(* The heartbeat task of the same process.  registry.update keeps nothing  *)
(* of the record it GETs but started_at, so its SETEX is the whole effect. *)

HbRead(w) ==
    /\ hbPc[w] = "sleep"
    /\ hbTimer[w] = 0
    /\ hbCur' = [hbCur EXCEPT ![w] = regCur[w]]
    /\ hbPc' = [hbPc EXCEPT ![w] = "write"]
    /\ UNCHANGED <<redisVars, mainVars, hbTimer, apiVars, boundVars>>

HbSleepLong(w) ==   \* mutant: the beat comes one tick late
    /\ hbPc' = [hbPc EXCEPT ![w] = "sleep"]
    /\ hbTimer' = [hbTimer EXCEPT ![w] = HbPeriod + 1]
    /\ hbCur' = [hbCur EXCEPT ![w] = NoSession]

HbSleep(w) ==
    /\ hbPc' = [hbPc EXCEPT ![w] = "sleep"]
    /\ hbTimer' = [hbTimer EXCEPT ![w] = HbPeriod]
    /\ hbCur' = [hbCur EXCEPT ![w] = NoSession]

\* Nothing to renew: the beat ends with the registry write.
HbWriteIdle(w) ==
    /\ hbPc[w] = "write"
    /\ hbCur[w] = NoSession
    /\ SetReg(w, NoSession)
    /\ HbSleep(w)
    /\ UNCHANGED <<queue, status, assignee, lockTtl, lockOwner, flag, mainVars,
                   apiVars, boundVars>>

HbWriteNoExpiry(w) ==   \* mutant: HSET of the record instead of SETEX
    /\ hbPc[w] = "write"
    /\ hbCur[w] # NoSession
    /\ hbPc' = [hbPc EXCEPT ![w] = "renew"]
    /\ UNCHANGED <<redisVars, mainVars, hbCur, hbTimer, apiVars, boundVars>>

HbWriteBusy(w) ==
    /\ hbPc[w] = "write"
    /\ hbCur[w] # NoSession
    /\ SetReg(w, hbCur[w])
    /\ hbPc' = [hbPc EXCEPT ![w] = "renew"]
    /\ UNCHANGED <<queue, status, assignee, lockTtl, lockOwner, flag, mainVars,
                   hbCur, hbTimer, apiVars, boundVars>>

\* SET lock:session:{current} XX EX: renews whatever lock there is.
HbRenew(w) ==
    /\ hbPc[w] = "renew"
    /\ IF lockTtl[hbCur[w]] > 0
       THEN /\ lockTtl' = [lockTtl EXCEPT ![hbCur[w]] = LockTTL]
            /\ lockOwner' = [lockOwner EXCEPT ![hbCur[w]] = w]
       ELSE UNCHANGED <<lockTtl, lockOwner>>
    /\ HbSleep(w)
    /\ UNCHANGED <<queue, status, assignee, regTtl, regCur, flag, mainVars,
                   apiVars, boundVars>>

-----------------------------------------------------------------------------
(* The recovery loop, _recover_orphaned_sessions. *)

RecWake ==
    /\ recPc = "sleep"
    /\ recTimer = 0
    /\ recPc' = "scan"
    /\ recTodo' = {s \in Session : status[s] # "absent"}
    /\ UNCHANGED <<redisVars, workerVars, creating, recSession, recOwner,
                   recTimer, killVars, boundVars>>

RecReadRecoverable(s) ==   \* mutant: the lost branch is missing
    /\ recPc = "scan"
    /\ s \in recTodo
    /\ recTodo' = recTodo \ {s}
    /\ IF status[s] \in Recoverable /\ assignee[s] # NoWorker
       THEN /\ recPc' = "requeue?"
            /\ recSession' = s
            /\ recOwner' = assignee[s]
       ELSE UNCHANGED <<recPc, recSession, recOwner>>
    /\ UNCHANGED <<redisVars, workerVars, creating, recTimer, killVars,
                   boundVars>>

\* The hgetall of one session; KEYS returns them in no particular order.
RecRead(s) ==
    /\ recPc = "scan"
    /\ s \in recTodo
    /\ recTodo' = recTodo \ {s}
    /\ IF status[s] \in Active /\ assignee[s] # NoWorker
       THEN /\ recPc' = IF status[s] \in Recoverable THEN "requeue?" ELSE "fail?"
            /\ recSession' = s
            /\ recOwner' = assignee[s]
       ELSE UNCHANGED <<recPc, recSession, recOwner>>
    /\ UNCHANGED <<redisVars, workerVars, creating, recTimer, killVars,
                   boundVars>>

RecNext ==
    /\ recPc' = "scan"
    /\ recSession' = NoSession
    /\ recOwner' = NoWorker

\* EXISTS worker:{assigned_worker}: a live worker's session is left alone.
RecAlive ==
    /\ recPc \in {"requeue?", "fail?"}
    /\ regTtl[recOwner] > 0
    /\ RecNext
    /\ UNCHANGED <<redisVars, workerVars, creating, recTodo, recTimer,
                   killVars, boundVars>>

RecOrphanUnchecked ==   \* mutant: no EXISTS before the session is handled
    /\ recPc \in {"requeue?", "fail?"}
    /\ recPc' = IF recPc = "requeue?" THEN "requeue" ELSE "fail"
    /\ UNCHANGED <<redisVars, workerVars, creating, recTodo, recSession,
                   recOwner, recTimer, killVars, boundVars>>

RecOrphan ==
    /\ recPc \in {"requeue?", "fail?"}
    /\ regTtl[recOwner] = 0
    /\ recPc' = IF recPc = "requeue?" THEN "requeue" ELSE "fail"
    /\ UNCHANGED <<redisVars, workerVars, creating, recTodo, recSession,
                   recOwner, recTimer, killVars, boundVars>>

\* _handle_recoverable_session: the hash first, then the queue.
RecRequeue ==
    /\ recPc = "requeue"
    /\ status' = [status EXCEPT ![recSession] = "queued"]
    /\ assignee' = [assignee EXCEPT ![recSession] = NoWorker]
    /\ recPc' = "push"
    /\ UNCHANGED <<queue, lockTtl, lockOwner, regTtl, regCur, flag, workerVars,
                   creating, recTodo, recSession, recOwner, recTimer, killVars,
                   boundVars>>

RecPush ==
    /\ recPc = "push"
    /\ queue' = Append(queue, recSession)
    /\ RecNext
    /\ UNCHANGED <<status, assignee, lockTtl, lockOwner, regTtl, regCur, flag,
                   workerVars, creating, recTodo, recTimer, killVars,
                   boundVars>>

\* _handle_lost_session; its event is module EventStream's subject.
RecFail ==
    /\ recPc = "fail"
    /\ status' = [status EXCEPT ![recSession] = "failed"]
    /\ RecNext
    /\ UNCHANGED <<queue, assignee, lockTtl, lockOwner, regTtl, regCur, flag,
                   workerVars, creating, recTodo, recTimer, killVars,
                   boundVars>>

RecSleep ==
    /\ recPc = "scan"
    /\ recTodo = {}
    /\ recPc' = "sleep"
    /\ recTimer' = RecPeriod
    /\ UNCHANGED <<redisVars, workerVars, creating, recTodo, recSession,
                   recOwner, killVars, boundVars>>

-----------------------------------------------------------------------------
(* kill_all_sessions.  The registry entries it would remove (older than    *)
(* 60 s) have expired by then. *)

KillStart ==
    /\ killPc = "off"
    /\ kills < MaxKills
    /\ kills' = kills + 1
    /\ killPc' = "read"
    /\ killTodo' = {s \in Session : status[s] # "absent"}
    /\ UNCHANGED <<redisVars, workerVars, creating, recVars, killSession,
                   faults, hung>>

KillRead(s) ==
    /\ killPc = "read"
    /\ s \in killTodo
    /\ killTodo' = killTodo \ {s}
    /\ IF status[s] \in Terminal
       THEN UNCHANGED <<killPc, killSession>>
       ELSE killPc' = "write" /\ killSession' = s
    /\ UNCHANGED <<redisVars, workerVars, creating, recVars, boundVars>>

KillWrite ==
    /\ killPc = "write"
    /\ status' = [status EXCEPT ![killSession] = "cancelled"]
    /\ killPc' = "read"
    /\ killSession' = NoSession
    /\ UNCHANGED <<queue, assignee, lockTtl, lockOwner, regTtl, regCur, flag,
                   workerVars, creating, recVars, killTodo, boundVars>>

KillClearQueue ==
    /\ killPc = "read"
    /\ killTodo = {}
    /\ queue' = <<>>
    /\ killPc' = "flag"
    /\ UNCHANGED <<status, assignee, lockTtl, lockOwner, regTtl, regCur, flag,
                   workerVars, creating, recVars, killTodo, killSession,
                   boundVars>>

KillSetFlag ==
    /\ killPc = "flag"
    /\ flag' = FlagTTL
    /\ killPc' = "off"
    /\ UNCHANGED <<queue, status, assignee, lockTtl, lockOwner, regTtl, regCur,
                   workerVars, creating, recVars, killTodo, killSession,
                   boundVars>>

-----------------------------------------------------------------------------
(* Processes that die.  Redis keeps what they wrote until it expires. *)

Die(w) ==
    /\ Goto(w, "down")
    /\ job' = [job EXCEPT ![w] = NoSession]
    /\ hbPc' = [hbPc EXCEPT ![w] = "off"]
    /\ hbCur' = [hbCur EXCEPT ![w] = NoSession]
    /\ hbTimer' = [hbTimer EXCEPT ![w] = 0]

WorkerCrash(w) ==
    /\ Live(w)
    /\ faults < MaxFaults
    /\ faults' = faults + 1
    /\ Die(w)
    /\ UNCHANGED <<redisVars, apiVars, kills, hung>>

\* _emergency_exit_watcher: GETDEL, so the first worker to poll is the one.
EmergencyExit(w) ==
    /\ Live(w)
    /\ flag > 0
    /\ flag' = 0
    /\ Die(w)
    /\ UNCHANGED <<queue, status, assignee, lockTtl, lockOwner, regTtl, regCur,
                   apiVars, boundVars>>

\* The API process restarts: its handlers are gone, recovery_loop starts anew.
ApiCrash ==
    /\ faults < MaxFaults
    /\ faults' = faults + 1
    /\ creating' = {}
    /\ recPc' = "sleep"
    /\ recTodo' = {}
    /\ recSession' = NoSession
    /\ recOwner' = NoWorker
    /\ recTimer' = 0
    /\ killPc' = "off"
    /\ killTodo' = {}
    /\ killSession' = NoSession
    /\ UNCHANGED <<redisVars, workerVars, kills, hung>>

-----------------------------------------------------------------------------
(* Time.  A chain of Redis commands with no sleep in it takes less than a  *)
(* tick, and no sleep overruns, so a tick waits for whoever is in a chain: *)
(* an idle worker, a running job and the two sleeps span ticks.  Not so if *)
(* the event loop is blocked.                                              *)

Quiet(w) ==
    /\ pc[w] = "work" \/ (pc[w] = "poll" /\ queue = <<>>)
    /\ hbPc[w] = "sleep"
    /\ hbTimer[w] > 0
    /\ flag = 0

\* The workers whose event loop would stand still if the tick came now.
Blocked == {w \in Worker : Live(w) /\ ~Quiet(w)}

PassTick ==
    /\ recPc = "sleep" /\ recTimer > 0
    /\ killPc = "off" /\ creating = {}
    /\ hbTimer' = [w \in Worker |-> Dec(hbTimer[w])]
    /\ recTimer' = recTimer - 1
    /\ flag' = Dec(flag)
    /\ regTtl' = [w \in Worker |-> Dec(regTtl[w])]
    /\ regCur' = [w \in Worker |-> IF regTtl[w] > 1 THEN regCur[w] ELSE NoSession]
    /\ lockTtl' = [s \in Session |-> Dec(lockTtl[s])]
    /\ lockOwner' = [s \in Session |-> IF lockTtl[s] > 1 THEN lockOwner[s] ELSE NoWorker]
    /\ UNCHANGED <<queue, status, assignee, mainVars, hbPc, hbCur, creating,
                   recPc, recTodo, recSession, recOwner, killVars, kills>>

Tick ==
    /\ Blocked = {}
    /\ PassTick
    /\ UNCHANGED <<faults, hung>>

InHands(w, s) == Holds(w, s) \/ assignee[s] = w

\* _log_upload_loop, and main itself around a job, send the log with a
\* synchronous requests.post (15 s to connect, 15 s to read): for that long
\* neither main nor the heartbeat nor the exit watcher of the process runs.
\* The job's thread does.  A longer hang is several of these in a row.
Hang ==
    /\ Blocked # {}
    /\ faults < MaxFaults
    /\ PassTick
    /\ faults' = faults + 1
    /\ hung' = hung \cup {s \in Session : \E w \in Blocked : InHands(w, s)}

-----------------------------------------------------------------------------
MainStep(w) ==
    \/ Pop(w) \/ TakeLock(w) \/ SkipLocked(w) \/ MarkBusy(w) \/ Assign(w)
    \/ Begin(w) \/ Finish(w) \/ JobRaises(w) \/ Unlock(w) \/ MarkIdle(w)

HeartbeatStep(w) ==
    HbRead(w) \/ HbWriteIdle(w) \/ HbWriteBusy(w) \/ HbRenew(w)

RecoveryStep ==
    \/ RecWake \/ RecAlive \/ RecOrphan \/ RecRequeue \/ RecPush \/ RecFail
    \/ RecSleep
    \/ \E s \in Session : RecRead(s)

KillStep ==
    \/ KillWrite \/ KillClearQueue \/ KillSetFlag
    \/ \E s \in Session : KillRead(s)

Next ==
    \/ \E s \in Session : Create(s) \/ Enqueue(s)
    \/ \E w \in Worker : Start(w) \/ MainStep(w) \/ HeartbeatStep(w)
    \/ RecoveryStep
    \/ KillStart \/ KillStep
    \/ \E w \in Worker : WorkerCrash(w) \/ EmergencyExit(w)
    \/ ApiCrash
    \/ Tick \/ Hang

Spec == Init /\ [][Next]_vars

\* Redis and the event loops keep serving: every task that can step does, a
\* flagged worker exits, a log's POST answers or times out, and time passes.  A
\* job need not end, no client need create a session and no worker need be
\* started.
Fairness ==
    /\ \A s \in Session : WF_vars(Enqueue(s))
    /\ \A w \in Worker :
          /\ WF_vars(MainStep(w) /\ pc[w] # "work")
          /\ WF_vars(HeartbeatStep(w))
          /\ WF_vars(EmergencyExit(w))
    /\ WF_vars(RecoveryStep)
    /\ WF_vars(KillStep)
    /\ WF_vars(Tick)

FairSpec == Spec /\ Fairness

-----------------------------------------------------------------------------
MainLabel == {"new", "down", "poll", "lock", "busy", "assign", "begin", "work",
              "unlock", "idle"}

\* The ranges of the variables.
TypeOK ==
    /\ queue \in Seq(Session)
    /\ status \in [Session -> Status]
    /\ assignee \in [Session -> Worker \cup {NoWorker}]
    /\ lockTtl \in [Session -> 0..LockTTL]
    /\ lockOwner \in [Session -> Worker \cup {NoWorker}]
    /\ regTtl \in [Worker -> 0..WorkerTTL]
    /\ regCur \in [Worker -> Session \cup {NoSession}]
    /\ flag \in 0..FlagTTL
    /\ pc \in [Worker -> MainLabel]
    /\ job \in [Worker -> Session \cup {NoSession}]
    /\ hbPc \in [Worker -> {"off", "sleep", "write", "renew"}]
    /\ hbCur \in [Worker -> Session \cup {NoSession}]
    /\ hbTimer \in [Worker -> 0..HbPeriod]
    /\ creating \in SUBSET Session
    /\ recPc \in {"sleep", "scan", "requeue?", "fail?", "requeue", "push", "fail"}
    /\ recTodo \in SUBSET Session
    /\ recSession \in Session \cup {NoSession}
    /\ recOwner \in Worker \cup {NoWorker}
    /\ recTimer \in 0..RecPeriod
    /\ killPc \in {"off", "read", "write", "flag"}
    /\ killTodo \in SUBSET Session
    /\ killSession \in Session \cup {NoSession}
    /\ faults \in 0..MaxFaults
    /\ kills \in 0..MaxKills
    /\ hung \in SUBSET Session

\* find_dead's comment, "Since key TTL=30s and we refresh every 15s, an expired
\* key means dead worker", is what the three below stand on.  A log upload that
\* hangs on the event loop refutes it, so each speaks of the sessions that no
\* hanging worker had; one worker's hanging excuses no other worker's session.
Sound == Session \ hung

\* "Atomic lock: only one worker gets the session": at no time do two workers
\* have the same session in hand, whatever crashes, expires or is requeued.
OneHolder ==
    \A s \in Sound : \A v, w \in Worker :
        Holds(v, s) /\ Holds(w, s) => v = w

\* The recovery loop reads the hash, tests the key and writes in three awaits;
\* by the time it writes, the session it requeues or fails is still nobody's.
NoLiveSessionRecovered ==
    recPc \in {"requeue", "push", "fail"} /\ recSession \in Sound =>
        \A w \in Worker : ~Holds(w, recSession)

\* The DELETE after a job and the heartbeat's XX renewal test no owner, yet
\* neither ever hits another worker's lock: while a worker has a job past the
\* lock, that lock is its own or has expired.
LockOwnership ==
    \A w \in Worker :
        pc[w] \in {"busy", "assign", "begin", "work", "unlock"} /\ job[w] \in Sound =>
            lockTtl[job[w]] = 0 \/ lockOwner[job[w]] = w

\* A session whose worker died while running it is given a terminal status,
\* unless a worker of the same id registers before the recovery loop looks, or
\* the dead worker had hung and the session was taken from it while it lived.
OrphanRunEnds ==
    \A s \in Session, w \in Worker :
        (status[s] \in Lost /\ assignee[s] = w /\ pc[w] = "down")
            ~> (status[s] \in Terminal \/ pc[w] # "down" \/ s \in hung)

\* recovery.py's rule, "running | waiting_for_user -> mark failed (browser
\* state lost)", with no such exception.
CrashedRunEnds ==
    \A s \in Session, w \in Worker :
        (status[s] \in Lost /\ assignee[s] = w /\ pc[w] = "down")
            ~> status[s] \in Terminal

=============================================================================
