------------------------ MODULE JobDispatch_proofs ------------------------
(***************************************************************************)
(* Safety of job dispatch for every set of workers and sessions and every  *)
(* choice of periods and TTLs that DispatchAssumption admits.  The lock    *)
(* plays no part in the argument for OneHolder: a session is in one place  *)
(* at a time (being created, queued, held by a worker or being requeued),  *)
(* because recovery takes it from a worker only when that worker's key is  *)
(* gone, and a live worker's key goes only if its event loop hangs.  What  *)
(* is said of sessions is therefore said of those that no hanging worker   *)
(* had: a hang puts in doubt its own worker's sessions and no others.      *)
(***************************************************************************)
EXTENDS JobDispatch, TLAPS

InQueue(s) == \E i \in 1..Len(queue) : queue[i] = s

\* A worker in one of these holds its job but has not written assigned_worker.
Unassigned == {"lock", "busy", "assign"}
Assigned   == {"begin", "work", "unlock", "idle"}
Holding    == Unassigned \cup Assigned

\* The pointers that a step follows point at something.
PointerInv ==
    /\ \A w \in Worker :
          /\ pc[w] \in Holding => job[w] \in Session
          /\ hbPc[w] = "renew" => hbCur[w] \in Session
    /\ recPc \in {"requeue?", "fail?", "requeue", "push", "fail"} =>
          recSession \in Session
    /\ recPc \in {"requeue?", "fail?"} => recOwner \in Worker
    /\ killPc = "write" => killSession \in Session

TypeInv == TypeOK /\ PointerInv

\* What a worker keeps its key alive for.
Claims(w, s) == assignee[s] = w \/ (Holds(w, s) /\ pc[w] = "assign")

\* A dead worker has no heartbeat; that of a live one keeps its key from
\* expiring while it has a claim, hangs apart.
BeatInv ==
    \A w \in Worker :
        /\ Live(w) => hbPc[w] # "off" /\ (hbPc[w] # "sleep" => hbTimer[w] = 0)
        /\ ~Live(w) => hbPc[w] = "off" /\ hbCur[w] = NoSession

Fresh(w) ==
    /\ regTtl[w] + HbPeriod >= WorkerTTL + hbTimer[w]
    /\ hbPc[w] = "renew" => regTtl[w] = WorkerTTL

KeyInv ==
    /\ BeatInv
    /\ \A w \in Worker, s \in Sound : Live(w) /\ Claims(w, s) => Fresh(w)

\* No session is queued twice, and a queued one is unassigned and unheld.
QueueInv ==
    /\ \A i, j \in 1..Len(queue) :
          queue[i] = queue[j] /\ queue[i] \in Sound => i = j
    /\ \A s \in Sound : InQueue(s) =>
          /\ assignee[s] = NoWorker
          /\ status[s] # "absent"
          /\ s \notin creating
          /\ \A w \in Worker : ~Holds(w, s)

\* So is one whose creation is under way; one not yet created is nowhere.
CreateInv ==
    \A s \in Sound :
        /\ s \in creating =>
              /\ assignee[s] = NoWorker
              /\ status[s] # "absent"
              /\ \A w \in Worker : ~Holds(w, s)
        /\ status[s] = "absent" =>
              /\ assignee[s] = NoWorker
              /\ \A w \in Worker : ~Holds(w, s)

\* assigned_worker names the holder, from the holder's Assign on.
HolderInv ==
    \A s \in Sound, w \in Worker : Holds(w, s) =>
        /\ pc[w] \in Unassigned => assignee[s] = NoWorker
        /\ pc[w] \in Assigned => assignee[s] = w

\* A live worker's registry entry, or what its heartbeat read there, names s.
Noted(w, s) == Live(w) /\ (regCur[w] = s \/ hbCur[w] = s)

\* They name a session it holds or held last.
RegistryInv == \A w \in Worker, s \in Sound : Noted(w, s) => Claims(w, s)

\* What the recovery loop read still stands when it acts on it.
StillStands ==
    /\ recPc \in {"requeue?", "fail?", "requeue", "fail"} =>
          /\ recOwner \in Worker
          /\ assignee[recSession] = recOwner
          /\ status[recSession] # "absent"
    /\ recPc = "push" =>
          /\ assignee[recSession] = NoWorker
          /\ status[recSession] # "absent"
          /\ ~InQueue(recSession)
          /\ recSession \notin creating
    /\ recPc = "requeue" => \A w \in Worker : ~Noted(w, recSession)
    /\ NoLiveSessionRecovered

RecoveryInv == recSession \in Sound => StillStands

IInv ==
    /\ TypeInv
    /\ KeyInv
    /\ QueueInv
    /\ CreateInv
    /\ HolderInv
    /\ RegistryInv
    /\ RecoveryInv
    /\ OneHolder
    /\ LockOwnership

-----------------------------------------------------------------------------
(* Functions and sequences. *)

\* One Redis write changes one entry of a map.
LEMMA UpdateType ==
    ASSUME NEW D, NEW R, NEW f \in [D -> R], NEW x, NEW v \in R
    PROVE  [f EXCEPT ![x] = v] \in [D -> R]
OBVIOUS


\* RPUSH: the list keeps what it had and gains the new tail.
LEMMA AppendLemma ==
    ASSUME NEW q \in Seq(Session), NEW s \in Session
    PROVE  /\ Append(q, s) \in Seq(Session)
           /\ Len(Append(q, s)) = Len(q) + 1
           /\ Len(q) \in Nat
           /\ \A i \in 1..Len(q) : Append(q, s)[i] = q[i]
           /\ Append(q, s)[Len(q) + 1] = s
           /\ \A i \in 1..Len(Append(q, s)) :
                 (i \in 1..Len(q) /\ Append(q, s)[i] = q[i]) \/ Append(q, s)[i] = s
OBVIOUS

\* BLPOP: the list loses its head and the rest moves up.
LEMMA TailLemma ==
    ASSUME NEW q \in Seq(Session), q # <<>>
    PROVE  /\ Head(q) \in Session
           /\ Head(q) = q[1]
           /\ Len(q) \in Nat
           /\ Len(q) >= 1
           /\ Tail(q) \in Seq(Session)
           /\ Len(Tail(q)) = Len(q) - 1
           /\ \A i \in 1..(Len(q) - 1) : Tail(q)[i] = q[i + 1]
OBVIOUS

-----------------------------------------------------------------------------
\* Every variable keeps its type and every pointer its target.
LEMMA TypeStep == TypeInv /\ [Next]_vars => TypeInv'
<1> SUFFICES ASSUME TypeInv, [Next]_vars PROVE TypeInv'
  OBVIOUS
<1> USE DispatchAssumption DEF TypeInv, TypeOK, PointerInv, Holding, Unassigned,
        Assigned, Status, Active, Recoverable, Lost, Terminal, MainLabel,
        redisVars, mainVars, hbVars, workerVars, recVars, killVars, apiVars,
        boundVars, Goto, SetReg, Live
<1>1. ASSUME NEW s \in Session, Create(s) PROVE TypeInv'
  BY <1>1 DEF Create
<1>2. ASSUME NEW s \in Session, Enqueue(s) PROVE TypeInv'
  BY <1>2, AppendLemma DEF Enqueue
<1>3. ASSUME NEW w \in Worker, Start(w) PROVE TypeInv'
  <2>1. TypeOK'
    BY SMTT(30), <1>3 DEF Start
  <2>2. PointerInv'
    BY SMTT(30), <1>3 DEF Start
  <2>3. QED
    BY <2>1, <2>2
<1>4. ASSUME NEW w \in Worker, Pop(w) PROVE TypeInv'
  <2>1. /\ Head(queue) \in Session
        /\ queue' \in Seq(Session)
        /\ job' = [job EXCEPT ![w] = Head(queue)]
        /\ pc' = [pc EXCEPT ![w] = "lock"]
    BY <1>4, TailLemma DEF Pop
  <2>2. /\ job' \in [Worker -> Session \cup {NoSession}]
        /\ pc' \in [Worker -> MainLabel]
    BY <2>1
  <2>3. TypeOK'
    BY SMTT(30), <1>4, <2>1, <2>2 DEF Pop
  <2>4. PointerInv'
    BY SMTT(30), <1>4, <2>1 DEF Pop
  <2>5. QED
    BY <2>3, <2>4
<1>5. ASSUME NEW w \in Worker, TakeLock(w) PROVE TypeInv'
  BY <1>5 DEF TakeLock
<1>6. ASSUME NEW w \in Worker, SkipLocked(w) PROVE TypeInv'
  BY SMTT(30), <1>6 DEF SkipLocked
<1>7. ASSUME NEW w \in Worker, MarkBusy(w) PROVE TypeInv'
  <2>1. TypeOK'
    <3>1. /\ regTtl' \in [Worker -> 0..WorkerTTL]
          /\ regCur' \in [Worker -> Session \cup {NoSession}]
          /\ pc' \in [Worker -> MainLabel]
      BY <1>7 DEF MarkBusy
    <3>2. QED
      BY <1>7, <3>1 DEF MarkBusy
  <2>2. PointerInv'
    BY <1>7 DEF MarkBusy
  <2>3. QED
    BY <2>1, <2>2
<1>8. ASSUME NEW w \in Worker, Assign(w) PROVE TypeInv'
  BY SMTT(30), <1>8 DEF Assign
<1>9. ASSUME NEW w \in Worker, Begin(w) PROVE TypeInv'
  BY SMTT(30), <1>9 DEF Begin
<1>10. ASSUME NEW w \in Worker, Finish(w) PROVE TypeInv'
  BY SMTT(30), <1>10 DEF Finish
<1>11. ASSUME NEW w \in Worker, JobRaises(w) PROVE TypeInv'
  BY SMTT(30), <1>11 DEF JobRaises
<1>12. ASSUME NEW w \in Worker, Unlock(w) PROVE TypeInv'
  BY SMTT(30), <1>12 DEF Unlock
<1>13. ASSUME NEW w \in Worker, MarkIdle(w) PROVE TypeInv'
  BY <1>13 DEF MarkIdle
<1>14. ASSUME NEW w \in Worker, HbRead(w) PROVE TypeInv'
  BY SMTT(30), <1>14 DEF HbRead
<1>15. ASSUME NEW w \in Worker, HbWriteIdle(w) PROVE TypeInv'
  BY SMTT(30), <1>15 DEF HbWriteIdle, HbSleep
<1>16. ASSUME NEW w \in Worker, HbWriteBusy(w) PROVE TypeInv'
  <2>1. TypeOK'
    <3>1. /\ regTtl' \in [Worker -> 0..WorkerTTL]
          /\ regCur' \in [Worker -> Session \cup {NoSession}]
          /\ hbPc' \in [Worker -> {"off", "sleep", "write", "renew"}]
      BY <1>16 DEF HbWriteBusy
    <3>2. QED
      BY <1>16, <3>1 DEF HbWriteBusy
  <2>2. PointerInv'
    BY <1>16 DEF HbWriteBusy
  <2>3. QED
    BY <2>1, <2>2
<1>17. ASSUME NEW w \in Worker, HbRenew(w) PROVE TypeInv'
  <2>1. TypeOK'
    <3>1. /\ lockTtl' \in [Session -> 0..LockTTL]
          /\ lockOwner' \in [Session -> Worker \cup {NoWorker}]
      <4>1. hbCur[w] \in Session /\ LockTTL \in 0..LockTTL
        BY <1>17 DEF HbRenew
      <4>2. CASE lockTtl[hbCur[w]] > 0
        <5>1. /\ lockTtl' = [lockTtl EXCEPT ![hbCur[w]] = LockTTL]
              /\ lockOwner' = [lockOwner EXCEPT ![hbCur[w]] = w]
          BY <1>17, <4>2 DEF HbRenew
        <5>2. QED
          BY <4>1, <5>1, UpdateType
      <4>3. CASE ~(lockTtl[hbCur[w]] > 0)
        BY <1>17, <4>3 DEF HbRenew
      <4>4. QED
        BY <4>2, <4>3
    <3>2. /\ hbPc' \in [Worker -> {"off", "sleep", "write", "renew"}]
          /\ hbCur' \in [Worker -> Session \cup {NoSession}]
          /\ hbTimer' \in [Worker -> 0..HbPeriod]
      BY <1>17 DEF HbRenew, HbSleep
    <3>3. QED
      BY <1>17, <3>1, <3>2 DEF HbRenew, HbSleep
  <2>2. PointerInv'
    BY <1>17 DEF HbRenew, HbSleep
  <2>3. QED
    BY <2>1, <2>2
<1>18. ASSUME RecWake PROVE TypeInv'
  BY <1>18 DEF RecWake
<1>19. ASSUME RecAlive PROVE TypeInv'
  BY <1>19 DEF RecAlive, RecNext
<1>20. ASSUME RecOrphan PROVE TypeInv'
  BY <1>20 DEF RecOrphan
<1>21. ASSUME RecRequeue PROVE TypeInv'
  BY <1>21 DEF RecRequeue
<1>22. ASSUME RecPush PROVE TypeInv'
  BY <1>22, AppendLemma DEF RecPush, RecNext
<1>23. ASSUME RecFail PROVE TypeInv'
  BY <1>23 DEF RecFail, RecNext
<1>24. ASSUME RecSleep PROVE TypeInv'
  BY <1>24 DEF RecSleep
<1>25. ASSUME NEW s \in Session, RecRead(s) PROVE TypeInv'
  BY SMTT(30), <1>25 DEF RecRead
<1>26. ASSUME KillStart PROVE TypeInv'
  BY <1>26 DEF KillStart
<1>27. ASSUME KillWrite PROVE TypeInv'
  BY <1>27 DEF KillWrite
<1>28. ASSUME KillClearQueue PROVE TypeInv'
  BY <1>28 DEF KillClearQueue
<1>29. ASSUME KillSetFlag PROVE TypeInv'
  BY <1>29 DEF KillSetFlag
<1>30. ASSUME NEW s \in Session, KillRead(s) PROVE TypeInv'
  BY <1>30 DEF KillRead
<1>31. ASSUME NEW w \in Worker, WorkerCrash(w) PROVE TypeInv'
  BY <1>31 DEF WorkerCrash, Die
<1>32. ASSUME NEW w \in Worker, EmergencyExit(w) PROVE TypeInv'
  BY SMTT(30), <1>32 DEF EmergencyExit, Die
<1>33. ASSUME ApiCrash PROVE TypeInv'
  BY <1>33 DEF ApiCrash
<1>34. ASSUME Tick PROVE TypeInv'
  BY SMTT(30), <1>34 DEF Tick, PassTick, Dec
<1>35. ASSUME Hang PROVE TypeInv'
  BY SMTT(30), <1>35 DEF Hang, PassTick, Dec
<1>36. ASSUME UNCHANGED vars PROVE TypeInv'
  BY <1>36 DEF vars
<1>37. QED
  BY <1>1, <1>2, <1>3, <1>4, <1>5, <1>6, <1>7, <1>8, <1>9, <1>10, <1>11, <1>12, <1>13, <1>14, <1>15, <1>16, <1>17, <1>18, <1>19, <1>20, <1>21, <1>22, <1>23, <1>24, <1>25, <1>26, <1>27, <1>28, <1>29, <1>30, <1>31, <1>32, <1>33, <1>34, <1>35, <1>36
     DEF Next, MainStep, HeartbeatStep, RecoveryStep, KillStep

\* Type correctness of the specification.
THEOREM TypeCorrect == Spec => []TypeOK
<1>1. Init => TypeInv
  BY DispatchAssumption DEF Init, TypeInv, TypeOK, PointerInv, Holding,
     Unassigned, Assigned, Status, MainLabel
<1>2. TypeInv => TypeOK
  BY DEF TypeInv
<1>3. QED
  BY <1>1, <1>2, TypeStep, PTL DEF Spec

-----------------------------------------------------------------------------
\* Only a hang puts a session in doubt, and no step clears it.
LEMMA HungCases ==
    [Next]_vars => (Hang \/ UNCHANGED hung) /\ hung \subseteq hung'
<1> SUFFICES ASSUME [Next]_vars, ~Hang PROVE UNCHANGED hung
  BY DEF Hang
<1> USE DEF boundVars
<1>1. ASSUME NEW s \in Session, Create(s) \/ Enqueue(s) \/ RecRead(s) \/ KillRead(s)
      PROVE  UNCHANGED hung
  BY <1>1 DEF Create, Enqueue, RecRead, KillRead
<1>2. ASSUME NEW w \in Worker, Start(w) \/ MainStep(w)
      PROVE  UNCHANGED hung
  BY <1>2 DEF Start, MainStep, Pop, TakeLock, SkipLocked, MarkBusy, Assign,
     Begin, Finish, JobRaises, Unlock, MarkIdle
<1>3. ASSUME NEW w \in Worker, HeartbeatStep(w) PROVE UNCHANGED hung
  BY <1>3 DEF HeartbeatStep, HbRead, HbWriteIdle, HbWriteBusy, HbRenew
<1>4. ASSUME NEW w \in Worker, WorkerCrash(w) \/ EmergencyExit(w)
      PROVE  UNCHANGED hung
  BY <1>4 DEF WorkerCrash, EmergencyExit
<1>5. ASSUME RecWake \/ RecAlive \/ RecOrphan \/ RecRequeue \/ RecPush
             \/ RecFail \/ RecSleep
      PROVE  UNCHANGED hung
  BY <1>5 DEF RecWake, RecAlive, RecOrphan, RecRequeue, RecPush, RecFail, RecSleep
<1>6. ASSUME KillStart \/ KillWrite \/ KillClearQueue \/ KillSetFlag \/ ApiCrash
             \/ Tick \/ UNCHANGED vars
      PROVE  UNCHANGED hung
  BY <1>6 DEF KillStart, KillWrite, KillClearQueue, KillSetFlag, ApiCrash, Tick, vars
<1>7. QED
  BY <1>1, <1>2, <1>3, <1>4, <1>5, <1>6 DEF Next, RecoveryStep, KillStep

LEMMA SoundShrinks == [Next]_vars => Sound' \subseteq Sound /\ Sound \subseteq Session
BY HungCases DEF Sound

-----------------------------------------------------------------------------
\* A live worker has a heartbeat that runs, a dead one has none.
LEMMA BeatStep == TypeInv /\ BeatInv /\ [Next]_vars => BeatInv'
<1> SUFFICES ASSUME TypeInv, BeatInv, [Next]_vars PROVE BeatInv'
  OBVIOUS
<1> USE DispatchAssumption DEF BeatInv, Live, TypeInv, TypeOK
<1>1. ASSUME NEW w \in Worker, Start(w) PROVE BeatInv'
  BY <1>1 DEF Start, Goto, SetReg
<1>2. ASSUME NEW w \in Worker, MainStep(w) PROVE BeatInv'
  <2>1. UNCHANGED hbVars
    BY <1>2 DEF MainStep, Pop, TakeLock, SkipLocked, MarkBusy, Assign, Begin,
       Finish, JobRaises, Unlock, MarkIdle
  <2>2. \E label \in MainLabel \ {"new", "down"} :
           Live(w) /\ pc' = [pc EXCEPT ![w] = label]
    BY <1>2 DEF MainStep, Pop, TakeLock, SkipLocked, MarkBusy, Assign, Begin,
       Finish, JobRaises, Unlock, MarkIdle, Goto, MainLabel
  <2>3. QED
    BY <2>1, <2>2 DEF hbVars
<1>3. ASSUME NEW w \in Worker, HbRead(w) PROVE BeatInv'
  BY <1>3 DEF HbRead, redisVars, mainVars
<1>4. ASSUME NEW w \in Worker, HbWriteIdle(w) PROVE BeatInv'
  BY <1>4 DEF HbWriteIdle, HbSleep, SetReg, mainVars
<1>5. ASSUME NEW w \in Worker, HbWriteBusy(w) PROVE BeatInv'
  BY SMTT(30), <1>5 DEF HbWriteBusy, SetReg, mainVars
<1>6. ASSUME NEW w \in Worker, HbRenew(w) PROVE BeatInv'
  BY SMTT(30), <1>6 DEF HbRenew, HbSleep, mainVars
<1>7. ASSUME NEW w \in Worker, WorkerCrash(w) \/ EmergencyExit(w) PROVE BeatInv'
  <2>1. Die(w)
    BY <1>7 DEF WorkerCrash, EmergencyExit
  <2>2. /\ pc' = [pc EXCEPT ![w] = "down"] /\ hbPc' = [hbPc EXCEPT ![w] = "off"]
        /\ hbCur' = [hbCur EXCEPT ![w] = NoSession]
        /\ hbTimer' = [hbTimer EXCEPT ![w] = 0]
    BY <2>1 DEF Die, Goto
  <2>3. /\ pc \in [Worker -> MainLabel] /\ hbTimer \in [Worker -> 0..HbPeriod]
        /\ hbPc \in [Worker -> {"off", "sleep", "write", "renew"}]
        /\ hbCur \in [Worker -> Session \cup {NoSession}]
    OBVIOUS
  <2> HIDE DEF TypeInv, TypeOK
  <2> QED
    BY <2>2, <2>3
<1>8. ASSUME Tick \/ Hang PROVE BeatInv'
  BY <1>8 DEF Tick, Hang, PassTick, Dec, mainVars
<1>9. CASE UNCHANGED workerVars
  BY <1>9 DEF workerVars
<1>10. ASSUME NEW s \in Session, Create(s) \/ Enqueue(s) \/ RecRead(s) \/ KillRead(s)
       PROVE  UNCHANGED workerVars
  BY <1>10 DEF Create, Enqueue, RecRead, KillRead
<1>11. ASSUME RecWake \/ RecAlive \/ RecOrphan \/ RecRequeue \/ RecPush
              \/ RecFail \/ RecSleep
       PROVE  UNCHANGED workerVars
  BY <1>11 DEF RecWake, RecAlive, RecOrphan, RecRequeue, RecPush, RecFail, RecSleep
<1>12. ASSUME KillStart \/ KillWrite \/ KillClearQueue \/ KillSetFlag \/ ApiCrash
              \/ UNCHANGED vars
       PROVE  UNCHANGED workerVars
  BY <1>12 DEF KillStart, KillWrite, KillClearQueue, KillSetFlag, ApiCrash, vars
<1>13. QED
  BY <1>1, <1>2, <1>3, <1>4, <1>5, <1>6, <1>7, <1>8, <1>9, <1>10, <1>11, <1>12
     DEF Next, HeartbeatStep, RecoveryStep, KillStep

\* The steps that write a worker's key or move its heartbeat.
KeyWrite(w) == Start(w) \/ MarkBusy(w) \/ MarkIdle(w) \/ HbWriteIdle(w) \/ HbWriteBusy(w)

\* A step that writes the key makes it fresh.
LEMMA KeyWritten ==
    ASSUME TypeInv, BeatInv, NEW w \in Worker, KeyWrite(w)
    PROVE  Fresh(w)'
<1> USE DispatchAssumption DEF TypeInv, TypeOK, Fresh, SetReg
<1>1. CASE Start(w)
  BY <1>1 DEF Start
<1>2. CASE MarkBusy(w)
  BY <1>2 DEF MarkBusy, hbVars
<1>3. CASE MarkIdle(w)
  BY <1>3 DEF MarkIdle, hbVars
<1>4. CASE HbWriteIdle(w)
  BY <1>4 DEF HbWriteIdle, HbSleep
<1>5. CASE HbWriteBusy(w)
  BY <1>5 DEF HbWriteBusy
<1>6. QED
  BY <1>1, <1>2, <1>3, <1>4, <1>5 DEF KeyWrite

\* Any other step leaves the worker's claims and the key's freshness, unless the
\* worker hangs: then what it claims is in doubt from there on.
LEMMA KeyKept ==
    ASSUME TypeInv, BeatInv, [Next]_vars, NEW w \in Worker, NEW s \in Sound',
           ~KeyWrite(w), Live(w)', Claims(w, s)'
    PROVE  /\ s \in Sound /\ Live(w) /\ Claims(w, s)
           /\ Fresh(w) => Fresh(w)'
<1> s \in Session /\ s \in Sound
  BY SoundShrinks
<1> USE DispatchAssumption DEF TypeInv, TypeOK, Fresh, Claims, Live, Goto, KeyWrite
<1> DEFINE Goal == /\ Live(w) /\ Claims(w, s)
                   /\ Fresh(w) => Fresh(w)'
<1>1. ASSUME UNCHANGED <<pc[w], job[w], assignee[s], regTtl[w], hbPc[w], hbTimer[w]>>
      PROVE  Goal
  BY <1>1 DEF Holds
<1>2. ASSUME NEW v \in Worker, v # w,
             Start(v) \/ MarkBusy(v) \/ MarkIdle(v) \/ HeartbeatStep(v)
      PROVE  Goal
  <2>1. UNCHANGED <<pc[w], job[w], assignee[s], regTtl[w], hbPc[w], hbTimer[w]>>
    BY SMTT(30), <1>2 DEF Start, MarkBusy, MarkIdle, HeartbeatStep, HbRead, HbWriteIdle,
       HbWriteBusy, HbRenew, HbSleep, SetReg, hbVars, mainVars, redisVars
  <2>2. QED
    BY <1>1, <2>1
<1>3. ASSUME NEW v \in Worker, WorkerCrash(v) \/ EmergencyExit(v) PROVE Goal
  <2>1. v # w
    BY <1>3 DEF WorkerCrash, EmergencyExit, Die
  <2>2. UNCHANGED <<pc[w], job[w], assignee[s], regTtl[w], hbPc[w], hbTimer[w]>>
    BY <1>3, <2>1 DEF WorkerCrash, EmergencyExit, Die, redisVars
  <2>3. QED
    BY <1>1, <2>2
<1>4. ASSUME NEW v \in Worker,
             \/ Pop(v) \/ TakeLock(v) \/ SkipLocked(v) \/ Begin(v) \/ Finish(v)
             \/ JobRaises(v) \/ Unlock(v)
      PROVE  Goal
  <2>1. UNCHANGED <<assignee, regTtl, hbPc, hbTimer>>
    BY <1>4 DEF Pop, TakeLock, SkipLocked, Begin, Finish, JobRaises, Unlock,
       redisVars, hbVars
  <2>2. /\ Live(v)
        /\ \E label \in {"poll", "lock", "busy", "work", "unlock", "idle"} :
              pc' = [pc EXCEPT ![v] = label]
        /\ v # w => UNCHANGED job[w]
    BY SMTT(30), <1>4 DEF Pop, TakeLock, SkipLocked, Begin, Finish, JobRaises, Unlock
  <2>3. QED
    BY <2>1, <2>2 DEF Holds
<1>5. ASSUME NEW v \in Worker, Assign(v) PROVE Goal
  <2>1. /\ pc[v] = "assign" /\ pc' = [pc EXCEPT ![v] = "begin"]
        /\ assignee' = [assignee EXCEPT ![job[v]] = v]
        /\ UNCHANGED <<job, regTtl, hbPc, hbTimer>>
    BY <1>5 DEF Assign, hbVars
  <2>2. QED
    BY <2>1 DEF Holds
<1>6. CASE RecRequeue
  <2>1. /\ UNCHANGED <<pc, job, regTtl, hbPc, hbTimer>>
        /\ assignee' = [assignee EXCEPT ![recSession] = NoWorker]
    BY <1>6 DEF RecRequeue, workerVars
  <2>2. QED
    BY <2>1 DEF Holds
<1>7. CASE HbRead(w)
  BY <1>7 DEF HbRead, redisVars, mainVars, Holds
<1>8. CASE HbRenew(w)
  BY <1>8 DEF HbRenew, HbSleep, redisVars, mainVars, Holds
<1>9. ASSUME Tick \/ Hang PROVE Goal
  <2>1. /\ UNCHANGED <<pc, job, assignee, hbPc>>
        /\ hbTimer'[w] = Dec(hbTimer[w]) /\ regTtl'[w] = Dec(regTtl[w])
    BY <1>9 DEF Tick, Hang, PassTick, mainVars
  <2>2. Claims(w, s) /\ Live(w)
    BY <2>1 DEF Holds
  <2>3. Quiet(w)
    <3>1. CASE Tick
      BY <2>2, <3>1 DEF Tick, Blocked
    <3>2. CASE Hang /\ w \in Blocked
      BY <2>2, <3>2 DEF Hang, InHands, Sound
    <3>3. CASE w \notin Blocked
      BY <2>2, <3>3 DEF Blocked
    <3>4. QED
      BY <1>9, <3>1, <3>2, <3>3
  <2>4. /\ hbPc[w] = "sleep" /\ hbTimer[w] > 0
        /\ hbTimer[w] \in Nat /\ regTtl[w] \in Nat /\ WorkerTTL \in Nat
        /\ HbPeriod \in Nat /\ hbPc'[w] = hbPc[w]
    BY <2>1, <2>3 DEF Quiet
  <2>5. ASSUME Fresh(w) PROVE Fresh(w)'
    <3>1. regTtl[w] + HbPeriod >= WorkerTTL + hbTimer[w]
      BY <2>5
    <3> HIDE DEF TypeInv, TypeOK, Claims, Live, KeyWrite
    <3>2. hbTimer'[w] = hbTimer[w] - 1 /\ (regTtl[w] > 0 => regTtl'[w] = regTtl[w] - 1)
      BY <2>1, <2>4 DEF Dec
    <3>3. regTtl[w] > 0
      BY <2>4, <3>1
    <3>4. QED
      BY <2>4, <3>1, <3>2, <3>3
  <2>6. QED
    BY <2>2, <2>5
<1>10. CASE UNCHANGED <<workerVars, regTtl, assignee>>
  BY <1>1, <1>10 DEF workerVars
<1>11. ASSUME NEW r \in Session, Create(r) \/ Enqueue(r) \/ RecRead(r) \/ KillRead(r)
       PROVE  UNCHANGED <<workerVars, regTtl, assignee>>
  BY <1>11 DEF Create, Enqueue, RecRead, KillRead, redisVars
<1>12. ASSUME RecWake \/ RecAlive \/ RecOrphan \/ RecPush \/ RecFail \/ RecSleep
       PROVE  UNCHANGED <<workerVars, regTtl, assignee>>
  BY <1>12 DEF RecWake, RecAlive, RecOrphan, RecPush, RecFail, RecSleep, redisVars
<1>13. ASSUME KillStart \/ KillWrite \/ KillClearQueue \/ KillSetFlag \/ ApiCrash
              \/ UNCHANGED vars
       PROVE  UNCHANGED <<workerVars, regTtl, assignee>>
  BY <1>13 DEF KillStart, KillWrite, KillClearQueue, KillSetFlag, ApiCrash,
     redisVars, vars
<1>14. Goal
  BY <1>2, <1>3, <1>4, <1>5, <1>6, <1>7, <1>8, <1>9, <1>10, <1>11, <1>12, <1>13
     DEF Next, MainStep, HeartbeatStep, RecoveryStep, KillStep
<1>15. QED
  BY <1>14

\* A heartbeat every HbPeriod < WorkerTTL keeps the key of a live worker.
LEMMA KeyStep == TypeInv /\ KeyInv /\ [Next]_vars => KeyInv'
BY BeatStep, KeyWritten, KeyKept DEF KeyInv

\* The key of a live worker that has a claim is there.
LEMMA KeyIsThere ==
    ASSUME TypeInv, KeyInv, NEW w \in Worker, NEW s \in Sound, Live(w), Claims(w, s)
    PROVE  regTtl[w] > 0
BY DispatchAssumption DEF KeyInv, Fresh, TypeInv, TypeOK

-----------------------------------------------------------------------------
(* Where a session is.  Most steps leave every session where it is. *)

Calm ==
    /\ UNCHANGED <<queue, assignee, creating>>
    /\ \A s \in Session : status'[s] = "absent" => status[s] = "absent"
    /\ \A w \in Worker, s \in Session :
          Holds(w, s)' =>
              /\ Holds(w, s)
              /\ pc[w] \in Unassigned <=> pc'[w] \in Unassigned

\* The steps that move a session.
LEMMA PlaceCases ==
    ASSUME TypeInv, [Next]_vars
    PROVE  \/ \E s \in Session : Create(s) \/ Enqueue(s)
           \/ \E w \in Worker : Pop(w) \/ Assign(w)
           \/ RecRequeue \/ RecPush \/ KillClearQueue \/ ApiCrash
           \/ Calm
<1> USE DEF Calm, Holds, Unassigned, TypeInv, TypeOK, Goto
<1>1. ASSUME NEW w \in Worker, Start(w) PROVE Calm
  <2>1. /\ UNCHANGED <<queue, status, assignee, creating, job>>
        /\ pc' = [pc EXCEPT ![w] = "poll"]
    BY <1>1 DEF Start, apiVars
  <2>2. QED
    BY <2>1
<1>2. ASSUME NEW w \in Worker,
             TakeLock(w) \/ MarkBusy(w) \/ JobRaises(w) \/ Unlock(w)
      PROVE  Calm
  BY SMTT(30), <1>2 DEF TakeLock, MarkBusy, JobRaises, Unlock, redisVars, apiVars
<1>3. ASSUME NEW w \in Worker, SkipLocked(w) \/ MarkIdle(w) PROVE Calm
  BY <1>3 DEF SkipLocked, MarkIdle, redisVars, apiVars
<1>4. ASSUME NEW w \in Worker, Begin(w) \/ Finish(w) PROVE Calm
  <2>1. /\ UNCHANGED <<queue, assignee, creating, job>>
        /\ \E st \in Status \ {"absent"} : status' = [status EXCEPT ![job[w]] = st]
        /\ \E label \in {"work", "unlock"} : pc' = [pc EXCEPT ![w] = label]
        /\ pc[w] \in {"begin", "work"} /\ job[w] \in Session
    BY <1>4 DEF Begin, Finish, apiVars, Status, Active, Lost, Terminal,
       PointerInv, Holding, Assigned
  <2>2. QED
    BY <2>1
<1>5. ASSUME NEW w \in Worker, HeartbeatStep(w) PROVE Calm
  BY <1>5 DEF HeartbeatStep, HbRead, HbWriteIdle, HbWriteBusy, HbRenew,
     redisVars, mainVars, apiVars
<1>6. ASSUME RecWake \/ RecAlive \/ RecOrphan \/ RecSleep PROVE Calm
  BY <1>6 DEF RecWake, RecAlive, RecOrphan, RecSleep, redisVars, workerVars
<1>7. ASSUME NEW s \in Session, RecRead(s) \/ KillRead(s) PROVE Calm
  BY <1>7 DEF RecRead, KillRead, redisVars, workerVars
<1>8. ASSUME RecFail PROVE Calm
  BY <1>8 DEF RecFail, workerVars, Status, Terminal
<1>9. ASSUME KillStart \/ KillSetFlag PROVE Calm
  BY <1>9 DEF KillStart, KillSetFlag, redisVars, workerVars
<1>10. ASSUME KillWrite PROVE Calm
  BY <1>10 DEF KillWrite, workerVars, Status, Terminal
<1>11. ASSUME NEW w \in Worker, WorkerCrash(w) \/ EmergencyExit(w) PROVE Calm
  BY SMTT(30), <1>11 DEF WorkerCrash, EmergencyExit, Die, redisVars, apiVars
<1>12. ASSUME Tick \/ Hang PROVE Calm
  BY <1>12 DEF Tick, Hang, PassTick, mainVars
<1>13. ASSUME UNCHANGED vars PROVE Calm
  BY <1>13 DEF vars, redisVars, workerVars, apiVars
<1>14. QED
  BY <1>1, <1>2, <1>3, <1>4, <1>5, <1>6, <1>7, <1>8, <1>9, <1>10, <1>11,
     <1>12, <1>13
     DEF Next, MainStep, RecoveryStep, KillStep

\* A queued session stays out of every worker's hands.
LEMMA QueueStep == IInv /\ [Next]_vars => QueueInv'
<1> SUFFICES ASSUME IInv, [Next]_vars, Sound' \subseteq Sound, Sound \subseteq Session PROVE QueueInv'
  BY SoundShrinks
<1> USE DispatchAssumption DEF IInv, QueueInv, InQueue
<1>1. CASE Calm
  BY <1>1 DEF Calm
<1>2. ASSUME NEW s \in Session, Create(s) PROVE QueueInv'
  <2>1. /\ UNCHANGED <<queue, assignee, pc, job>>
        /\ status' = [status EXCEPT ![s] = "queued"]
        /\ creating' = creating \cup {s}
        /\ status[s] = "absent"
    BY <1>2 DEF Create, workerVars
  <2>2. QED
    BY ZenonT(30), <2>1 DEF TypeInv, TypeOK, Holds
<1>3. ASSUME NEW s \in Session, Enqueue(s) PROVE QueueInv'
  <2>1. /\ UNCHANGED <<status, assignee, pc, job>>
        /\ queue' = Append(queue, s)
        /\ creating' = creating \ {s}
        /\ s \in creating
    BY <1>3 DEF Enqueue, workerVars
  <2>2. s \in Sound => \A i \in 1..Len(queue) : queue[i] # s
    BY <2>1
  <2>3. \A i \in 1..Len(queue') :
           (i \in 1..Len(queue) /\ queue'[i] = queue[i]) \/ queue'[i] = s
    BY <2>1, AppendLemma DEF TypeInv, TypeOK
  <2>4. \A i, j \in 1..Len(queue') :
           queue'[i] = queue'[j] /\ queue'[i] \in Sound => i = j
    BY <2>1, <2>2, AppendLemma DEF TypeInv, TypeOK
  <2>5. \A t \in Session : InQueue(t)' => InQueue(t) \/ t = s
    BY <2>3
  <2>6. QED
    BY <2>1, <2>4, <2>5 DEF CreateInv, Holds
<1>4. ASSUME NEW w \in Worker, Pop(w) PROVE QueueInv'
  <2>1. /\ UNCHANGED <<status, assignee, creating>>
        /\ queue # <<>> /\ queue' = Tail(queue)
        /\ job' = [job EXCEPT ![w] = Head(queue)]
        /\ pc' = [pc EXCEPT ![w] = "lock"]
    BY <1>4 DEF Pop, Goto, apiVars
  <2>2. /\ Head(queue) = queue[1] /\ Len(queue) \in Nat /\ Len(queue) >= 1
        /\ Len(queue') = Len(queue) - 1
        /\ \A i \in 1..(Len(queue) - 1) : queue'[i] = queue[i + 1]
    BY <2>1, TailLemma DEF TypeInv, TypeOK
  <2>3. \A i, j \in 1..Len(queue') :
           queue'[i] = queue'[j] /\ queue'[i] \in Sound => i = j
    BY SMTT(30), <2>2
  <2>4. \A s \in Sound : InQueue(s)' => InQueue(s) /\ s # Head(queue)
    BY <2>2
  <2>5. \A v \in Worker, s \in Session :
           Holds(v, s)' => Holds(v, s) \/ s = Head(queue)
    BY <2>1 DEF Holds, TypeInv, TypeOK
  <2>6. QED
    BY <2>1, <2>3, <2>4, <2>5
<1>5. ASSUME NEW w \in Worker, Assign(w) PROVE QueueInv'
  <2>1. /\ UNCHANGED <<queue, creating, job>>
        /\ status' = [status EXCEPT ![job[w]] = "assigned"]
        /\ assignee' = [assignee EXCEPT ![job[w]] = w]
        /\ pc' = [pc EXCEPT ![w] = "begin"]
        /\ pc[w] = "assign"
    BY <1>5 DEF Assign, Goto, apiVars
  <2>2. \A v \in Worker, s \in Session : Holds(v, s)' => Holds(v, s)
    BY <2>1 DEF Holds, TypeInv, TypeOK
  <2>3. job[w] \in Session /\ Holds(w, job[w])
    BY <2>1 DEF Holds, TypeInv, PointerInv, Holding, Unassigned
  <2>4. \A s \in Sound : InQueue(s) => s # job[w]
    BY <2>3
  <2>5. \A s \in Session : InQueue(s)' <=> InQueue(s)
    BY <2>1
  <2>6. \A s \in Session \ {job[w]} : assignee'[s] = assignee[s] /\ status'[s] = status[s]
    BY <2>1, <2>3 DEF TypeInv, TypeOK
  <2>7. QED
    BY <2>1, <2>2, <2>4, <2>5, <2>6
<1>6. CASE RecRequeue
  <2>1. /\ UNCHANGED <<queue, creating, pc, job>>
        /\ status' = [status EXCEPT ![recSession] = "queued"]
        /\ assignee' = [assignee EXCEPT ![recSession] = NoWorker]
    BY <1>6 DEF RecRequeue, workerVars
  <2>2. QED
    BY <2>1 DEF Holds, TypeInv, TypeOK
<1>7. CASE RecPush
  <2>1. /\ UNCHANGED <<status, assignee, creating, pc, job>>
        /\ queue' = Append(queue, recSession)
        /\ recPc = "push" /\ recSession \in Session
    BY <1>7 DEF RecPush, workerVars, TypeInv, PointerInv
  <2>2. recSession \in Sound =>
           /\ \A i \in 1..Len(queue) : queue[i] # recSession
           /\ assignee[recSession] = NoWorker
           /\ status[recSession] # "absent"
           /\ recSession \notin creating
           /\ \A w \in Worker : ~Holds(w, recSession)
    BY <2>1 DEF RecoveryInv, StillStands, NoLiveSessionRecovered
  <2>3. \A i \in 1..Len(queue') :
           (i \in 1..Len(queue) /\ queue'[i] = queue[i]) \/ queue'[i] = recSession
    BY <2>1, AppendLemma DEF TypeInv, TypeOK
  <2>4. \A i, j \in 1..Len(queue') :
           queue'[i] = queue'[j] /\ queue'[i] \in Sound => i = j
    BY <2>1, <2>2, AppendLemma DEF TypeInv, TypeOK
  <2>5. \A t \in Session : InQueue(t)' => InQueue(t) \/ t = recSession
    BY <2>3
  <2>6. QED
    BY <2>1, <2>2, <2>4, <2>5 DEF Holds
<1>8. CASE KillClearQueue
  BY <1>8 DEF KillClearQueue
<1>9. CASE ApiCrash
  BY <1>9 DEF ApiCrash, redisVars, workerVars, Holds
<1>10. QED
  BY <1>1, <1>2, <1>3, <1>4, <1>5, <1>6, <1>7, <1>8, <1>9, PlaceCases

\* So does one that is being created, and one that is not there yet.
LEMMA CreateStep == IInv /\ [Next]_vars => CreateInv'
<1> SUFFICES ASSUME IInv, [Next]_vars, Sound' \subseteq Sound, Sound \subseteq Session PROVE CreateInv'
  BY SoundShrinks
<1> USE DispatchAssumption DEF IInv, CreateInv
<1>1. CASE Calm
  BY <1>1 DEF Calm
<1>2. ASSUME NEW s \in Session, Create(s) PROVE CreateInv'
  BY <1>2 DEF Create, workerVars, TypeInv, TypeOK, Holds
<1>3. ASSUME NEW s \in Session, Enqueue(s) PROVE CreateInv'
  BY <1>3 DEF Enqueue, workerVars, Holds
<1>4. ASSUME NEW w \in Worker, Pop(w) PROVE CreateInv'
  <2>1. /\ UNCHANGED <<status, assignee, creating>>
        /\ queue # <<>>
        /\ job' = [job EXCEPT ![w] = Head(queue)]
        /\ pc' = [pc EXCEPT ![w] = "lock"]
    BY <1>4 DEF Pop, Goto, apiVars
  <2>2. Head(queue) \in Session /\ InQueue(Head(queue))
    BY <2>1, TailLemma DEF TypeInv, TypeOK, InQueue
  <2>3. \A v \in Worker, s \in Session :
           Holds(v, s)' => Holds(v, s) \/ s = Head(queue)
    BY <2>1 DEF Holds, TypeInv, TypeOK
  <2>4. QED
    BY <2>1, <2>2, <2>3 DEF QueueInv
<1>5. ASSUME NEW w \in Worker, Assign(w) PROVE CreateInv'
  <2>1. /\ UNCHANGED <<creating, job>>
        /\ status' = [status EXCEPT ![job[w]] = "assigned"]
        /\ assignee' = [assignee EXCEPT ![job[w]] = w]
        /\ pc' = [pc EXCEPT ![w] = "begin"]
        /\ pc[w] = "assign"
    BY <1>5 DEF Assign, Goto, apiVars
  <2>2. \A v \in Worker, s \in Session : Holds(v, s)' => Holds(v, s)
    BY <2>1 DEF Holds, TypeInv, TypeOK
  <2>3. job[w] \in Session /\ Holds(w, job[w])
    BY <2>1 DEF Holds, TypeInv, PointerInv, Holding, Unassigned
  <2>4. QED
    BY <2>1, <2>2, <2>3 DEF TypeInv, TypeOK
<1>6. CASE RecRequeue
  BY <1>6 DEF RecRequeue, workerVars, TypeInv, TypeOK, Holds
<1>7. CASE RecPush
  BY <1>7 DEF RecPush, workerVars, Holds
<1>8. CASE KillClearQueue
  BY <1>8 DEF KillClearQueue, workerVars, Holds
<1>9. CASE ApiCrash
  BY <1>9 DEF ApiCrash, redisVars, workerVars, Holds
<1>10. QED
  BY <1>1, <1>2, <1>3, <1>4, <1>5, <1>6, <1>7, <1>8, <1>9, PlaceCases

\* Two workers never get the same session: a queued one is nobody's.
LEMMA OneHolderStep == IInv /\ [Next]_vars => OneHolder'
<1> SUFFICES ASSUME IInv, [Next]_vars, Sound' \subseteq Sound, Sound \subseteq Session PROVE OneHolder'
  BY SoundShrinks
<1> USE DEF IInv, OneHolder
<1>1. ASSUME NEW w \in Worker, Pop(w) PROVE OneHolder'
  <2>1. /\ queue # <<>>
        /\ job' = [job EXCEPT ![w] = Head(queue)]
        /\ pc' = [pc EXCEPT ![w] = "lock"]
        /\ pc[w] = "poll"
    BY <1>1 DEF Pop, Goto, apiVars
  <2>2. Head(queue) \in Session /\ InQueue(Head(queue))
    BY <2>1, TailLemma DEF TypeInv, TypeOK, InQueue
  <2>3. \A v \in Worker, s \in Session :
           Holds(v, s)' => Holds(v, s) \/ (v = w /\ s = Head(queue))
    BY <2>1 DEF Holds, TypeInv, TypeOK
  <2>4. QED
    BY <2>2, <2>3 DEF QueueInv
<1>2. ASSUME \A w \in Worker, s \in Session : Holds(w, s)' => Holds(w, s)
      PROVE  OneHolder'
  BY <1>2
<1>3. CASE Calm
  BY <1>2, <1>3 DEF Calm
<1>4. ASSUME NEW w \in Worker, Assign(w) PROVE OneHolder'
  BY <1>2, <1>4 DEF Assign, Goto, Holds, TypeInv, TypeOK
<1>5. ASSUME UNCHANGED <<pc, job>> PROVE OneHolder'
  BY <1>2, <1>5 DEF Holds
<1>6. ASSUME NEW s \in Session, Create(s) \/ Enqueue(s) PROVE OneHolder'
  BY <1>5, <1>6 DEF Create, Enqueue, workerVars
<1>7. CASE RecRequeue \/ RecPush \/ KillClearQueue \/ ApiCrash
  BY <1>5, <1>7 DEF RecRequeue, RecPush, KillClearQueue, ApiCrash, workerVars
<1>8. QED
  BY <1>1, <1>3, <1>4, <1>6, <1>7, PlaceCases

\* assigned_worker is the holder's own from Assign to MarkIdle.
LEMMA HolderStep == IInv /\ [Next]_vars => HolderInv'
<1> SUFFICES ASSUME IInv, [Next]_vars, Sound' \subseteq Sound, Sound \subseteq Session PROVE HolderInv'
  BY SoundShrinks
<1> USE DispatchAssumption DEF IInv, HolderInv, Unassigned, Assigned
<1>1. CASE Calm
  BY <1>1 DEF Calm, Holds
<1>2. ASSUME UNCHANGED <<assignee, pc, job>> PROVE HolderInv'
  BY <1>2 DEF Holds
<1>3. ASSUME NEW s \in Session, Create(s) \/ Enqueue(s) PROVE HolderInv'
  BY <1>2, <1>3 DEF Create, Enqueue, workerVars
<1>4. ASSUME NEW w \in Worker, Pop(w) PROVE HolderInv'
  <2>1. /\ UNCHANGED assignee
        /\ queue # <<>>
        /\ job' = [job EXCEPT ![w] = Head(queue)]
        /\ pc' = [pc EXCEPT ![w] = "lock"]
    BY <1>4 DEF Pop, Goto
  <2>2. Head(queue) \in Sound => assignee[Head(queue)] = NoWorker
    BY <2>1, TailLemma DEF TypeInv, TypeOK, InQueue, QueueInv
  <2>3. QED
    BY <2>1, <2>2 DEF Holds, TypeInv, TypeOK
<1>5. ASSUME NEW w \in Worker, Assign(w) PROVE HolderInv'
  <2>1. /\ UNCHANGED job
        /\ assignee' = [assignee EXCEPT ![job[w]] = w]
        /\ pc' = [pc EXCEPT ![w] = "begin"]
        /\ pc[w] = "assign"
    BY <1>5 DEF Assign, Goto
  <2>2. Holds(w, job[w]) /\ job[w] \in Session
    BY <2>1 DEF Holds, TypeInv, PointerInv, Holding
  <2>3. \A v \in Worker, s \in Session : Holds(v, s)' => Holds(v, s)
    BY <2>1 DEF Holds, TypeInv, TypeOK
  <2>4. \A v \in Worker, s \in Sound : Holds(v, s)' /\ v # w => s # job[w]
    BY <2>2, <2>3 DEF OneHolder
  <2>5. QED
    BY <2>1, <2>3, <2>4 DEF Holds, TypeInv, TypeOK
<1>6. CASE RecRequeue
  BY <1>6 DEF RecRequeue, workerVars, TypeInv, TypeOK, Holds, RecoveryInv, StillStands,
     NoLiveSessionRecovered
<1>7. CASE RecPush \/ KillClearQueue \/ ApiCrash
  BY <1>2, <1>7 DEF RecPush, KillClearQueue, ApiCrash, redisVars, workerVars
<1>8. QED
  BY <1>1, <1>3, <1>4, <1>5, <1>6, <1>7, PlaceCases

-----------------------------------------------------------------------------
(* What a worker's registry entry and its heartbeat's copy of it name. *)

\* A session gets there only when its holder marks itself busy.
LEMMA NotedStep ==
    ASSUME IInv, [Next]_vars, NEW w \in Worker, NEW s \in Session,
           Noted(w, s)', ~Noted(w, s)
    PROVE  MarkBusy(w) /\ job[w] = s
<1> USE DispatchAssumption DEF IInv, Noted, Live, TypeInv, TypeOK, Goto, SetReg
<1>1. CASE UNCHANGED <<pc, regCur, hbCur>>
  BY <1>1
<1>2. ASSUME NEW v \in Worker, Start(v) PROVE FALSE
  BY <1>2 DEF Start, KeyInv, BeatInv
<1>3. ASSUME NEW v \in Worker, MainStep(v), ~MarkBusy(v) PROVE FALSE
  <2>1. CASE MarkIdle(v)
    BY <2>1 DEF MarkIdle, hbVars
  <2>2. CASE ~MarkIdle(v)
    <3>1. UNCHANGED <<regCur, hbCur>> /\ Live(v)
      BY <1>3, <2>2 DEF MainStep, Pop, TakeLock, SkipLocked, Assign, Begin,
         Finish, JobRaises, Unlock, redisVars, hbVars
    <3>2. \E label \in MainLabel : pc' = [pc EXCEPT ![v] = label]
      BY <1>3, <2>2 DEF MainStep, Pop, TakeLock, SkipLocked, Assign, Begin,
         Finish, JobRaises, Unlock, MainLabel
    <3>3. QED
      BY <3>1, <3>2
  <2>3. QED
    BY <2>1, <2>2
<1>4. ASSUME NEW v \in Worker, MarkBusy(v) PROVE v = w /\ job[w] = s
  BY <1>4 DEF MarkBusy, hbVars
<1>5. ASSUME NEW v \in Worker, HeartbeatStep(v) PROVE FALSE
  <2>1. CASE HbRead(v)
    BY <2>1 DEF HbRead, redisVars, mainVars
  <2>2. CASE HbWriteIdle(v)
    BY <2>2 DEF HbWriteIdle, HbSleep, mainVars
  <2>3. CASE HbWriteBusy(v)
    BY <2>3 DEF HbWriteBusy, mainVars
  <2>4. CASE HbRenew(v)
    BY <2>4 DEF HbRenew, HbSleep, mainVars
  <2>5. QED
    BY <1>5, <2>1, <2>2, <2>3, <2>4 DEF HeartbeatStep
<1>6. ASSUME NEW v \in Worker, WorkerCrash(v) \/ EmergencyExit(v) PROVE FALSE
  BY <1>6 DEF WorkerCrash, EmergencyExit, Die, redisVars
<1>7. ASSUME Tick \/ Hang PROVE FALSE
  BY <1>7 DEF Tick, Hang, PassTick, mainVars
<1>8. ASSUME NEW t \in Session,
             Create(t) \/ Enqueue(t) \/ RecRead(t) \/ KillRead(t)
      PROVE  UNCHANGED <<pc, regCur, hbCur>>
  BY <1>8 DEF Create, Enqueue, RecRead, KillRead, redisVars, workerVars
<1>9. ASSUME RecWake \/ RecAlive \/ RecOrphan \/ RecRequeue \/ RecPush
             \/ RecFail \/ RecSleep
      PROVE  UNCHANGED <<pc, regCur, hbCur>>
  BY <1>9 DEF RecWake, RecAlive, RecOrphan, RecRequeue, RecPush, RecFail,
     RecSleep, redisVars, workerVars
<1>10. ASSUME KillStart \/ KillWrite \/ KillClearQueue \/ KillSetFlag \/ ApiCrash
              \/ UNCHANGED vars
       PROVE  UNCHANGED <<pc, regCur, hbCur>>
  BY <1>10 DEF KillStart, KillWrite, KillClearQueue, KillSetFlag, ApiCrash,
     redisVars, workerVars, vars
<1>11. QED
  BY <1>1, <1>2, <1>3, <1>4, <1>5, <1>6, <1>7, <1>8, <1>9, <1>10
     DEF Next, MainStep, RecoveryStep, KillStep

\* The holder's step after that is the one that makes it the assigned worker.
LEMMA AssignNext ==
    ASSUME TypeInv, [Next]_vars, NEW w \in Worker, pc[w] = "assign", Live(w)'
    PROVE  Assign(w) \/ (UNCHANGED <<pc[w], job[w]>> /\ \A v \in Worker : ~Assign(v))
           \/ \E v \in Worker \ {w} : Assign(v) /\ UNCHANGED <<pc[w], job[w]>>
<1> USE DEF Live, TypeInv, TypeOK, Goto
<1>1. CASE \E v \in Worker : Assign(v)
  BY ZenonT(30), <1>1 DEF Assign
<1>2. ASSUME NEW v \in Worker, MainStep(v), ~Assign(v) PROVE UNCHANGED <<pc[w], job[w]>>
  BY <1>2 DEF MainStep, Pop, TakeLock, SkipLocked, MarkBusy, Begin, Finish,
     JobRaises, Unlock, MarkIdle
<1>3. ASSUME NEW v \in Worker, Start(v) PROVE UNCHANGED <<pc[w], job[w]>>
  BY <1>3 DEF Start
<1>4. ASSUME NEW v \in Worker, HeartbeatStep(v) PROVE UNCHANGED <<pc[w], job[w]>>
  BY <1>4 DEF HeartbeatStep, HbRead, HbWriteIdle, HbWriteBusy, HbRenew, mainVars
<1>5. ASSUME NEW v \in Worker, WorkerCrash(v) \/ EmergencyExit(v)
      PROVE  UNCHANGED <<pc[w], job[w]>>
  BY <1>5 DEF WorkerCrash, EmergencyExit, Die
<1>6. ASSUME NEW s \in Session, Create(s) \/ Enqueue(s) \/ RecRead(s) \/ KillRead(s)
      PROVE  UNCHANGED <<pc[w], job[w]>>
  BY <1>6 DEF Create, Enqueue, RecRead, KillRead, workerVars
<1>7. ASSUME RecWake \/ RecAlive \/ RecOrphan \/ RecRequeue \/ RecPush
             \/ RecFail \/ RecSleep
      PROVE  UNCHANGED <<pc[w], job[w]>>
  BY <1>7 DEF RecWake, RecAlive, RecOrphan, RecRequeue, RecPush, RecFail,
     RecSleep, workerVars
<1>8. ASSUME KillStart \/ KillWrite \/ KillClearQueue \/ KillSetFlag \/ ApiCrash
             \/ Tick \/ Hang \/ UNCHANGED vars
      PROVE  UNCHANGED <<pc[w], job[w]>>
  BY <1>8 DEF KillStart, KillWrite, KillClearQueue, KillSetFlag, ApiCrash,
     Tick, Hang, PassTick, mainVars, workerVars, vars
<1>9. QED
  BY <1>1, <1>2, <1>3, <1>4, <1>5, <1>6, <1>7, <1>8
     DEF Next, MainStep, RecoveryStep, KillStep

\* A registry entry names its worker's session.
LEMMA RegistryStep == IInv /\ [Next]_vars => RegistryInv'
<1> SUFFICES ASSUME IInv, [Next]_vars, Sound' \subseteq Sound,
                    Sound \subseteq Session, NEW w \in Worker, NEW s \in Sound',
                    Noted(w, s)'
             PROVE  (Holds(w, s)' /\ pc'[w] = "assign") \/ assignee'[s] = w
  BY SoundShrinks DEF RegistryInv, Claims
<1> s \in Sound /\ s \in Session
  OBVIOUS
<1> USE DispatchAssumption DEF IInv
<1>1. CASE ~Noted(w, s)
  <2>1. MarkBusy(w) /\ job[w] = s
    BY <1>1, NotedStep
  <2>2. QED
    BY <2>1 DEF MarkBusy, Goto, Holds, TypeInv, TypeOK
<1>2. CASE Noted(w, s)
  <2>1. \A v \in Worker :
           Assign(v) => /\ assignee' = [assignee EXCEPT ![job[v]] = v]
                        /\ job[v] \in Session /\ Holds(v, job[v])
                        /\ job[v] \in Sound => assignee[job[v]] = NoWorker
    BY DEF Assign, Holds, TypeInv, PointerInv, Holding, Unassigned, HolderInv
  <2>2. CASE Holds(w, s) /\ pc[w] = "assign"
    <3>1. Live(w)'
      BY DEF Noted
    <3>2. CASE Assign(w)
      BY <2>1, <2>2, <3>2 DEF Holds, TypeInv, TypeOK
    <3>3. CASE UNCHANGED <<pc[w], job[w]>>
      BY <2>2, <3>3 DEF Holds
    <3>4. QED
      BY <2>2, <3>1, <3>2, <3>3, AssignNext
  <2>3. CASE assignee[s] = w
    <3>1. ASSUME NEW v \in Worker, Assign(v) PROVE assignee'[s] = w
      BY <2>1, <2>3, <3>1 DEF TypeInv, TypeOK
    <3>2. CASE RecRequeue
      BY <1>2, <2>3, <3>2 DEF RecRequeue, RecoveryInv, StillStands, TypeInv, TypeOK
    <3>3. CASE UNCHANGED assignee
      BY <2>3, <3>3
    <3>4. QED
      BY <3>1, <3>2, <3>3, PlaceCases
         DEF Calm, Create, Enqueue, Pop, RecPush, KillClearQueue, ApiCrash,
             redisVars
  <2>4. QED
    BY <1>2, <2>2, <2>3 DEF RegistryInv, Claims
<1>3. QED
  BY <1>1, <1>2

-----------------------------------------------------------------------------
\* What recovery has read stays true until it writes.
LEMMA RecoveryInvStep == IInv /\ [Next]_vars => RecoveryInv'
<1> SUFFICES ASSUME IInv, [Next]_vars, Sound' \subseteq Sound, Sound \subseteq Session,
                    recSession' \in Sound'
             PROVE  StillStands'
  BY SoundShrinks DEF RecoveryInv, StillStands
<1> USE DispatchAssumption DEF IInv
<1>1. CASE RecWake \/ RecSleep \/ ApiCrash \/ RecAlive \/ RecPush \/ RecFail
  BY <1>1 DEF RecWake, RecSleep, ApiCrash, RecAlive, RecPush, RecFail, RecNext,
     RecoveryInv, StillStands, NoLiveSessionRecovered
<1>2. ASSUME NEW s \in Session, RecRead(s) PROVE StillStands'
  BY <1>2 DEF RecRead, redisVars, Active, Recoverable, Lost, RecoveryInv, StillStands,
     NoLiveSessionRecovered, TypeInv, TypeOK
<1>3. CASE RecOrphan
  <2>1. /\ UNCHANGED <<redisVars, workerVars, creating, recSession, recOwner>>
        /\ recPc' \in {"requeue", "fail"}
        /\ recOwner \in Worker /\ recSession \in Sound
        /\ assignee[recSession] = recOwner
        /\ status[recSession] # "absent"
        /\ regTtl[recOwner] = 0
    BY <1>3 DEF RecOrphan, RecoveryInv, StillStands, TypeInv, PointerInv
  <2>2. ~Live(recOwner)
    BY <2>1, KeyIsThere DEF Claims, TypeInv, TypeOK
  <2>3. ~Holds(recOwner, recSession)
    BY <2>2 DEF Holds, Live
  <2>4. \A w \in Worker : ~Holds(w, recSession)
    BY <2>1, <2>3 DEF HolderInv, Holds, Unassigned, Assigned
  <2>5. \A w \in Worker : ~Noted(w, recSession)
    BY <2>1, <2>2, <2>4 DEF RegistryInv, Claims, Noted
  <2>6. QED
    BY <2>1, <2>4, <2>5 DEF RecoveryInv, StillStands, NoLiveSessionRecovered, redisVars,
       workerVars, Holds, Noted, Live
<1>4. CASE RecRequeue
  <2>1. /\ UNCHANGED <<queue, creating, pc, job, recSession>>
        /\ status' = [status EXCEPT ![recSession] = "queued"]
        /\ assignee' = [assignee EXCEPT ![recSession] = NoWorker]
        /\ recPc = "requeue" /\ recPc' = "push"
        /\ recSession \in Session /\ recSession \in Sound
    BY <1>4 DEF RecRequeue, workerVars, TypeInv, PointerInv
  <2>2. ~InQueue(recSession) /\ recSession \notin creating
    BY <2>1 DEF RecoveryInv, StillStands, QueueInv, CreateInv
  <2>3. QED
    BY <2>1, <2>2 DEF RecoveryInv, StillStands, NoLiveSessionRecovered, InQueue, Holds,
       TypeInv, TypeOK
<1>5. ASSUME UNCHANGED <<recPc, recSession, recOwner>>,
             recPc \in {"requeue?", "fail?", "requeue", "push", "fail"} =>
                /\ UNCHANGED assignee[recSession]
                /\ status'[recSession] = "absent" => status[recSession] = "absent"
                /\ InQueue(recSession)' => InQueue(recSession)
                /\ recSession \in creating' => recSession \in creating
                /\ \A w \in Worker : Holds(w, recSession)' => Holds(w, recSession)
      PROVE  StillStands'
  <2>1. recPc = "requeue" => \A w \in Worker : ~Noted(w, recSession)'
    <3>1. SUFFICES ASSUME recPc = "requeue", NEW w \in Worker, Noted(w, recSession)'
                   PROVE  FALSE
      OBVIOUS
    <3>2. ~Noted(w, recSession) /\ ~Holds(w, recSession) /\ recSession \in Session
      BY <1>5, <3>1 DEF RecoveryInv, StillStands, NoLiveSessionRecovered, TypeInv, PointerInv
    <3>3. \A s \in Session : Noted(w, s)' /\ ~Noted(w, s) => Holds(w, s)
      BY NotedStep DEF MarkBusy, Holds
    <3>4. QED
      BY <1>5, <3>1, <3>2, <3>3 DEF Noted
  <2>2. QED
    BY <1>5, <2>1 DEF RecoveryInv, StillStands, NoLiveSessionRecovered, InQueue, Holds, Noted, Live
<1>6. CASE UNCHANGED recVars
  <2>1. UNCHANGED <<recPc, recSession, recOwner>> /\ recSession \in Sound
    BY <1>6 DEF recVars
  <2>2. /\ recPc \in {"requeue?", "fail?", "requeue", "push", "fail"} =>
              /\ recSession \in Session
              /\ status[recSession] # "absent"
              /\ recSession \in creating => assignee[recSession] = NoWorker
        /\ recPc \in {"requeue?", "fail?", "requeue", "fail"} =>
              assignee[recSession] # NoWorker
        /\ recPc = "push" =>
              ~InQueue(recSession) /\ recSession \notin creating
    BY <2>1 DEF RecoveryInv, StillStands, CreateInv, TypeInv, PointerInv
  <2>3. CASE Calm
    BY <2>1, <2>2, <2>3, <1>5 DEF Calm, InQueue
  <2>4. ASSUME NEW s \in Session, Create(s) PROVE StillStands'
    <3>1. /\ UNCHANGED <<queue, assignee, pc, job>>
          /\ status[s] = "absent"
          /\ status' = [status EXCEPT ![s] = "queued"]
          /\ creating' = creating \cup {s}
      BY <2>4 DEF Create, workerVars
    <3>2. QED
      BY <2>1, <2>2, <3>1, <1>5 DEF InQueue, Holds, TypeInv, TypeOK
  <2>5. ASSUME NEW s \in Session, Enqueue(s) PROVE StillStands'
    <3>1. /\ UNCHANGED <<status, assignee, pc, job>>
          /\ s \in creating /\ (s \in Sound => assignee[s] = NoWorker)
          /\ creating' = creating \ {s}
          /\ queue' = Append(queue, s)
      BY <2>5 DEF Enqueue, workerVars, CreateInv
    <3>2. recPc \in {"requeue?", "fail?", "requeue", "push", "fail"} => s # recSession
      BY <2>2, <3>1
    <3>3. \A t \in Session : t # s /\ InQueue(t)' => InQueue(t)
      BY <3>1, AppendLemma DEF InQueue, TypeInv, TypeOK
    <3>4. QED
      BY <2>1, <2>2, <3>1, <3>2, <3>3, <1>5 DEF Holds
  <2>6. ASSUME NEW w \in Worker, Pop(w) PROVE StillStands'
    <3>1. /\ UNCHANGED <<status, assignee, creating>>
          /\ queue # <<>> /\ queue' = Tail(queue)
          /\ job' = [job EXCEPT ![w] = Head(queue)]
          /\ pc' = [pc EXCEPT ![w] = "lock"]
      BY <2>6 DEF Pop, Goto, apiVars
    <3>2. /\ Head(queue) \in Session /\ InQueue(Head(queue))
          /\ \A s \in Session : InQueue(s)' => InQueue(s)
      <4>1. queue \in Seq(Session)
        BY DEF TypeInv, TypeOK
      <4>2. Head(queue) \in Session /\ InQueue(Head(queue))
        BY <3>1, <4>1, TailLemma DEF InQueue
      <4>3. ASSUME NEW s \in Session, InQueue(s)' PROVE InQueue(s)
        BY <3>1, <4>1, <4>3, TailLemma DEF InQueue
      <4>4. QED
        BY <4>2, <4>3
    <3>3. recPc \in {"requeue?", "fail?", "requeue", "push", "fail"} =>
             recSession # Head(queue)
      BY <2>1, <2>2, <3>2 DEF QueueInv
    <3>4. \A v \in Worker, s \in Session :
             Holds(v, s)' => Holds(v, s) \/ s = Head(queue)
      BY <3>1 DEF Holds, TypeInv, TypeOK
    <3>5. QED
      BY <2>1, <2>2, <3>1, <3>2, <3>3, <3>4, <1>5
  <2>7. ASSUME NEW w \in Worker, Assign(w) PROVE StillStands'
    <3>1. /\ UNCHANGED <<queue, creating, job>>
          /\ status' = [status EXCEPT ![job[w]] = "assigned"]
          /\ assignee' = [assignee EXCEPT ![job[w]] = w]
          /\ pc' = [pc EXCEPT ![w] = "begin"]
          /\ pc[w] = "assign"
      BY <2>7 DEF Assign, Goto, apiVars
    <3>2. /\ job[w] \in Session /\ Holds(w, job[w])
          /\ job[w] \in Sound => assignee[job[w]] = NoWorker
      BY <3>1 DEF Holds, TypeInv, PointerInv, Holding, Unassigned, HolderInv
    <3>3. recPc \in {"requeue?", "fail?", "requeue", "push", "fail"} =>
             recSession # job[w]
      BY <2>1, <2>2, <3>2 DEF RecoveryInv, StillStands, NoLiveSessionRecovered
    <3>4. \A v \in Worker, s \in Session : Holds(v, s)' => Holds(v, s)
      BY <3>1 DEF Holds, TypeInv, TypeOK
    <3>5. QED
      BY <2>1, <2>2, <3>1, <3>2, <3>3, <3>4, <1>5 DEF InQueue, TypeInv, TypeOK
  <2>8. CASE KillClearQueue
    BY <2>1, <2>2, <2>8, <1>5 DEF KillClearQueue, workerVars, InQueue, Holds
  <2>9. QED
    BY <1>1, <1>4, <2>3, <2>4, <2>5, <2>6, <2>7, <2>8, PlaceCases
<1>7. ASSUME NEW s \in Session, Create(s) \/ Enqueue(s) \/ KillRead(s)
      PROVE  UNCHANGED recVars
  BY <1>7 DEF Create, Enqueue, KillRead
<1>8. ASSUME NEW w \in Worker,
             \/ Start(w) \/ MainStep(w) \/ HeartbeatStep(w)
             \/ WorkerCrash(w) \/ EmergencyExit(w)
      PROVE  UNCHANGED recVars
  BY <1>8 DEF Start, MainStep, Pop, TakeLock, SkipLocked, MarkBusy, Assign,
     Begin, Finish, JobRaises, Unlock, MarkIdle, HeartbeatStep, HbRead,
     HbWriteIdle, HbWriteBusy, HbRenew, WorkerCrash, EmergencyExit, apiVars
<1>9. ASSUME KillStart \/ KillWrite \/ KillClearQueue \/ KillSetFlag
             \/ UNCHANGED vars
      PROVE  UNCHANGED recVars
  BY <1>9 DEF KillStart, KillWrite, KillClearQueue, KillSetFlag, vars, apiVars
<1>10. CASE Tick \/ Hang
  BY <1>10 DEF Tick, Hang, PassTick, RecoveryInv, StillStands, NoLiveSessionRecovered
<1>11. QED
  BY <1>1, <1>2, <1>3, <1>4, <1>6, <1>7, <1>8, <1>9, <1>10
     DEF Next, RecoveryStep, KillStep

-----------------------------------------------------------------------------
\* Nobody but its owner, or nobody at all, has a lock a worker relies on.
LEMMA LockStep == IInv /\ [Next]_vars => LockOwnership'
<1> SUFFICES ASSUME IInv, [Next]_vars, Sound' \subseteq Sound, Sound \subseteq Session PROVE LockOwnership'
  BY SoundShrinks
<1> DEFINE past == {"busy", "assign", "begin", "work", "unlock"}
<1> USE DispatchAssumption DEF IInv, LockOwnership
<1>1. ASSUME UNCHANGED <<lockTtl, lockOwner>>,
             \A w \in Worker : pc'[w] \in past => pc[w] \in past /\ job'[w] = job[w]
      PROVE  LockOwnership'
  BY <1>1
<1>2. ASSUME NEW w \in Worker, TakeLock(w) PROVE LockOwnership'
  <2>1. /\ lockTtl' = [lockTtl EXCEPT ![job[w]] = LockTTL]
        /\ lockOwner' = [lockOwner EXCEPT ![job[w]] = w]
        /\ pc' = [pc EXCEPT ![w] = "busy"]
        /\ UNCHANGED job
        /\ Holds(w, job[w]) /\ job[w] \in Session
    BY <1>2 DEF TakeLock, Goto, Holds, TypeInv, PointerInv, Holding, Unassigned
  <2>2. job[w] \in Sound => \A v \in Worker : pc[v] \in past /\ v # w => job[v] # job[w]
    BY <2>1 DEF OneHolder, Holds
  <2>3. QED
    BY <2>1, <2>2 DEF TypeInv, TypeOK, PointerInv, Holding, Unassigned, Assigned
<1>3. ASSUME NEW w \in Worker, Unlock(w) PROVE LockOwnership'
  BY <1>3 DEF Unlock, Goto, TypeInv, TypeOK, PointerInv, Holding, Unassigned,
     Assigned
<1>4. ASSUME NEW w \in Worker, HbRenew(w) PROVE LockOwnership'
  <2>1. /\ UNCHANGED <<pc, job>>
        /\ hbPc[w] = "renew" /\ hbCur[w] \in Session
        /\ lockTtl[hbCur[w]] > 0 =>
              /\ lockTtl' = [lockTtl EXCEPT ![hbCur[w]] = LockTTL]
              /\ lockOwner' = [lockOwner EXCEPT ![hbCur[w]] = w]
        /\ ~(lockTtl[hbCur[w]] > 0) => UNCHANGED <<lockTtl, lockOwner>>
    BY <1>4 DEF HbRenew, mainVars, TypeInv, PointerInv
  <2>2. Noted(w, hbCur[w])
    BY <2>1 DEF Noted, KeyInv, BeatInv
  <2>3. hbCur[w] \in Sound => \A v \in Worker : pc[v] \in past /\ job[v] = hbCur[w] => v = w
    BY <2>1, <2>2 DEF RegistryInv, Claims, OneHolder, HolderInv, Holds, Unassigned, Assigned
  <2>4. QED
    BY ZenonT(30), <2>1, <2>3 DEF TypeInv, TypeOK, PointerInv, Holding, Unassigned, Assigned
<1>5. CASE Tick \/ Hang
  <2>1. /\ UNCHANGED <<pc, job>>
        /\ \A s \in Session : lockTtl'[s] = 0 \/ lockOwner'[s] = lockOwner[s]
        /\ \A s \in Session : lockTtl[s] = 0 => lockTtl'[s] = 0
    <3>1. lockTtl \in [Session -> 0..LockTTL]
      BY DEF TypeInv, TypeOK
    <3>2. /\ UNCHANGED <<pc, job>>
          /\ \A s \in Session :
                /\ lockTtl'[s] = IF lockTtl[s] = 0 THEN 0 ELSE lockTtl[s] - 1
                /\ lockTtl[s] > 1 => lockOwner'[s] = lockOwner[s]
      BY <1>5 DEF Tick, Hang, PassTick, Dec, mainVars
    <3>3. QED
      BY <3>1, <3>2
  <2>2. QED
    BY <2>1 DEF TypeInv, PointerInv, Holding, Unassigned, Assigned
<1>6. ASSUME NEW w \in Worker,
             \/ Start(w) \/ Pop(w) \/ SkipLocked(w) \/ MarkBusy(w) \/ Assign(w)
             \/ Begin(w) \/ Finish(w) \/ JobRaises(w) \/ MarkIdle(w)
             \/ WorkerCrash(w) \/ EmergencyExit(w)
      PROVE  LockOwnership'
  BY SMTT(30), <1>1, <1>6 DEF Start, Pop, SkipLocked, MarkBusy, Assign, Begin, Finish,
     JobRaises, MarkIdle, WorkerCrash, EmergencyExit, Die, Goto, redisVars,
     TypeInv, TypeOK
<1>7. ASSUME UNCHANGED <<lockTtl, lockOwner, pc, job>> PROVE LockOwnership'
  BY <1>7
<1>8. ASSUME NEW w \in Worker, HbRead(w) \/ HbWriteIdle(w) \/ HbWriteBusy(w)
      PROVE  LockOwnership'
  BY <1>7, <1>8 DEF HbRead, HbWriteIdle, HbWriteBusy, mainVars, redisVars
<1>9. ASSUME NEW s \in Session, Create(s) \/ Enqueue(s) \/ RecRead(s) \/ KillRead(s)
      PROVE  LockOwnership'
  BY <1>7, <1>9 DEF Create, Enqueue, RecRead, KillRead, redisVars, workerVars
<1>10. ASSUME RecWake \/ RecAlive \/ RecOrphan \/ RecRequeue \/ RecPush
              \/ RecFail \/ RecSleep
       PROVE  LockOwnership'
  BY <1>7, <1>10 DEF RecWake, RecAlive, RecOrphan, RecRequeue, RecPush, RecFail,
     RecSleep, redisVars, workerVars
<1>11. ASSUME KillStart \/ KillWrite \/ KillClearQueue \/ KillSetFlag \/ ApiCrash
              \/ UNCHANGED vars
       PROVE  LockOwnership'
  BY <1>7, <1>11 DEF KillStart, KillWrite, KillClearQueue, KillSetFlag, ApiCrash,
     redisVars, workerVars, vars
<1>12. QED
  BY <1>2, <1>3, <1>4, <1>5, <1>6, <1>8, <1>9, <1>10, <1>11
     DEF Next, MainStep, HeartbeatStep, RecoveryStep, KillStep

-----------------------------------------------------------------------------
\* The inductive invariant.
THEOREM Inductive == Spec => []IInv
<1>1. Init => IInv
  <2> SUFFICES ASSUME Init PROVE IInv
    OBVIOUS
  <2>1. TypeInv
    BY DispatchAssumption DEF Init, TypeInv, TypeOK, PointerInv, Holding,
       Unassigned, Assigned, Status, MainLabel
  <2>2. KeyInv /\ QueueInv /\ CreateInv /\ HolderInv /\ RegistryInv /\ RecoveryInv
    BY DEF Init, KeyInv, BeatInv, Claims, Sound, Live, QueueInv, InQueue, CreateInv, HolderInv,
       RegistryInv, Noted, RecoveryInv, StillStands, NoLiveSessionRecovered, Holds
  <2>3. OneHolder /\ LockOwnership
    BY DEF Init, OneHolder, LockOwnership, Holds
  <2>4. QED
    BY <2>1, <2>2, <2>3 DEF IInv
<1>2. IInv /\ [Next]_vars => IInv'
  BY TypeStep, KeyStep, QueueStep, CreateStep, HolderStep, RegistryStep,
     RecoveryInvStep, OneHolderStep, LockStep DEF IInv
<1>3. QED
  BY <1>1, <1>2, PTL DEF Spec

\* A session that no hanging worker had is in the hands of one worker at most.
THEOREM OneHolderAlways == Spec => []OneHolder
<1>1. IInv => OneHolder
  BY DEF IInv
<1>2. QED
  BY <1>1, Inductive, PTL

\* Recovery never takes a session from the worker that has it, unless the event
\* loop of a worker that had it stood still over a tick.
THEOREM RecoverySafe == Spec => []NoLiveSessionRecovered
<1>1. IInv => NoLiveSessionRecovered
  BY DEF IInv, RecoveryInv, StillStands, NoLiveSessionRecovered
<1>2. QED
  BY <1>1, Inductive, PTL

\* No DELETE or renewal hits a lock that another worker relies on, with the same
\* exception.
THEOREM LockIsOwn == Spec => []LockOwnership
<1>1. IInv => LockOwnership
  BY DEF IInv
<1>2. QED
  BY <1>1, Inductive, PTL

-----------------------------------------------------------------------------
(* A job that has begun.  RecRead chooses between requeueing a session and *)
(* failing it, three awaits before the write, so a job could begin between *)
(* the two.                                                                *)

\* A begun job has an owner, and a session that recovery found recoverable
\* and its worker dead, or is requeueing, has not begun.
BegunInv ==
    /\ \A s \in Sound : status[s] \in Lost => assignee[s] # NoWorker
    /\ recSession \in Sound =>
          /\ recPc = "requeue?" /\ regTtl[recOwner] = 0 => status[recSession] \notin Lost
          /\ recPc = "requeue" => status[recSession] \notin Lost

\* The steps that write a session's status or its assigned_worker.
Writes ==
    \/ \E s \in Session : Create(s)
    \/ \E w \in Worker : Assign(w) \/ Begin(w) \/ Finish(w)
    \/ RecRequeue \/ RecFail \/ KillWrite

\* Every other step leaves both as they are.
LEMMA WritesCases ==
    [Next]_vars => Writes \/ UNCHANGED <<status, assignee>>
<1> SUFFICES ASSUME [Next]_vars, ~Writes PROVE UNCHANGED <<status, assignee>>
  OBVIOUS
<1> USE DEF redisVars
<1>1. ASSUME NEW s \in Session, Enqueue(s) \/ RecRead(s) \/ KillRead(s)
      PROVE  UNCHANGED <<status, assignee>>
  BY <1>1 DEF Enqueue, RecRead, KillRead
<1>2. ASSUME NEW w \in Worker, MainStep(w), ~Assign(w), ~Begin(w), ~Finish(w)
      PROVE  UNCHANGED <<status, assignee>>
  BY <1>2 DEF MainStep, Pop, TakeLock, SkipLocked, MarkBusy, JobRaises, Unlock,
     MarkIdle
<1>3. ASSUME NEW w \in Worker, Start(w) \/ HeartbeatStep(w)
      PROVE  UNCHANGED <<status, assignee>>
  BY <1>3 DEF Start, HeartbeatStep, HbRead, HbWriteIdle, HbWriteBusy, HbRenew
<1>4. ASSUME NEW w \in Worker, WorkerCrash(w) \/ EmergencyExit(w)
      PROVE  UNCHANGED <<status, assignee>>
  BY <1>4 DEF WorkerCrash, EmergencyExit
<1>5. ASSUME RecWake \/ RecAlive \/ RecOrphan \/ RecPush \/ RecSleep
      PROVE  UNCHANGED <<status, assignee>>
  BY <1>5 DEF RecWake, RecAlive, RecOrphan, RecPush, RecSleep
<1>6. ASSUME KillStart \/ KillClearQueue \/ KillSetFlag \/ ApiCrash \/ Tick
             \/ Hang \/ UNCHANGED vars
      PROVE  UNCHANGED <<status, assignee>>
  BY <1>6 DEF KillStart, KillClearQueue, KillSetFlag, ApiCrash, Tick, Hang,
     PassTick, vars
<1>7. QED
  BY <1>1, <1>2, <1>3, <1>4, <1>5, <1>6
     DEF Writes, Next, MainStep, RecoveryStep, KillStep

\* Whose session each of them writes.
LEMMA WritersOwn ==
    ASSUME IInv, NEW w \in Worker
    PROVE  /\ Assign(w) => /\ job[w] \in Session
                           /\ job[w] \in Sound => assignee[job[w]] = NoWorker
           /\ Begin(w) \/ Finish(w) =>
                 /\ job[w] \in Session /\ Live(w)
                 /\ job[w] \in Sound => assignee[job[w]] = w
BY DEF IInv, TypeInv, PointerInv, Holding, Assign, Begin, Finish, HolderInv,
   Holds, Unassigned, Assigned, Live

\* A begun session is failed or ended by others, requeued by nobody.
LEMMA BegunNext ==
    ASSUME IInv, BegunInv, [Next]_vars, NEW s \in Sound, status[s] \in Lost
    PROVE  \/ status'[s] = status[s] /\ assignee'[s] = assignee[s]
           \/ status'[s] \in Terminal
<1> s \in Session
  BY SoundShrinks
<1> USE DEF IInv, TypeInv, TypeOK, Lost
<1>1. ASSUME NEW r \in Session, Create(r)
      PROVE  status'[s] = status[s] /\ assignee'[s] = assignee[s]
  BY <1>1 DEF Create
<1>2. ASSUME NEW w \in Worker, Assign(w)
      PROVE  status'[s] = status[s] /\ assignee'[s] = assignee[s]
  <2>1. job[w] # s
    BY <1>2, WritersOwn DEF BegunInv
  <2>2. QED
    BY <1>2, <2>1 DEF Assign
<1>3. ASSUME NEW w \in Worker, Begin(w)
      PROVE  status'[s] = status[s] /\ assignee'[s] = assignee[s]
  BY <1>3, WritersOwn DEF Begin
<1>4. ASSUME NEW w \in Worker, Finish(w)
      PROVE  \/ status'[s] = status[s] /\ assignee'[s] = assignee[s]
             \/ status'[s] \in Terminal
  BY <1>4, WritersOwn DEF Finish, Terminal
<1>5. ASSUME RecRequeue
      PROVE  status'[s] = status[s] /\ assignee'[s] = assignee[s]
  BY <1>5 DEF RecRequeue, BegunInv
<1>6. ASSUME RecFail \/ KillWrite
      PROVE  \/ status'[s] = status[s] /\ assignee'[s] = assignee[s]
             \/ status'[s] \in Terminal
  BY <1>6 DEF RecFail, KillWrite, Terminal
<1>7. QED
  BY <1>1, <1>2, <1>3, <1>4, <1>5, <1>6, WritesCases DEF Writes

\* A session begins only in its owner's hands.
LEMMA BeginsNext ==
    ASSUME IInv, [Next]_vars, NEW s \in Sound, status[s] \notin Lost,
           status'[s] \in Lost
    PROVE  \E w \in Worker : Begin(w) /\ job[w] = s
<1> s \in Session
  BY SoundShrinks
<1> USE DEF IInv, TypeInv, TypeOK, Lost
<1>1. ASSUME NEW r \in Session, Create(r) PROVE FALSE
  BY <1>1 DEF Create
<1>2. ASSUME NEW w \in Worker, Assign(w) PROVE FALSE
  BY <1>2, WritersOwn DEF Assign
<1>3. ASSUME NEW w \in Worker, Begin(w) PROVE job[w] = s
  BY <1>3, WritersOwn DEF Begin
<1>4. ASSUME NEW w \in Worker, Finish(w) PROVE FALSE
  BY <1>4, WritersOwn DEF Finish
<1>5. ASSUME RecRequeue \/ RecFail \/ KillWrite PROVE FALSE
  BY <1>5 DEF RecRequeue, RecFail, KillWrite
<1>6. QED
  BY <1>1, <1>2, <1>3, <1>4, <1>5, WritesCases DEF Writes

\* The job of a session in recovery's hands does not begin, for its owner is
\* dead, or alive with a key that the EXISTS will find.
LEMMA BegunStep == IInv /\ BegunInv /\ [Next]_vars => BegunInv'
<1> SUFFICES ASSUME IInv, BegunInv, [Next]_vars, Sound' \subseteq Sound, Sound \subseteq Session
             PROVE  BegunInv'
  BY SoundShrinks
<1> USE DispatchAssumption DEF IInv, TypeInv, TypeOK
<1>1. ASSUME NEW s \in Sound, status'[s] \in Lost
      PROVE  assignee'[s] # NoWorker
  <2>1. CASE status[s] \in Lost
    BY <1>1, <2>1, BegunNext DEF BegunInv, Lost, Terminal
  <2>2. CASE status[s] \notin Lost
    <3>1. PICK w \in Worker : Begin(w) /\ job[w] = s
      BY <1>1, <2>2, BeginsNext
    <3>2. QED
      BY <3>1, WritersOwn DEF Begin
  <2>3. QED
    BY <2>1, <2>2
<1>2. ASSUME recPc' = "requeue?" \/ recPc' = "requeue"
      PROVE  \/ recPc = recPc' /\ recSession' = recSession /\ recOwner' = recOwner
             \/ \E s \in Session : RecRead(s) /\ recPc' = "requeue?"
             \/ RecOrphan /\ recPc = "requeue?" /\ recPc' = "requeue"
  <2> USE DEF recVars, apiVars
  <2>1. ASSUME NEW s \in Session, Create(s) \/ Enqueue(s) \/ KillRead(s)
        PROVE  UNCHANGED recVars
    BY <2>1 DEF Create, Enqueue, KillRead
  <2>2. ASSUME NEW w \in Worker, Start(w) \/ MainStep(w)
        PROVE  UNCHANGED recVars
    BY <2>2 DEF Start, MainStep, Pop, TakeLock, SkipLocked, MarkBusy, Assign,
       Begin, Finish, JobRaises, Unlock, MarkIdle
  <2>3. ASSUME NEW w \in Worker, HeartbeatStep(w) PROVE UNCHANGED recVars
    BY <2>3 DEF HeartbeatStep, HbRead, HbWriteIdle, HbWriteBusy, HbRenew
  <2>4. ASSUME NEW w \in Worker, WorkerCrash(w) \/ EmergencyExit(w)
        PROVE  UNCHANGED recVars
    BY <2>4 DEF WorkerCrash, EmergencyExit
  <2>5. ASSUME KillStart \/ KillWrite \/ KillClearQueue \/ KillSetFlag
               \/ UNCHANGED vars
        PROVE  UNCHANGED recVars
    BY <2>5 DEF KillStart, KillWrite, KillClearQueue, KillSetFlag, vars
  <2>6. ~RecWake /\ ~RecAlive /\ ~RecRequeue /\ ~RecPush /\ ~RecFail /\ ~RecSleep
        /\ ~ApiCrash /\ ~Tick /\ ~Hang
    BY <1>2 DEF RecWake, RecAlive, RecRequeue, RecPush, RecFail, RecSleep,
       RecNext, ApiCrash, Tick, Hang, PassTick
  <2>7. ASSUME NEW s \in Session, RecRead(s)
        PROVE  recPc' = "requeue?"
    BY <1>2, <2>7 DEF RecRead
  <2>8. ASSUME RecOrphan PROVE recPc = "requeue?" /\ recPc' = "requeue"
    BY <1>2, <2>8 DEF RecOrphan
  <2>9. QED
    BY <2>1, <2>2, <2>3, <2>4, <2>5, <2>6, <2>7, <2>8
       DEF Next, RecoveryStep, KillStep
<1>3. ASSUME NEW s \in Session, RecRead(s), recPc' = "requeue?"
      PROVE  status'[recSession'] \notin Lost
  BY <1>3 DEF RecRead, redisVars, Active, Recoverable, Lost
<1>4. CASE RecOrphan /\ recPc = "requeue?" /\ recPc' = "requeue"
  BY <1>1, <1>4 DEF RecOrphan, redisVars, BegunInv
<1>5. CASE recPc = "requeue?" /\ recPc' = recPc /\ recSession' = recSession
           /\ recOwner' = recOwner
  <2>1. SUFFICES ASSUME recSession \in Sound, regTtl'[recOwner] = 0,
                        status'[recSession] \in Lost
                 PROVE  FALSE
    BY <1>1, <1>5 DEF BegunInv
  <2>2. /\ recSession \in Session /\ recOwner \in Worker
        /\ assignee[recSession] = recOwner
    BY <1>5, <2>1 DEF PointerInv, RecoveryInv, StillStands
  <2>3. CASE status[recSession] \notin Lost
    <3>1. PICK w \in Worker : Begin(w) /\ job[w] = recSession
      BY <2>1, <2>2, <2>3, BeginsNext
    <3>2. w = recOwner /\ Live(w) /\ regTtl'[w] = regTtl[w]
      BY <2>1, <2>2, <3>1, WritersOwn DEF Begin
    <3>3. regTtl[w] > 0
      BY <2>1, <2>2, <3>2, KeyIsThere DEF Claims
    <3>4. QED
      BY <2>1, <3>2, <3>3
  <2>4. CASE status[recSession] \in Lost
    <3>1. regTtl[recOwner] # 0
      BY <1>5, <2>1, <2>4 DEF BegunInv
    <3>2. \A w \in Worker : WorkerTTL # 0 /\ (regTtl[w] # 0 => regTtl'[w] # 0)
      <4>1. ~Tick /\ ~Hang
        BY <1>5 DEF Tick, Hang, PassTick
      <4>2. WorkerTTL # 0
        OBVIOUS
      <4>3. CASE UNCHANGED regTtl
        BY <4>2, <4>3
      <4>4. CASE \E w \in Worker : regTtl' = [regTtl EXCEPT ![w] = WorkerTTL]
        BY <4>2, <4>4
      <4>5. UNCHANGED regTtl
            \/ \E w \in Worker : regTtl' = [regTtl EXCEPT ![w] = WorkerTTL]
        <5> USE DEF redisVars, SetReg
        <5>1. ASSUME NEW w \in Worker, Start(w) \/ MainStep(w)
              PROVE  UNCHANGED regTtl \/ regTtl' = [regTtl EXCEPT ![w] = WorkerTTL]
          BY <5>1 DEF Start, MainStep, Pop, TakeLock, SkipLocked, MarkBusy,
             Assign, Begin, Finish, JobRaises, Unlock, MarkIdle
        <5>2. ASSUME NEW w \in Worker, HeartbeatStep(w)
              PROVE  UNCHANGED regTtl \/ regTtl' = [regTtl EXCEPT ![w] = WorkerTTL]
          BY <5>2 DEF HeartbeatStep, HbRead, HbWriteIdle, HbWriteBusy, HbRenew
        <5>3. ASSUME NEW w \in Worker, WorkerCrash(w) \/ EmergencyExit(w)
              PROVE  UNCHANGED regTtl
          BY <5>3 DEF WorkerCrash, EmergencyExit
        <5>4. ASSUME NEW s \in Session,
                     Create(s) \/ Enqueue(s) \/ RecRead(s) \/ KillRead(s)
              PROVE  UNCHANGED regTtl
          BY <5>4 DEF Create, Enqueue, RecRead, KillRead
        <5>5. ASSUME RecWake \/ RecAlive \/ RecOrphan \/ RecRequeue \/ RecPush
                     \/ RecFail \/ RecSleep
              PROVE  UNCHANGED regTtl
          BY <5>5 DEF RecWake, RecAlive, RecOrphan, RecRequeue, RecPush,
             RecFail, RecSleep
        <5>6. ASSUME KillStart \/ KillWrite \/ KillClearQueue \/ KillSetFlag
                     \/ ApiCrash \/ UNCHANGED vars
              PROVE  UNCHANGED regTtl
          BY <5>6 DEF KillStart, KillWrite, KillClearQueue, KillSetFlag,
             ApiCrash, vars
        <5>7. QED
          BY <4>1, <5>1, <5>2, <5>3, <5>4, <5>5, <5>6
             DEF Next, RecoveryStep, KillStep
      <4>6. QED
        BY <4>3, <4>4, <4>5
    <3>3. QED
      BY <2>1, <2>2, <3>1, <3>2
  <2>5. QED
    BY <2>3, <2>4
<1>6. CASE recPc = "requeue" /\ recPc' = recPc /\ recSession' = recSession
           /\ recOwner' = recOwner
  <2>1. SUFFICES ASSUME recSession \in Sound, status'[recSession] \in Lost
                 PROVE  FALSE
    BY <1>1, <1>6 DEF BegunInv
  <2>2. recSession \in Session /\ status[recSession] \notin Lost
    BY <1>6, <2>1 DEF PointerInv, BegunInv
  <2>3. PICK w \in Worker : Begin(w) /\ job[w] = recSession
    BY <2>1, <2>2, BeginsNext
  <2>4. Holds(w, recSession)
    BY <2>3 DEF Begin, Holds
  <2>5. QED
    BY <1>6, <2>1, <2>4 DEF RecoveryInv, StillStands, NoLiveSessionRecovered
<1>7. QED
  BY <1>1, <1>2, <1>3, <1>4, <1>5, <1>6 DEF BegunInv

\* Both invariants hold of every state.
LEMMA BegunAlways == Spec => [](IInv /\ BegunInv)
<1>1. Init => BegunInv
  BY DEF Init, BegunInv, Lost, Sound
<1>2. QED
  BY <1>1, Inductive, BegunStep, PTL DEF Spec

\* "running | waiting_for_user -> mark failed (browser state lost)": once a job
\* has begun its session is never queued or assigned again, although recovery
\* decides to requeue on a status it read three awaits earlier, unless its
\* worker hung.
THEOREM BegunIsNotRequeued ==
    Spec => [][\A s \in Sound :
                  status[s] \in Lost => status'[s] \in Lost \cup Terminal]_vars
<1>1. IInv /\ BegunInv /\ [Next]_vars =>
         [\A s \in Sound :
             status[s] \in Lost => status'[s] \in Lost \cup Terminal]_vars
  BY BegunNext
<1>2. QED
  BY <1>1, BegunAlways, PTL DEF Spec

\* Safety half of OrphanRunEnds: the session of a worker that died while running
\* it stays that dead worker's until its status is terminal or a worker of the
\* id registers, so nothing but recovery, or a kill-all, can settle it.
THEOREM OrphanStays ==
    Spec => [][\A s \in Sound, w \in Worker :
                  status[s] \in Lost /\ assignee[s] = w /\ pc[w] = "down" =>
                     \/ (status[s] \in Lost /\ assignee[s] = w /\ pc[w] = "down")'
                     \/ status'[s] \in Terminal
                     \/ pc'[w] # "down"]_vars
<1>1. IInv /\ BegunInv /\ [Next]_vars =>
         [\A s \in Sound, w \in Worker :
             status[s] \in Lost /\ assignee[s] = w /\ pc[w] = "down" =>
                \/ (status[s] \in Lost /\ assignee[s] = w /\ pc[w] = "down")'
                \/ status'[s] \in Terminal
                \/ pc'[w] # "down"]_vars
  BY BegunNext
<1>2. QED
  BY <1>1, BegunAlways, PTL DEF Spec
=============================================================================
