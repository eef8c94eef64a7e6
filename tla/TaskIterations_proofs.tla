----------------------- MODULE TaskIterations_proofs -----------------------
(***************************************************************************)
(* The iterations of a task for any number of POSTs, of sessions at work   *)
(* and of calls of the cancel and resume routes: their numbers are         *)
(* distinct, an earlier iteration is told to stop, and a cancel finds the  *)
(* latest one.                                                             *)
(***************************************************************************)
EXTENDS TaskIterations, FiniteSetTheorems, TLAPS

Pointer == {"idle", "prepare", "refused", "keys", "sweep", "flag",
            "flagWaiting", "unblock", "create", "push", "done"}
Numbered(p) == ppc[p] \in Pointer \ {"idle", "prepare", "refused"}

TypeInv ==
    /\ counter \in Nat /\ expiries \in Nat /\ queue \in Seq(Post)
    /\ status \in [Post -> Status] /\ flag \in [Post -> BOOLEAN]
    /\ iter \in [Post -> Nat] /\ num \in [Post -> Nat] /\ life \in [Post -> Nat]
    /\ ppc \in [Post -> Pointer] /\ parallel \in SUBSET Post

\* A session exists once its POST has written the hash; the queue holds each
\* session at most once, and none that a worker has had.
QueueInv ==
    /\ \A p \in Post : Exists(p) <=> ppc[p] \in {"push", "done"}
    /\ \A p \in Post : ppc[p] = "push" => status[p] = "queued"
    /\ \A i \in DOMAIN queue : /\ status[queue[i]] = "queued"
                               /\ ppc[queue[i]] = "done"
    /\ \A i, j \in DOMAIN queue : i # j => queue[i] # queue[j]

\* Between two expiries of the counter INCR gives each POST a number of its own,
\* and the session carries it.
NumberInv ==
    /\ \A p \in Post : life[p] <= expiries
    /\ \A p \in Post : Numbered(p) /\ life[p] = expiries => num[p] <= counter
    /\ \A p, q \in Post : p # q /\ Numbered(p) /\ Numbered(q) =>
          num[p] # num[q] \/ life[p] # life[q]
    /\ \A p \in Post : Exists(p) => iter[p] = num[p]

SessionInv == TypeInv /\ QueueInv /\ NumberInv

\* The head leaves the queue, and no other session does.
LEMMA TailFacts ==
    ASSUME NEW S, NEW s \in Seq(S), s # <<>>
    PROVE  /\ Tail(s) \in Seq(S) /\ Head(s) = s[1] /\ 1 \in DOMAIN s /\ Head(s) \in S
           /\ \A i \in DOMAIN Tail(s) : i + 1 \in DOMAIN s /\ Tail(s)[i] = s[i + 1]
                                        /\ i # 0
  OBVIOUS

\* A pushed session comes last.
LEMMA AppendFacts ==
    ASSUME NEW S, NEW s \in Seq(S), NEW e \in S
    PROVE  /\ Append(s, e) \in Seq(S)
           /\ \A i \in DOMAIN Append(s, e) :
                 \/ i \in DOMAIN s /\ Append(s, e)[i] = s[i]
                 \/ i = Len(s) + 1 /\ Append(s, e)[i] = e
  OBVIOUS

\* At the start no POST has come and nothing exists.
LEMMA SessionInit == Init => SessionInv
<1> SUFFICES ASSUME Init PROVE SessionInv
  OBVIOUS
<1>1. TypeInv
  BY DEF Init, TypeInv, Pointer, Status, Terminal, NonTerminal
<1>2. \A p \in Post : ~Exists(p) /\ ~Numbered(p) /\ ppc[p] = "idle"
  BY DEF Init, Exists, Numbered
<1>3. queue = <<>> /\ expiries = 0 /\ \A p \in Post : life[p] = 0
  BY DEF Init
<1>4. QueueInv
  BY <1>2, <1>3 DEF QueueInv
<1>5. NumberInv
  BY <1>2, <1>3 DEF NumberInv
<1> QED
  BY <1>1, <1>4, <1>5 DEF SessionInv

\* What a POST does to the sessions.
LEMMA SessionPost ==
    ASSUME SessionInv, NEW p \in Post, Arrive(p) \/ PostStep(p)
    PROVE  /\ SessionInv'
           /\ \A s \in Post : flag[s] => flag'[s]
           /\ \A s \in Post : Exists(s) => /\ status'[s] = status[s]
                                           /\ iter'[s] = iter[s]
<1> USE DEF SessionInv, TypeInv, QueueInv, NumberInv, Exists, Numbered, Pointer,
            sessionVars, intakeVars, numberVars, callerVars
<1>1. CASE Arrive(p) \/ PrepareFails(p)
  <2>1. \E v \in {"prepare", "refused"} : ppc' = [ppc EXCEPT ![p] = v]
    BY <1>1 DEF Arrive, PrepareFails
  <2>2. ppc[p] \in {"idle", "prepare"}
    BY <1>1 DEF Arrive, PrepareFails
  <2>3. UNCHANGED <<queue, status, iter, flag, numberVars, intakeVars>>
    BY <1>1 DEF Arrive, PrepareFails
  <2> QED
    BY <2>1, <2>2, <2>3
<1>2. CASE Number(p)
  <2>1. /\ ppc[p] = "prepare" /\ counter' = counter + 1
        /\ num' = [num EXCEPT ![p] = counter + 1]
        /\ life' = [life EXCEPT ![p] = expiries]
        /\ parallel' \in {parallel, parallel \cup {p}}
        /\ \E v \in {"create", "keys"} : ppc' = [ppc EXCEPT ![p] = v]
    BY <1>2 DEF Number
  <2>2. UNCHANGED <<queue, status, iter, flag, expiries>>
    BY <1>2 DEF Number
  <2>3. /\ num'[p] = counter + 1 /\ counter' \in Nat /\ num' \in [Post -> Nat]
        /\ life'[p] = expiries /\ life' \in [Post -> Nat]
    BY <2>1
  <2>4. \A q \in Post \ {p} : num'[q] = num[q] /\ ppc'[q] = ppc[q] /\ life'[q] = life[q]
    BY <2>1
  <2>5. TypeInv' /\ QueueInv'
    BY <2>1, <2>2, <2>3
  <2>6. \A q \in Post : Exists(q) => q # p
    BY <2>1
  <2>7. NumberInv'
    BY <2>1, <2>2, <2>3, <2>4, <2>6
  <2> QED
    BY <2>2, <2>5, <2>7
<1>3. CASE \/ Keys(p) \/ SweepFlag(p) \/ SweepUnblock(p)
           \/ \E s \in Post : SweepRead(p, s)
  <2>1. /\ ppc[p] \in {"keys", "sweep", "flag", "flagWaiting", "unblock"}
        /\ \E v \in {"sweep", "flag", "flagWaiting", "unblock"} :
              ppc' = [ppc EXCEPT ![p] = v]
    <3>1. CASE Keys(p) \/ SweepFlag(p) \/ SweepUnblock(p)
      BY <3>1 DEF Keys, SweepFlag, SweepUnblock
    <3>2. ASSUME NEW s \in Post, SweepRead(p, s)
          PROVE  /\ ppc[p] = "sweep"
                 /\ \E v \in {"sweep", "flag", "flagWaiting"} :
                       ppc' = [ppc EXCEPT ![p] = v]
      BY <3>2 DEF SweepRead
    <3> QED
      BY <1>3, <3>1, <3>2
  <2>2. UNCHANGED <<queue, status, iter, numberVars, intakeVars>>
    BY <1>3 DEF Keys, SweepFlag, SweepUnblock, SweepRead
  <2>3. \/ UNCHANGED flag
        \/ flag' = [s \in Post |-> flag[s] \/ s \in cur[p]]
    BY <1>3 DEF Keys, SweepFlag, SweepUnblock, SweepRead
  <2>4. flag' \in [Post -> BOOLEAN] /\ \A s \in Post : flag[s] => flag'[s]
    <3>1. CASE UNCHANGED flag
      BY <3>1
    <3>2. CASE flag' = [s \in Post |-> flag[s] \/ s \in cur[p]]
      <4>1. \A s \in Post : (flag[s] \/ s \in cur[p]) \in BOOLEAN
        OBVIOUS
      <4> QED
        BY <3>2, <4>1, Zenon
    <3> QED
      BY <2>3, <3>1, <3>2
  <2>5. ppc' \in [Post -> Pointer]
    BY <2>1
  <2>6. \A q \in Post : /\ ppc'[q] = "push" <=> ppc[q] = "push"
                        /\ ppc'[q] = "done" <=> ppc[q] = "done"
                        /\ Numbered(q)' <=> Numbered(q)
    BY <2>1
  <2>7. QueueInv' /\ NumberInv' /\ TypeInv'
    <3>1. TypeInv'
      BY <2>2, <2>4, <2>5
    <3>2. QueueInv'
      BY <2>2, <2>6
    <3>3. NumberInv'
      BY <2>2, <2>6
    <3> QED
      BY <3>1, <3>2, <3>3
  <2> QED
    BY <2>2, <2>4, <2>7
<1>5. CASE Create(p)
  BY <1>5 DEF Create, Status, NonTerminal
<1>6. CASE Push(p)
  <2>1. /\ queue' = Append(queue, p) /\ ppc[p] = "push"
        /\ ppc' = [ppc EXCEPT ![p] = "done"]
        /\ UNCHANGED <<status, flag, iter, numberVars, intakeVars>>
    BY <1>6 DEF Push
  <2>2. /\ queue' \in Seq(Post)
        /\ \A i \in DOMAIN queue' : \/ i \in DOMAIN queue /\ queue'[i] = queue[i]
                                    \/ i = Len(queue) + 1 /\ queue'[i] = p
    BY <2>1, AppendFacts
  <2>3. \A i \in DOMAIN queue : queue[i] # p
    BY <2>1
  <2>4. /\ ppc'[p] = "done" /\ \A q \in Post \ {p} : ppc'[q] = ppc[q]
        /\ \A q \in Post : Numbered(q)' <=> Numbered(q)
    BY <2>1
  <2>5. TypeInv'
    BY <2>1, <2>2
  <2>6. QueueInv'
    <3>1. \A q \in Post : /\ Exists(q)' <=> ppc'[q] \in {"push", "done"}
                          /\ ppc'[q] = "push" => status'[q] = "queued"
      BY <2>1, <2>4
    <3>2. \A i \in DOMAIN queue' : /\ status'[queue'[i]] = "queued"
                                   /\ ppc'[queue'[i]] = "done"
      BY <2>1, <2>2, <2>4
    <3>3. \A i, j \in DOMAIN queue' : i # j => queue'[i] # queue'[j]
      <4> SUFFICES ASSUME NEW i \in DOMAIN queue', NEW j \in DOMAIN queue', i # j
                   PROVE  queue'[i] # queue'[j]
        OBVIOUS
      <4>1. /\ \/ i \in DOMAIN queue /\ queue'[i] = queue[i]
               \/ i = Len(queue) + 1 /\ queue'[i] = p
            /\ \/ j \in DOMAIN queue /\ queue'[j] = queue[j]
               \/ j = Len(queue) + 1 /\ queue'[j] = p
        BY <2>2
      <4>2. i \in DOMAIN queue /\ j \in DOMAIN queue => queue[i] # queue[j]
        OBVIOUS
      <4> QED
        BY <2>3, <4>1, <4>2
    <3> QED
      BY <3>1, <3>2, <3>3
  <2>7. NumberInv'
    BY <2>1, <2>4
  <2> QED
    BY <2>1, <2>5, <2>6, <2>7
<1> QED
  BY <1>1, <1>2, <1>3, <1>5, <1>6 DEF PostStep

\* What workers and callers do to them: a session that is over stays over.
LEMMA SessionOther ==
    ASSUME SessionInv,
           \/ CounterExpires \/ Pop \/ SkipLocked
           \/ \E s \in Post : WorkerStep(s) \/ CrashStep(s)
           \/ \E c \in Caller : CallerStep(c)
           \/ UNCHANGED vars
    PROVE  /\ SessionInv'
           /\ \A s \in Post : flag[s] => flag'[s]
           /\ \A s \in Post : Exists(s) =>
                 /\ Exists(s)' /\ iter'[s] = iter[s]
                 /\ Over(s) => Over(s)'
<1> USE DEF SessionInv, sessionVars, intakeVars, numberVars, postVars, callerVars, Status,
            NonTerminal, Terminal, SetStatus, End
<1>1. ASSUME UNCHANGED <<intakeVars, ppc, numberVars>>, flag' \in [Post -> BOOLEAN],
             queue' \in Seq(Post), status' \in [Post -> Status], UNCHANGED iter,
             QueueInv', \A s \in Post : flag[s] => flag'[s],
             \A s \in Post : (Exists(s)' <=> Exists(s)) /\ (Over(s) => Over(s)')
      PROVE  /\ SessionInv'
             /\ \A s \in Post : flag[s] => flag'[s]
             /\ \A s \in Post : Exists(s) =>
                   /\ Exists(s)' /\ iter'[s] = iter[s]
                   /\ Over(s) => Over(s)'
  <2>1. TypeInv'
    BY <1>1 DEF TypeInv
  <2>2. NumberInv'
    BY <1>1 DEF NumberInv, Numbered
  <2> QED
    BY <1>1, <2>1, <2>2
<1> HIDE DEF SessionInv
<1>2. /\ queue \in Seq(Post) /\ status \in [Post -> Status] /\ flag \in [Post -> BOOLEAN]
      /\ QueueInv
  BY DEF SessionInv, TypeInv
<1>3. CASE Pop \/ SkipLocked
  <2>1. /\ queue # <<>> /\ queue' = Tail(queue)
        /\ status' \in {status, [status EXCEPT ![Head(queue)] = "assigned"]}
        /\ UNCHANGED <<iter, flag, intakeVars, ppc, numberVars>>
    BY <1>3 DEF Pop, SkipLocked
  <2>2. /\ Tail(queue) \in Seq(Post) /\ Head(queue) \in Post
        /\ status[Head(queue)] = "queued" /\ ppc[Head(queue)] = "done"
        /\ \A i \in DOMAIN Tail(queue) :
              i + 1 \in DOMAIN queue /\ Tail(queue)[i] = queue[i + 1]
        /\ \A i \in DOMAIN Tail(queue) : Tail(queue)[i] # Head(queue)
    BY <1>2, <2>1, TailFacts DEF QueueInv
  <2>3. status' \in [Post -> Status] /\ \A s \in Post \ {Head(queue)} : status'[s] = status[s]
    BY <1>2, <2>1, <2>2
  <2>4. status'[Head(queue)] \in {"queued", "assigned"}
    BY <1>2, <2>1, <2>2
  <2>5. \A s \in Post : (Exists(s)' <=> Exists(s)) /\ (Over(s) => Over(s)')
    BY <2>2, <2>3, <2>4 DEF Exists, Over
  <2>6. \A i \in DOMAIN queue' : queue'[i] \in Post \ {Head(queue)}
    BY <2>1, <2>2
  <2>7. \A i \in DOMAIN queue' : status'[queue'[i]] = "queued" /\ ppc'[queue'[i]] = "done"
    BY <1>2, <2>1, <2>2, <2>3, <2>6 DEF QueueInv
  <2>8. \A i, j \in DOMAIN queue' : i # j => queue'[i] # queue'[j]
    <3> TAKE i, j \in DOMAIN queue'
    <3> HAVE i # j
    <3>1. i \in Int /\ j \in Int
      BY <2>1, <2>2
    <3> QED
      BY <1>2, <2>1, <2>2, <3>1 DEF QueueInv
  <2>9. \A p \in Post : ppc[p] = "push" => status'[p] = "queued"
    BY <1>2, <2>2, <2>3 DEF QueueInv
  <2>10. QueueInv'
    BY <1>2, <2>1, <2>5, <2>7, <2>8, <2>9 DEF QueueInv
  <2> QED
    BY <1>1, <1>2, <2>1, <2>2, <2>3, <2>5, <2>10
<1>4. ASSUME NEW s \in Post, status[s] \in {"assigned", "running", "waiting_for_user"},
             NEW v \in Status \ {"none"}, status' = [status EXCEPT ![s] = v],
             UNCHANGED ppc, NEW q \in Seq(Post), q = queue
      PROVE  /\ status' \in [Post -> Status]
             /\ \A t \in Post : (Exists(t)' <=> Exists(t)) /\ (Over(t) => Over(t)')
             /\ \A i \in DOMAIN q : q[i] # s /\ status'[q[i]] = "queued"
             /\ \A p \in Post : ppc[p] = "push" => status'[p] = "queued"
             /\ queue' = queue => QueueInv'
  <2>1. /\ status' \in [Post -> Status] /\ status'[s] = v
        /\ \A t \in Post \ {s} : status'[t] = status[t]
    BY <1>2, <1>4
  <2>2. \A t \in Post : (Exists(t)' <=> Exists(t)) /\ (Over(t) => Over(t)')
    BY <1>4, <2>1 DEF Exists, Over
  <2>3. \A i \in DOMAIN q : q[i] \in Post /\ q[i] # s /\ status'[q[i]] = "queued"
    BY <1>2, <1>4, <2>1 DEF QueueInv
  <2>4. \A p \in Post : ppc[p] = "push" => status'[p] = "queued"
    BY <1>2, <1>4, <2>1 DEF QueueInv
  <2>5. queue' = queue => QueueInv'
    BY <1>2, <1>4, <2>2, <2>3, <2>4 DEF QueueInv
  <2> QED
    BY <2>1, <2>2, <2>3, <2>4, <2>5
<1>5. ASSUME NEW s \in Post, WorkerStep(s) \/ WorkerDies(s) \/ Lost(s)
      PROVE  /\ SessionInv'
             /\ \A t \in Post : flag[t] => flag'[t]
             /\ \A t \in Post : Exists(t) =>
                   /\ Exists(t)' /\ iter'[t] = iter[t]
                   /\ Over(t) => Over(t)'
  <2>1. /\ \/ UNCHANGED status
           \/ /\ status[s] \in {"assigned", "running", "waiting_for_user"}
              /\ \E v \in Status \ {"none"} : status' = [status EXCEPT ![s] = v]
        /\ UNCHANGED <<queue, iter, flag, intakeVars, ppc, numberVars>>
    <3>1. CASE WorkerStep(s)
      BY <3>1 DEF WorkerStep, Start, Check, Step, Resumed, AskTimeout, Waits
    <3>2. CASE WorkerDies(s) \/ Lost(s)
      BY <3>2 DEF WorkerDies, Lost
    <3> QED
      BY <1>5, <3>1, <3>2
  <2>2. CASE UNCHANGED status
    <3>1. QueueInv' /\ \A t \in Post : (Exists(t)' <=> Exists(t)) /\ (Over(t) => Over(t)')
      BY <1>2, <2>1, <2>2 DEF QueueInv, Exists, Over
    <3> QED
      BY <1>1, <1>2, <2>1, <2>2, <3>1
  <2>3. CASE status' # status
    <3>1. PICK v \in Status \ {"none"} : status' = [status EXCEPT ![s] = v]
      BY <2>1, <2>3
    <3>2. /\ status' \in [Post -> Status] /\ QueueInv'
          /\ \A t \in Post : (Exists(t)' <=> Exists(t)) /\ (Over(t) => Over(t)')
      BY <1>2, <1>4, <2>1, <2>3, <3>1
    <3> QED
      BY <1>1, <1>2, <2>1, <3>2
  <2> QED
    BY <2>2, <2>3
<1>6. ASSUME NEW s \in Post, Requeue(s)
      PROVE  /\ SessionInv'
             /\ \A t \in Post : flag[t] => flag'[t]
             /\ \A t \in Post : Exists(t) =>
                   /\ Exists(t)' /\ iter'[t] = iter[t]
                   /\ Over(t) => Over(t)'
  <2>1. /\ queue' = Append(queue, s) /\ status[s] = "assigned"
        /\ status' = [status EXCEPT ![s] = "queued"]
        /\ UNCHANGED <<iter, flag, intakeVars, ppc, numberVars>>
    BY <1>6 DEF Requeue
  <2>2. /\ status' \in [Post -> Status] /\ status'[s] = "queued"
        /\ \A t \in Post : (Exists(t)' <=> Exists(t)) /\ (Over(t) => Over(t)')
        /\ \A i \in DOMAIN queue : queue[i] # s /\ status'[queue[i]] = "queued"
        /\ \A p \in Post : ppc[p] = "push" => status'[p] = "queued"
    BY <1>2, <1>4, <2>1
  <2>3. /\ queue' \in Seq(Post)
        /\ \A i \in DOMAIN queue' : \/ i \in DOMAIN queue /\ queue'[i] = queue[i]
                                    \/ i = Len(queue) + 1 /\ queue'[i] = s
    BY <1>2, <2>1, AppendFacts
  <2>4. \A i, j \in DOMAIN queue' : i # j => queue'[i] # queue'[j]
    <3> SUFFICES ASSUME NEW i \in DOMAIN queue', NEW j \in DOMAIN queue', i # j
                 PROVE  queue'[i] # queue'[j]
      OBVIOUS
    <3>1. /\ \/ i \in DOMAIN queue /\ queue'[i] = queue[i]
             \/ i = Len(queue) + 1 /\ queue'[i] = s
          /\ \/ j \in DOMAIN queue /\ queue'[j] = queue[j]
             \/ j = Len(queue) + 1 /\ queue'[j] = s
      BY <2>3
    <3>2. i \in DOMAIN queue /\ j \in DOMAIN queue => queue[i] # queue[j]
      BY <1>2 DEF QueueInv
    <3> QED
      BY <2>2, <3>1, <3>2
  <2>5. ppc[s] = "done"
    BY <1>2, <2>1 DEF QueueInv, Exists
  <2>6. \A i \in DOMAIN queue' : status'[queue'[i]] = "queued" /\ ppc'[queue'[i]] = "done"
    BY <1>2, <2>1, <2>2, <2>3, <2>5 DEF QueueInv
  <2>7. QueueInv'
    BY <1>2, <2>1, <2>2, <2>4, <2>6 DEF QueueInv
  <2> QED
    BY <1>1, <1>2, <2>1, <2>2, <2>3, <2>7
<1>7. ASSUME UNCHANGED <<queue, status, iter, intakeVars, ppc, numberVars>>,
             flag' \in [Post -> BOOLEAN], \A s \in Post : flag[s] => flag'[s]
      PROVE  /\ SessionInv'
             /\ \A t \in Post : Exists(t) =>
                   /\ Exists(t)' /\ iter'[t] = iter[t]
                   /\ Over(t) => Over(t)'
  <2>1. QueueInv' /\ \A t \in Post : (Exists(t)' <=> Exists(t)) /\ (Over(t) => Over(t)')
    BY <1>2, <1>7 DEF QueueInv, Exists, Over
  <2> QED
    BY <1>1, <1>2, <1>7, <2>1
<1>8. ASSUME NEW c \in Caller, CallerStep(c)
      PROVE  /\ UNCHANGED <<queue, status, iter, intakeVars, ppc, numberVars>>
             /\ flag' \in [Post -> BOOLEAN]
             /\ \A s \in Post : flag[s] => flag'[s]
  <2>1. \/ UNCHANGED flag
        \/ \E s \in Post : flag' = [flag EXCEPT ![s] = TRUE]
    BY <1>8 DEF CallerStep, Call, CallDecide, CallReturn, CallRead, CallFlag,
                CallUnblock, CallAnswer
  <2>2. UNCHANGED <<queue, status, iter, intakeVars, ppc, numberVars>>
    BY <1>8 DEF CallerStep, Call, CallDecide, CallReturn, CallRead, CallFlag,
                CallUnblock, CallAnswer
  <2> QED
    BY <1>2, <2>1, <2>2
<1>9. CASE UNCHANGED vars
  <2>1. UNCHANGED <<queue, status, iter, intakeVars, ppc, numberVars, flag>>
    BY <1>9 DEF vars
  <2> QED
    BY <1>2, <1>7, <2>1
<1>10. CASE CounterExpires
  <2>1. /\ expiries' = expiries + 1 /\ counter' = 0
        /\ UNCHANGED <<queue, status, iter, flag, parallel, ppc, numberVars>>
    BY <1>10 DEF CounterExpires
  <2>2. \A t \in Post : (Exists(t)' <=> Exists(t)) /\ (Over(t)' <=> Over(t))
    BY <2>1 DEF Exists, Over
  <2>3. TypeInv' /\ QueueInv'
    BY <2>1, <2>2 DEF SessionInv, TypeInv, QueueInv
  <2>4. NumberInv'
    BY <2>1, <2>2 DEF SessionInv, TypeInv, NumberInv, Numbered
  <2> QED
    BY <2>1, <2>2, <2>3, <2>4 DEF SessionInv
<1>11. CASE \E c \in Caller : CallerStep(c)
  BY <1>7, <1>8, <1>11
<1> QED
  BY <1>3, <1>5, <1>6, <1>9, <1>10, <1>11 DEF CrashStep

\* Throughout, the sessions are as QueueInv and NumberInv say.
LEMMA SessionStep == SessionInv /\ [Next]_vars => SessionInv'
  BY SessionPost, SessionOther DEF Next

\* Of create_session and _next_iteration: however the POSTs overlap, two
\* iterations of a task share a number only across an expiry of the counter.
THEOREM IterationsAreUnique == Spec => []UniqueIteration
<1>1. SessionInv => UniqueIteration
  BY DEF SessionInv, QueueInv, NumberInv, UniqueIteration, Numbered, Pointer
<1> QED
  BY <1>1, SessionInit, SessionStep, PTL DEF Spec

-----------------------------------------------------------------------------
\* A session that is to stop, or has.
Told(s) == flag[s] \/ Over(s)

\* Nobody takes back a flag or a verdict, or renumbers a session.
LEMMA ToldStays ==
    ASSUME SessionInv, [Next]_vars
    PROVE  /\ SessionInv'
           /\ \A s \in Post : Exists(s) =>
                 Exists(s)' /\ iter'[s] = iter[s] /\ (Told(s) => Told(s)')
<1>1. ASSUME NEW p \in Post, Arrive(p) \/ PostStep(p)
      PROVE  /\ SessionInv'
             /\ \A s \in Post : Exists(s) =>
                   Exists(s)' /\ iter'[s] = iter[s] /\ (Told(s) => Told(s)')
  BY <1>1, SessionPost DEF Told, Over, Exists
<1>2. CASE ~(\E p \in Post : Arrive(p) \/ PostStep(p))
  <2>1. \/ CounterExpires \/ Pop \/ SkipLocked
        \/ \E s \in Post : WorkerStep(s) \/ CrashStep(s)
        \/ \E c \in Caller : CallerStep(c)
        \/ UNCHANGED vars
    BY <1>2 DEF Next
  <2> QED
    BY <2>1, SessionOther DEF Told
<1> QED
  BY <1>1, <1>2

-----------------------------------------------------------------------------
(* The sweep of _cancel_prev_iterations: an iteration that was there before *)
(* the POST is still to be read, is the one in hand, or has been told.      *)

SweepInv ==
    /\ SessionInv
    /\ todo \in [Post -> SUBSET Post] /\ cur \in [Post -> SUBSET Post]
    /\ before \in [Post -> SUBSET Post]
    /\ \A q \in Post : ppc[q] = "create" => q \in parallel
    /\ \A q \in Post : \A p \in before[q] : Exists(p)
    /\ \A q \in Post \ parallel : \A p \in before[q] :
          /\ ppc[q] \in {"sweep", "unblock"} => p \in todo[q] \/ Told(p)
          /\ ppc[q] \in {"flag", "flagWaiting"} => p \in todo[q] \cup cur[q] \/ Told(p)
          /\ ppc[q] \in {"push", "done"} => Told(p)

\* No POST has begun at the start.
LEMMA SweepInit == Init => SweepInv
<1> SUFFICES ASSUME Init PROVE SweepInv
  OBVIOUS
<1>1. \A q \in Post : ppc[q] = "idle" /\ before[q] = {}
  BY DEF Init
<1>2. /\ todo \in [Post -> SUBSET Post] /\ cur \in [Post -> SUBSET Post]
      /\ before \in [Post -> SUBSET Post]
  BY DEF Init
<1> QED
  BY <1>1, <1>2, SessionInit DEF SweepInv

\* A step of the POST q's own.
LEMMA SweepOwn ==
    ASSUME SweepInv, NEW q \in Post, Arrive(q) \/ PostStep(q)
    PROVE  /\ todo' \in [Post -> SUBSET Post] /\ cur' \in [Post -> SUBSET Post]
           /\ before' \in [Post -> SUBSET Post]
           /\ \A r \in Post \ {q} : /\ ppc'[r] = ppc[r] /\ todo'[r] = todo[r]
                                    /\ cur'[r] = cur[r] /\ before'[r] = before[r]
                                    /\ r \in parallel' <=> r \in parallel
           /\ ppc'[q] = "create" => q \in parallel'
           /\ \A p \in before'[q] : Exists(p)
           /\ q \notin parallel' => \A p \in before'[q] :
                 /\ ppc'[q] \in {"sweep", "unblock"} => p \in todo'[q] \/ Told(p)'
                 /\ ppc'[q] \in {"flag", "flagWaiting"} =>
                       p \in todo'[q] \cup cur'[q] \/ Told(p)'
                 /\ ppc'[q] \in {"push", "done"} => Told(p)'
<1> USE DEF SweepInv, intakeVars, sessionVars, callerVars
<1>0. /\ ppc \in [Post -> Pointer] /\ status \in [Post -> Status]
      /\ \A p \in before[q] : Exists(p) /\ (Told(p) => Told(p)')
      /\ \A p \in Post : ppc[p] = "done" => Exists(p)
      /\ before[q] \in SUBSET Post
  <2>1. \A p \in Post : Exists(p) => (Told(p) => Told(p)')
    BY ToldStays DEF Next
  <2> QED
    BY <2>1 DEF SessionInv, TypeInv, QueueInv
<1>1. CASE Arrive(q)
  <2>1. /\ ppc' \in {[ppc EXCEPT ![q] = "refused"], [ppc EXCEPT ![q] = "prepare"]}
        /\ before' = [before EXCEPT ![q] = {p \in Post : ppc[p] = "done"}]
        /\ UNCHANGED <<todo, cur, parallel>>
    BY <1>1 DEF Arrive
  <2>2. ppc'[q] \in {"refused", "prepare"} /\ \A r \in Post \ {q} : ppc'[r] = ppc[r]
    BY <1>0, <2>1
  <2> QED
    BY <1>0, <2>1, <2>2
<1>2. CASE PrepareFails(q)
  BY <1>0, <1>2 DEF PrepareFails
<1>3. CASE Number(q)
  <2>1. /\ UNCHANGED <<todo, cur, before>>
        /\ \/ ppc' = [ppc EXCEPT ![q] = "keys"] /\ parallel' = parallel
           \/ ppc' = [ppc EXCEPT ![q] = "create"] /\ parallel' = parallel \cup {q}
    BY <1>3 DEF Number
  <2>2. /\ \A r \in Post \ {q} : ppc'[r] = ppc[r] /\ (r \in parallel' <=> r \in parallel)
        /\ ppc'[q] = "keys" \/ (ppc'[q] = "create" /\ q \in parallel')
    BY <1>0, <2>1
  <2> QED
    BY <1>0, <2>1, <2>2
<1>4. CASE Keys(q)
  <2>1. /\ todo' = [todo EXCEPT ![q] = {s \in Post : Exists(s)}]
        /\ ppc' = [ppc EXCEPT ![q] = "sweep"] /\ UNCHANGED <<cur, before, parallel>>
    BY <1>4 DEF Keys
  <2>2. todo'[q] = {s \in Post : Exists(s)} /\ ppc'[q] = "sweep"
    BY <1>0, <2>1
  <2> QED
    BY <1>0, <2>1, <2>2
<1>5. ASSUME NEW s \in Post, SweepRead(q, s)
      PROVE  /\ todo' \in [Post -> SUBSET Post] /\ cur' \in [Post -> SUBSET Post]
             /\ UNCHANGED <<before, parallel>>
             /\ \A r \in Post \ {q} : /\ ppc'[r] = ppc[r] /\ todo'[r] = todo[r]
                                      /\ cur'[r] = cur[r]
             /\ ppc'[q] \in {"sweep", "flag", "flagWaiting"}
             /\ q \notin parallel => \A p \in before[q] :
                   /\ ppc'[q] = "sweep" => p \in todo'[q] \/ Told(p)'
                   /\ ppc'[q] \in {"flag", "flagWaiting"} =>
                         p \in todo'[q] \cup cur'[q] \/ Told(p)'
  <2>1. /\ ppc[q] = "sweep" /\ todo' = [todo EXCEPT ![q] = todo[q] \ {s}]
        /\ UNCHANGED <<before, parallel>>
    BY <1>5 DEF SweepRead
  <2>2. todo'[q] = todo[q] \ {s} /\ todo' \in [Post -> SUBSET Post]
    BY <2>1
  <2>3. CASE status[s] \in NonTerminal
    <3>1. /\ cur' = [cur EXCEPT ![q] = {s}]
          /\ ppc' \in {[ppc EXCEPT ![q] = "flag"], [ppc EXCEPT ![q] = "flagWaiting"]}
      BY <1>5, <2>3 DEF SweepRead
    <3>2. /\ cur'[q] = {s} /\ ppc'[q] \in {"flag", "flagWaiting"}
          /\ \A r \in Post \ {q} : ppc'[r] = ppc[r]
      BY <1>0, <3>1
    <3> QED
      BY <1>0, <2>1, <2>2, <3>1, <3>2
  <2>4. CASE status[s] \notin NonTerminal
    <3>1. UNCHANGED <<cur, ppc>>
      BY <1>5, <2>4 DEF SweepRead
    <3>2. Exists(s) => Told(s)
      BY <1>0, <2>4 DEF Exists, Told, Over, Status
    <3> QED
      BY <1>0, <2>1, <2>2, <3>1, <3>2
  <2> QED
    BY <2>3, <2>4
<1>6. CASE SweepFlag(q)
  <2>1. /\ ppc[q] \in {"flag", "flagWaiting"}
        /\ ppc' \in {[ppc EXCEPT ![q] = "sweep"], [ppc EXCEPT ![q] = "unblock"]}
        /\ \A s \in Post : s \in cur[q] => flag'[s]
        /\ UNCHANGED <<todo, cur, before, parallel>>
    BY <1>6 DEF SweepFlag
  <2>2. ppc'[q] \in {"sweep", "unblock"} /\ \A r \in Post \ {q} : ppc'[r] = ppc[r]
    BY <1>0, <2>1
  <2> QED
    BY <1>0, <2>1, <2>2 DEF Told
<1>7. CASE SweepUnblock(q)
  BY <1>0, <1>7 DEF SweepUnblock
<1>8. CASE Create(q) \/ Push(q)
  <2>1. /\ UNCHANGED <<todo, before, parallel>>
        /\ cur' = cur \/ cur' = [cur EXCEPT ![q] = {}]
        /\ \/ /\ ppc[q] = "create" \/ (ppc[q] = "sweep" /\ todo[q] = {})
              /\ ppc' = [ppc EXCEPT ![q] = "push"]
           \/ ppc[q] = "push" /\ ppc' = [ppc EXCEPT ![q] = "done"]
    BY <1>8 DEF Create, Push
  <2>2. ppc'[q] \in {"push", "done"} /\ \A r \in Post \ {q} : ppc'[r] = ppc[r]
    BY <1>0, <2>1
  <2> QED
    BY <1>0, <2>1, <2>2
<1> QED
  BY <1>0, <1>1, <1>2, <1>3, <1>4, <1>5, <1>6, <1>7, <1>8 DEF PostStep

\* The sweeps stay so at every step.
LEMMA SweepStep == SweepInv /\ [Next]_vars => SweepInv'
<1> SUFFICES ASSUME SweepInv, [Next]_vars PROVE SweepInv'
  OBVIOUS
<1>1. /\ SessionInv' /\ SessionInv
      /\ \A q \in Post : \A p \in before[q] :
            p \in Post /\ Exists(p)' /\ (Told(p) => Told(p)')
  BY ToldStays DEF SweepInv
<1>2. \A s \in Post : Exists(s) => Exists(s)'
  BY ToldStays DEF SweepInv
<1>3. ASSUME NEW q \in Post, Arrive(q) \/ PostStep(q) PROVE SweepInv'
  <2>1. before'[q] \in SUBSET Post
    BY <1>3, SweepOwn
  <2>2. \A r \in Post : \A p \in before'[r] : Exists(p)'
    BY <1>1, <1>2, <1>3, <2>1, SweepOwn
  <2>3. \A r \in Post : ppc'[r] = "create" => r \in parallel'
    BY <1>3, SweepOwn DEF SweepInv
  <2>4. ASSUME NEW r \in Post \ parallel', NEW p \in before'[r]
        PROVE  /\ ppc'[r] \in {"sweep", "unblock"} => p \in todo'[r] \/ Told(p)'
               /\ ppc'[r] \in {"flag", "flagWaiting"} =>
                     p \in todo'[r] \cup cur'[r] \/ Told(p)'
               /\ ppc'[r] \in {"push", "done"} => Told(p)'
    <3>1. CASE r = q
      BY <1>3, <2>4, <3>1, SweepOwn
    <3>2. CASE r # q
      <4>1. /\ ppc'[r] = ppc[r] /\ todo'[r] = todo[r] /\ cur'[r] = cur[r]
            /\ before'[r] = before[r] /\ r \notin parallel
        BY <1>3, <2>4, <3>2, SweepOwn
      <4> QED
        BY <1>1, <2>4, <4>1 DEF SweepInv
    <3> QED
      BY <3>1, <3>2
  <2>5. /\ todo' \in [Post -> SUBSET Post] /\ cur' \in [Post -> SUBSET Post]
        /\ before' \in [Post -> SUBSET Post]
    BY <1>3, SweepOwn
  <2> QED
    BY <1>1, <2>2, <2>3, <2>4, <2>5 DEF SweepInv
<1>4. CASE UNCHANGED <<ppc, todo, cur, before, parallel>>
  BY <1>1, <1>4 DEF SweepInv
<1>5. ASSUME ~(\E q \in Post : Arrive(q) \/ PostStep(q))
      PROVE  UNCHANGED <<ppc, todo, cur, before, parallel>>
  <2>1. CASE CounterExpires \/ Pop \/ SkipLocked \/ UNCHANGED vars
    BY <2>1 DEF CounterExpires, Pop, SkipLocked, vars, postVars, intakeVars
  <2>2. ASSUME NEW s \in Post, WorkerStep(s) \/ CrashStep(s) PROVE UNCHANGED postVars
    BY <2>2 DEF WorkerStep, Start, Check, Step, Resumed, AskTimeout, CrashStep, WorkerDies,
                Requeue, Lost
  <2>3. ASSUME NEW c \in Caller, CallerStep(c) PROVE UNCHANGED postVars
    BY <2>3 DEF CallerStep, Call, CallDecide, CallReturn, CallRead, CallFlag,
                CallUnblock, CallAnswer
  <2> QED
    BY <1>5, <2>1, <2>2, <2>3 DEF Next, postVars, intakeVars
<1> QED
  BY <1>3, <1>4, <1>5

\* Of cancel_prev_iterations: when a POST that asks for it has created its
\* session, each iteration whose POST had returned before it began is over or
\* has its cancel flag set.
THEOREM EarlierIsTold == Spec => []EarlierIsCancelled
<1>1. SweepInv => EarlierIsCancelled
  BY DEF SweepInv, EarlierIsCancelled, Told
<1> QED
  BY <1>1, SweepInit, SweepStep, PTL DEF Spec

-----------------------------------------------------------------------------
(* The cancel route reads the sessions one by one: what it saw live may be  *)
(* over by now, and what it saw over stays so.  No other live session it    *)
(* saw has a higher number than the one it picked.                          *)

Cancelling(c) == cpc[c] \in {"act", "unblock", "returned"}

\* What the caller c has listed, seen and picked.
CallerInv(c) ==
    /\ \A s \in listed[c] : Exists(s)
    /\ cpc[c] = "idle" => \A s \in Post : seen[c][s] = NotRead
    /\ \A s \in Post : seen[c][s] \in NonTerminal => s \in listed[c]
    /\ cpc[c] = "read" =>
          /\ ctodo[c] \in SUBSET listed[c]
          /\ \A s \in listed[c] : s \in ctodo[c] \/ seen[c][s] \in NonTerminal \/ Over(s)
    /\ cpc[c] = "refused" => listed[c] = {}
    /\ Cancelling(c) /\ op[c] = "cancelAll" =>
          \A s \in listed[c] : s \in targets[c] \/ Told(s)
    /\ Cancelling(c) /\ op[c] = "cancel" =>
          \E t \in listed[c] :
             /\ t \in targets[c] \/ flag[t]
             /\ \A s \in listed[c] : s = t \/ Over(s) \/ iter[t] >= iter[s]
    /\ cpc[c] = "returned" => targets[c] = {}

CallTypes ==
    /\ cpc \in [Caller -> {"idle", "read", "act", "unblock", "refused", "returned"}]
    /\ op \in [Caller -> {"cancel", "cancelAll", "resume"}]
    /\ seen \in [Caller -> [Post -> Status \cup {NotRead}]]
    /\ ctodo \in [Caller -> SUBSET Post] /\ targets \in [Caller -> SUBSET Post]
    /\ listed \in [Caller -> SUBSET Post]

CallInv == SessionInv /\ CallTypes /\ \A c \in Caller : CallerInv(c)

\* No call has been made at the start.
LEMMA CallInit == Init => CallInv
<1> SUFFICES ASSUME Init PROVE CallInv
  OBVIOUS
<1>1. CallTypes
  BY DEF Init, CallTypes
<1>2. \A c \in Caller : /\ cpc[c] = "idle" /\ listed[c] = {}
                        /\ \A s \in Post : seen[c][s] = NotRead
  BY DEF Init
<1>3. NotRead \notin NonTerminal
  BY DEF NotRead, NonTerminal
<1>4. ASSUME NEW c \in Caller PROVE CallerInv(c)
  <2>1. cpc[c] = "idle" /\ listed[c] = {} /\ \A s \in Post : seen[c][s] = NotRead
    BY <1>2
  <2> QED
    BY <1>3, <2>1 DEF CallerInv, Cancelling
<1> QED
  BY <1>1, <1>4, SessionInit DEF CallInv

\* A caller that does nothing keeps what it knows, whoever else acts.
LEMMA CallerWaits ==
    ASSUME CallInv, [Next]_vars, NEW c \in Caller,
           cpc'[c] = cpc[c], op'[c] = op[c], seen'[c] = seen[c], ctodo'[c] = ctodo[c],
           targets'[c] = targets[c], listed'[c] = listed[c]
    PROVE  CallerInv(c)'
<1>1. \A s \in listed[c] : /\ s \in Post /\ Exists(s)' /\ iter'[s] = iter[s]
                           /\ Told(s) => Told(s)'
  BY ToldStays DEF CallInv, CallTypes, CallerInv
<1>2. \A s \in listed[c] : Over(s) => Over(s)'
  BY SessionPost, SessionOther DEF CallInv, CallTypes, CallerInv, Next, Over
<1>3. \A s \in listed[c] : flag[s] => flag'[s]
  BY SessionPost, SessionOther DEF CallInv, CallTypes, CallerInv, Next
<1>4. CallerInv(c) /\ (Cancelling(c)' <=> Cancelling(c))
  BY DEF CallInv, Cancelling
<1>5. ASSUME Cancelling(c), op[c] = "cancel"
      PROVE  \E t \in listed[c] :
                /\ t \in targets[c] \/ flag'[t]
                /\ \A s \in listed[c] : s = t \/ Over(s)' \/ iter'[t] >= iter'[s]
  <2>1. PICK t \in listed[c] :
                /\ t \in targets[c] \/ flag[t]
                /\ \A s \in listed[c] : s = t \/ Over(s) \/ iter[t] >= iter[s]
    BY <1>4, <1>5 DEF CallerInv
  <2>2. iter'[t] = iter[t] /\ \A s \in listed[c] : iter'[s] = iter[s]
    BY <1>1
  <2> QED
    BY <1>2, <1>3, <2>1, <2>2
<1> QED
  BY <1>1, <1>2, <1>4, <1>5 DEF CallerInv

\* A call of the task's cancel or resume route.
LEMMA CallerMoves ==
    ASSUME CallInv, NEW c \in Caller, CallerStep(c)
    PROVE  /\ CallTypes' /\ CallerInv(c)'
           /\ \A d \in Caller \ {c} :
                 /\ cpc'[d] = cpc[d] /\ op'[d] = op[d] /\ seen'[d] = seen[d]
                 /\ ctodo'[d] = ctodo[d] /\ targets'[d] = targets[d]
                 /\ listed'[d] = listed[d]
<1> USE DEF CallInv, CallTypes, sessionVars, Cancelling
<1>0. /\ status \in [Post -> Status] /\ flag \in [Post -> BOOLEAN]
      /\ iter \in [Post -> Nat] /\ NotRead \notin NonTerminal
      /\ \A s \in Post : Exists(s) => status[s] \in NonTerminal \/ Over(s)
      /\ CallerInv(c)
  <2>1. /\ status \in [Post -> Status] /\ flag \in [Post -> BOOLEAN]
        /\ iter \in [Post -> Nat] /\ NotRead \notin NonTerminal
    BY DEF SessionInv, TypeInv, NotRead, NonTerminal
  <2>2. \A s \in Post : Exists(s) => status[s] \in NonTerminal \/ Over(s)
    BY <2>1 DEF Exists, Over, Status
  <2> QED
    BY <2>1, <2>2
<1>1. CASE Call(c)
  <2>1. /\ cpc[c] = "idle" /\ cpc' = [cpc EXCEPT ![c] = "read"]
        /\ listed' = [listed EXCEPT ![c] = {s \in Post : Exists(s)}]
        /\ ctodo' = [ctodo EXCEPT ![c] = {s \in Post : Exists(s)}]
        /\ UNCHANGED <<status, flag, iter, op, seen, targets>>
    BY <1>1 DEF Call, CallTypes
  <2>2. /\ cpc'[c] = "read" /\ listed'[c] = {s \in Post : Exists(s)}
        /\ ctodo'[c] = {s \in Post : Exists(s)} /\ CallTypes'
    BY <2>1
  <2>3. CallerInv(c)'
    BY <1>0, <2>1, <2>2 DEF CallerInv, Exists
  <2> QED
    BY <2>1, <2>2, <2>3
<1>2. ASSUME NEW s \in Post, CallRead(c, s)
      PROVE  /\ CallTypes' /\ CallerInv(c)'
             /\ UNCHANGED <<cpc, op, targets, listed>>
             /\ \A d \in Caller \ {c} : seen'[d] = seen[d] /\ ctodo'[d] = ctodo[d]
  <2>1. /\ cpc[c] = "read" /\ s \in ctodo[c]
        /\ ctodo' = [ctodo EXCEPT ![c] = ctodo[c] \ {s}]
        /\ seen' = [seen EXCEPT ![c] = [seen[c] EXCEPT ![s] = status[s]]]
        /\ UNCHANGED <<status, flag, iter, cpc, op, targets, listed>>
    BY <1>2 DEF CallRead
  <2>2. /\ ctodo'[c] = ctodo[c] \ {s} /\ seen'[c][s] = status[s]
        /\ \A t \in Post \ {s} : seen'[c][t] = seen[c][t]
        /\ ctodo' \in [Caller -> SUBSET Post]
        /\ seen' \in [Caller -> [Post -> Status \cup {NotRead}]]
    BY <1>0, <2>1
  <2>3. s \in listed[c] /\ (status[s] \in NonTerminal \/ Over(s))
    BY <1>0, <2>1 DEF CallerInv
  <2>4. CallerInv(c)'
    BY <1>0, <2>1, <2>2, <2>3 DEF CallerInv, Exists, Over
  <2> QED
    BY <2>1, <2>2, <2>4
<1>3. CASE CallDecide(c)
  <2> DEFINE W == SeenIn(c, NonTerminal)
  <2>1. /\ cpc[c] = "read" /\ ctodo[c] = {}
        /\ UNCHANGED <<status, flag, iter, ctodo>>
    BY <1>3 DEF CallDecide
  <2>2. PICK o \in {"cancel", "cancelAll", "resume"}, T \in SUBSET Post :
           /\ o = "cancelAll" => T = W
           /\ o = "cancel" => OneOf(Latest(W), T)
           /\ targets' = [targets EXCEPT ![c] = T]
           /\ IF T = {}
              THEN /\ cpc' = [cpc EXCEPT ![c] = "refused"]
                   /\ listed' = [listed EXCEPT ![c] = {}]
                   /\ Forget(c) /\ UNCHANGED op
              ELSE /\ cpc' = [cpc EXCEPT ![c] = "act"]
                   /\ op' = [op EXCEPT ![c] = o]
                   /\ UNCHANGED <<seen, listed>>
    BY <1>3 DEF CallDecide
  <2>3. /\ \A s \in Post : Over(s)' <=> Over(s)
        /\ \A s \in Post : Exists(s)' <=> Exists(s)
    BY <2>1 DEF Over, Exists
  <2>4. CASE T = {}
    <3>1. /\ cpc' = [cpc EXCEPT ![c] = "refused"] /\ listed' = [listed EXCEPT ![c] = {}]
          /\ seen' = [seen EXCEPT ![c] = [s \in Post |-> NotRead]]
          /\ targets' = [targets EXCEPT ![c] = T]
          /\ UNCHANGED op
      BY <2>2, <2>4 DEF Forget
    <3>2. cpc'[c] = "refused" /\ listed'[c] = {} /\ \A s \in Post : seen'[c][s] = NotRead
      BY <3>1
    <3>3. CallTypes'
      BY <2>1, <3>1
    <3>4. CallerInv(c)'
      BY <1>0, <3>2 DEF CallerInv
    <3> QED
      BY <2>1, <3>1, <3>3, <3>4
  <2>5. CASE T # {}
    <3>1. /\ cpc' = [cpc EXCEPT ![c] = "act"] /\ op' = [op EXCEPT ![c] = o]
          /\ targets' = [targets EXCEPT ![c] = T]
          /\ UNCHANGED <<seen, listed>>
      BY <2>2, <2>5
    <3>2. cpc'[c] = "act" /\ op'[c] = o /\ targets'[c] = T /\ CallTypes'
      BY <2>1, <3>1
    <3>3. \A s \in listed[c] : s \in W \/ Over(s)
      BY <1>0, <2>1 DEF CallerInv, SeenIn
    <3>4. \A s \in W : s \in listed[c] /\ s \in Post
      BY <1>0 DEF CallerInv, SeenIn
    <3>5. o = "cancelAll" => \A s \in listed[c] : s \in T \/ Told(s)
      BY <2>2, <3>3 DEF Told
    <3>6. o = "cancel" => \E t \in listed[c] :
             t \in T /\ \A s \in listed[c] : s = t \/ Over(s) \/ iter[t] >= iter[s]
      <4> SUFFICES ASSUME o = "cancel"
                   PROVE  \E t \in listed[c] :
                             /\ t \in T
                             /\ \A s \in listed[c] : s = t \/ Over(s) \/ iter[t] >= iter[s]
        OBVIOUS
      <4>1. PICK t \in W : t \in T /\ \A s \in W : iter[s] <= iter[t]
        BY <2>2, <2>5 DEF OneOf, Latest
      <4>2. \A s \in W : iter[t] >= iter[s]
        BY <1>0, <3>4, <4>1
      <4> QED
        BY <3>3, <3>4, <4>1, <4>2
    <3>7. \A s \in Post : Told(s)' <=> Told(s)
      BY <2>1, <2>3 DEF Told
    <3>8. /\ o = "cancelAll" => \A s \in listed[c] : s \in T \/ Told(s)'
          /\ o = "cancel" => \E t \in listed[c] :
                t \in T /\ \A s \in listed[c] : s = t \/ Over(s)' \/ iter'[t] >= iter'[s]
      BY <2>1, <2>3, <3>5, <3>6, <3>7
    <3>9. CallerInv(c)'
      BY <1>0, <2>3, <3>1, <3>2, <3>8 DEF CallerInv
    <3> QED
      BY <2>1, <3>1, <3>2, <3>9
  <2> QED
    BY <2>4, <2>5
<1>4. ASSUME NEW s \in Post, CallFlag(c, s)
      PROVE  /\ CallTypes' /\ CallerInv(c)'
             /\ UNCHANGED <<op, seen, listed>>
             /\ \A d \in Caller \ {c} : /\ cpc'[d] = cpc[d] /\ ctodo'[d] = ctodo[d]
                                        /\ targets'[d] = targets[d]
  <2>1. /\ cpc[c] = "act" /\ s \in targets[c]
        /\ flag' = [flag EXCEPT ![s] = TRUE]
        /\ targets' = [targets EXCEPT ![c] = targets[c] \ {s}]
        /\ UNCHANGED <<status, iter, op, seen, listed>>
        /\ \/ /\ cpc' = [cpc EXCEPT ![c] = "unblock"]
              /\ ctodo' = [ctodo EXCEPT ![c] = {s}]
           \/ UNCHANGED <<cpc, ctodo>>
    BY <1>4 DEF CallFlag
  <2>2. /\ flag'[s] = TRUE /\ \A t \in Post : flag[t] => flag'[t]
    BY <1>0, <2>1
  <2>3. /\ targets'[c] = targets[c] \ {s} /\ cpc'[c] \in {"act", "unblock"}
        /\ CallTypes'
    BY <2>1
  <2>4. CallerInv(c)'
    BY <1>0, <2>1, <2>2, <2>3 DEF CallerInv, Exists, Over, Told
  <2> QED
    BY <2>1, <2>3, <2>4
<1>5. ASSUME NEW s \in Post, CallUnblock(c, s)
      PROVE  /\ CallTypes' /\ CallerInv(c)'
             /\ UNCHANGED <<op, seen, targets, listed>>
             /\ \A d \in Caller \ {c} : cpc'[d] = cpc[d] /\ ctodo'[d] = ctodo[d]
  <2>1. /\ cpc[c] = "unblock" /\ cpc' = [cpc EXCEPT ![c] = "act"]
        /\ ctodo' = [ctodo EXCEPT ![c] = {}]
        /\ UNCHANGED <<status, flag, iter, op, seen, targets, listed>>
    BY <1>5 DEF CallUnblock
  <2>2. cpc'[c] = "act" /\ CallTypes'
    BY <2>1
  <2> QED
    BY <1>0, <2>1, <2>2 DEF CallerInv, Exists, Over, Told
<1>6. ASSUME NEW s \in Post, CallAnswer(c, s)
      PROVE  /\ CallTypes' /\ CallerInv(c)'
             /\ UNCHANGED <<cpc, op, seen, ctodo, listed>>
             /\ \A d \in Caller \ {c} : targets'[d] = targets[d]
  <2>1. /\ cpc[c] = "act" /\ op[c] = "resume"
        /\ targets' = [targets EXCEPT ![c] = {}]
        /\ UNCHANGED <<status, flag, iter, cpc, op, ctodo, seen, listed>>
    BY <1>6 DEF CallAnswer
  <2> QED
    BY <1>0, <2>1 DEF CallerInv, Exists, Over, Told
<1>7. CASE CallReturn(c)
  <2>1. /\ cpc[c] = "act" /\ targets[c] = {} /\ cpc' = [cpc EXCEPT ![c] = "returned"]
        /\ seen' = [seen EXCEPT ![c] = [s \in Post |-> NotRead]]
        /\ UNCHANGED <<status, flag, iter, op, ctodo, targets, listed>>
    BY <1>7 DEF CallReturn, Forget
  <2>2. cpc'[c] = "returned" /\ CallTypes' /\ \A s \in Post : seen'[c][s] = NotRead
    BY <2>1
  <2> QED
    BY <1>0, <2>1, <2>2 DEF CallerInv, Exists, Over, Told
<1> QED
  BY <1>1, <1>2, <1>3, <1>4, <1>5, <1>6, <1>7 DEF CallerStep

\* The callers stay so at every step.
LEMMA CallStep == CallInv /\ [Next]_vars => CallInv'
<1> SUFFICES ASSUME CallInv, [Next]_vars PROVE CallInv'
  OBVIOUS
<1>1. SessionInv'
  BY ToldStays DEF CallInv
<1>2. ASSUME NEW c \in Caller, CallerStep(c) PROVE CallInv'
  <2>1. ASSUME NEW d \in Caller PROVE CallerInv(d)'
    <3>1. CASE d = c
      BY <1>2, <3>1, CallerMoves
    <3>2. CASE d # c
      <4>1. /\ cpc'[d] = cpc[d] /\ op'[d] = op[d] /\ seen'[d] = seen[d]
            /\ ctodo'[d] = ctodo[d] /\ targets'[d] = targets[d]
            /\ listed'[d] = listed[d]
        BY <1>2, <3>2, CallerMoves
      <4> QED
        BY <4>1, CallerWaits
    <3> QED
      BY <3>1, <3>2
  <2> QED
    BY <1>1, <1>2, <2>1, CallerMoves DEF CallInv
<1>3. CASE UNCHANGED callerVars
  <2>1. CallTypes'
    BY <1>3 DEF callerVars, CallInv, CallTypes
  <2>2. \A c \in Caller : CallerInv(c)'
    BY <1>3, CallerWaits DEF callerVars
  <2> QED
    BY <1>1, <2>1, <2>2 DEF CallInv
<1>4. ASSUME ~(\E c \in Caller : CallerStep(c)) PROVE UNCHANGED callerVars
  <2>1. CASE CounterExpires \/ Pop \/ SkipLocked \/ UNCHANGED vars
    BY <2>1 DEF CounterExpires, Pop, SkipLocked, vars
  <2>2. ASSUME NEW s \in Post, WorkerStep(s) \/ CrashStep(s) PROVE UNCHANGED callerVars
    BY <2>2 DEF WorkerStep, Start, Check, Step, Resumed, AskTimeout, CrashStep, WorkerDies,
                Requeue, Lost
  <2>3. ASSUME NEW p \in Post, Arrive(p) \/ PostStep(p) PROVE UNCHANGED callerVars
    BY <2>3 DEF Arrive, PostStep, PrepareFails, Number, Keys, SweepRead, SweepFlag,
                SweepUnblock, Create, Push
  <2> QED
    BY <1>4, <2>1, <2>2, <2>3 DEF Next
<1> QED
  BY <1>2, <1>3, <1>4

\* Of cancel_task: when it has answered 200, no iteration it listed is live and
\* unflagged, unless (without all=true) one with no lower a number is flagged.
THEOREM CancelFindsLatest == Spec => []CancelHitsLatest
<1>1. CallInv => CancelHitsLatest
  <2> SUFFICES ASSUME CallInv, NEW c \in Caller, cpc[c] = "returned", op[c] # "resume",
                      NEW s \in listed[c]
               PROVE  \/ Over(s) \/ flag[s]
                      \/ op[c] = "cancel" /\ \E t \in listed[c] :
                            flag[t] /\ iter[t] >= iter[s]
    BY DEF CancelHitsLatest
  <2>1. CallerInv(c) /\ op[c] \in {"cancel", "cancelAll"} /\ targets[c] = {}
    BY DEF CallInv, CallTypes, CallerInv
  <2> QED
    BY <2>1 DEF CallerInv, Cancelling, Told
<1> QED
  BY <1>1, CallInit, CallStep, PTL DEF Spec

-----------------------------------------------------------------------------
(* The types.  The counter of the task is the number of POSTs that INCR has  *)
(* answered since it last expired, so it is at most the number of POSTs.     *)

Counted(p) == Numbered(p) /\ life[p] = expiries

CountInv == counter = Cardinality({p \in Post : Counted(p)})

\* What resume:{id} may hold.
Messages == Seq({"cancel", "answer"})

\* The sessions', the POSTs' and the callers' part of TypeOK.
SessionTypes ==
    /\ queue \in Seq(Post) /\ status \in [Post -> Status]
    /\ iter \in [Post -> 0..Cardinality(Post)] /\ flag \in [Post -> BOOLEAN]
    /\ resume \in [Post -> Messages]
    /\ stepping \in [Post -> BOOLEAN] /\ steps \in [Post -> 0..MaxSteps]
    /\ crashed \subseteq Post /\ crashes \in 0..MaxFaults

PostTypes ==
    /\ counter \in 0..Cardinality(Post) /\ parallel \subseteq Post
    /\ expiries \in 0..MaxFaults /\ life \in [Post -> 0..expiries]
    /\ ppc \in [Post -> Pointer] /\ num \in [Post -> 0..Cardinality(Post)]
    /\ todo \in [Post -> SUBSET Post] /\ cur \in [Post -> SUBSET Post]
    /\ before \in [Post -> SUBSET Post]

CallerTypes ==
    /\ cpc \in [Caller -> {"idle", "read", "act", "unblock", "refused", "returned"}]
    /\ op \in [Caller -> {"cancel", "cancelAll", "resume"}]
    /\ ctodo \in [Caller -> SUBSET Post]
    /\ targets \in [Caller -> SUBSET Post] /\ listed \in [Caller -> SUBSET Post]
    /\ seen \in [Caller -> [Post -> Status \cup {NotRead}]]

RangeInv == SessionTypes /\ PostTypes /\ CallerTypes /\ CountInv

\* An update within the range of a function keeps its type.
LEMMA Updated ==
    ASSUME NEW S, NEW T, NEW f \in [S -> T], NEW x \in S, NEW v \in T
    PROVE  [f EXCEPT ![x] = v] \in [S -> T]
  OBVIOUS

\* TypeOK is the three of them.
LEMMA TypeParts == TypeOK <=> SessionTypes /\ PostTypes /\ CallerTypes
  BY DEF TypeOK, SessionTypes, PostTypes, CallerTypes, Pointer, Messages

\* What is pushed or popped is still such a list.
LEMMA Pushed ==
    ASSUME NEW r \in Messages
    PROVE  /\ Append(r, "cancel") \in Messages /\ Append(r, "answer") \in Messages
           /\ <<>> \in Messages /\ (r # <<>> => Tail(r) \in Messages)
  BY DEF Messages

\* At the start nothing has been numbered.
LEMMA RangeInit == Init => RangeInv
<1> SUFFICES ASSUME Init PROVE RangeInv
  OBVIOUS
<1>1. Cardinality({}) = 0 /\ Cardinality(Post) \in Nat
  BY FS_EmptySet, FS_CardinalityType, TaskAssumption
<1>2. {p \in Post : Counted(p)} = {} /\ counter = 0
  BY DEF Init, Numbered, Counted
<1>3. SessionTypes
  BY <1>1, TaskAssumption DEF Init, SessionTypes, Status, Messages
<1>4. PostTypes
  BY <1>1, TaskAssumption DEF Init, PostTypes, Pointer
<1>5. CallerTypes
  BY DEF Init, CallerTypes, NotRead
<1> QED
  BY <1>1, <1>2, <1>3, <1>4, <1>5 DEF RangeInv, CountInv

\* INCR counts one POST more.
LEMMA RangeNumber ==
    ASSUME RangeInv, NEW p \in Post, Number(p)
    PROVE  RangeInv'
<1> DEFINE N == {q \in Post : Counted(q)}
<1>1. /\ ppc[p] = "prepare" /\ counter' = counter + 1
      /\ num' = [num EXCEPT ![p] = counter + 1]
      /\ life' = [life EXCEPT ![p] = expiries]
      /\ \E v \in {"create", "keys"} : ppc' = [ppc EXCEPT ![p] = v]
      /\ parallel' \in {parallel, parallel \cup {p}}
      /\ UNCHANGED <<queue, sessionVars, expiries, todo, cur, before, callerVars>>
  BY DEF Number
<1>2. SessionTypes /\ PostTypes /\ CallerTypes
  BY DEF RangeInv
<1>3. N' = N \cup {p} /\ p \notin N
  BY <1>1, <1>2 DEF Counted, Numbered, PostTypes, Pointer
<1>4. IsFiniteSet(N) /\ IsFiniteSet(N') /\ N' \subseteq Post
  BY <1>3, FS_Subset, FS_AddElement, TaskAssumption
<1>5. Cardinality(N') = Cardinality(N) + 1 /\ Cardinality(N') <= Cardinality(Post)
  BY <1>3, <1>4, FS_AddElement, FS_Subset, TaskAssumption
<1>6. CountInv'
  BY <1>1, <1>5 DEF CountInv, RangeInv
<1>7. counter' \in 0..Cardinality(Post)
  <2>1. Cardinality(Post) \in Nat
    BY FS_CardinalityType, TaskAssumption
  <2>2. counter' <= Cardinality(Post)
    BY <1>5, <1>6 DEF CountInv
  <2> QED
    BY <1>1, <1>2, <2>1, <2>2 DEF PostTypes
<1>8. SessionTypes'
  BY <1>1, <1>2 DEF SessionTypes, sessionVars, crashVars
<1>9. life' \in [Post -> 0..expiries']
  <2>1. expiries \in 0..expiries /\ expiries' = expiries
    BY <1>1, <1>2, TaskAssumption DEF PostTypes
  <2> QED
    BY <1>1, <1>2, <2>1 DEF PostTypes
<1>10. PostTypes'
  BY <1>1, <1>2, <1>7, <1>9 DEF PostTypes, Pointer
<1>11. CallerTypes'
  BY <1>1, <1>2 DEF CallerTypes, callerVars
<1> QED
  BY <1>6, <1>8, <1>10, <1>11 DEF RangeInv

\* A step that numbers nobody leaves the count.
LEMMA CountStays ==
    ASSUME CountInv, UNCHANGED <<counter, expiries, life>>,
           \A q \in Post : Numbered(q)' <=> Numbered(q)
    PROVE  CountInv'
<1>1. {q \in Post : Counted(q)}' = {q \in Post : Counted(q)}
  BY DEF Counted
<1> QED
  BY <1>1 DEF CountInv

\* No POST has a number of the life that begins when the counter expires.
LEMMA RangeExpires ==
    ASSUME RangeInv, CounterExpires
    PROVE  RangeInv'
<1>1. /\ counter' = 0 /\ expiries' = expiries + 1 /\ crashes + expiries < MaxFaults
      /\ UNCHANGED <<queue, sessionVars, parallel, ppc, numberVars, todo, cur, before,
                     callerVars>>
  BY DEF CounterExpires
<1>2. SessionTypes /\ PostTypes /\ CallerTypes
  BY DEF RangeInv
<1>3. expiries \in Nat /\ expiries' \in 0..MaxFaults
  BY <1>1, <1>2, TaskAssumption DEF SessionTypes, PostTypes
<1>4. life' \in [Post -> 0..expiries'] /\ \A p \in Post : life'[p] # expiries'
  BY <1>1, <1>2, <1>3 DEF PostTypes, numberVars
<1>5. CountInv'
  <2>1. {p \in Post : Counted(p)'} = {}
    BY <1>4 DEF Counted
  <2>2. Cardinality({}) = 0
    BY FS_EmptySet
  <2> QED
    BY <1>1, <2>1, <2>2 DEF CountInv
<1>6. counter' \in 0..Cardinality(Post)
  BY <1>1, FS_CardinalityType, TaskAssumption
<1>7. SessionTypes' /\ PostTypes' /\ CallerTypes'
  BY <1>1, <1>2, <1>3, <1>4, <1>6
     DEF SessionTypes, PostTypes, CallerTypes, sessionVars, crashVars, numberVars, callerVars
<1> QED
  BY <1>5, <1>7 DEF RangeInv

\* The other steps of a POST.
LEMMA RangePost ==
    ASSUME RangeInv, NEW p \in Post, Arrive(p) \/ PostStep(p)
    PROVE  RangeInv'
<1>1. SessionTypes /\ PostTypes /\ CallerTypes
  BY DEF RangeInv
<1>2. SUFFICES ASSUME ~Number(p) PROVE RangeInv'
  BY RangeNumber
<1>3. /\ \E v \in Pointer : ppc' = [ppc EXCEPT ![p] = v] /\
             (v \in Pointer \ {"idle", "prepare", "refused"}
                <=> Numbered(p))
      /\ UNCHANGED <<counter, expiries, numberVars, stepping, steps, crashVars, callerVars>>
  <2>1. CASE Arrive(p) \/ PrepareFails(p)
    BY <2>1 DEF Arrive, PrepareFails, sessionVars, intakeVars, Numbered, Pointer
  <2>2. CASE Keys(p) \/ SweepFlag(p) \/ SweepUnblock(p) \/ Create(p) \/ Push(p)
    BY <2>2 DEF Keys, SweepFlag, SweepUnblock, Create, Push, sessionVars, intakeVars,
                Numbered, Pointer
  <2>3. ASSUME NEW s \in Post, SweepRead(p, s)
        PROVE  /\ \E v \in {"sweep", "flag", "flagWaiting"} : ppc' = [ppc EXCEPT ![p] = v]
               /\ ppc[p] = "sweep"
               /\ UNCHANGED <<counter, expiries, numberVars, stepping, steps, crashVars, callerVars>>
    BY <1>1, <2>3 DEF SweepRead, sessionVars, intakeVars, PostTypes
  <2> QED
    BY <1>2, <2>1, <2>2, <2>3 DEF PostStep, Numbered, Pointer
<1>4. CountInv'
  BY <1>1, <1>3, CountStays DEF RangeInv, Numbered, PostTypes, numberVars
<1>5. SessionTypes'
  <2>1. /\ queue' = queue \/ queue' = Append(queue, p)
        /\ UNCHANGED <<stepping, steps, crashVars>>
        /\ status' = status \/ status' = [status EXCEPT ![p] = "queued"]
        /\ iter' = iter \/ iter' = [iter EXCEPT ![p] = num[p]]
        /\ flag' = flag \/ flag' = [s \in Post |-> flag[s] \/ s \in cur[p]]
        /\ \/ resume' = resume
           \/ resume' = [s \in Post |-> IF s \in cur[p] THEN Append(resume[s], "cancel")
                                                        ELSE resume[s]]
    <3>1. CASE Arrive(p) \/ PrepareFails(p) \/ Keys(p) \/ \E s \in Post : SweepRead(p, s)
      BY <3>1 DEF Arrive, PrepareFails, Keys, SweepRead, sessionVars
    <3>2. CASE SweepFlag(p) \/ SweepUnblock(p)
      BY <3>2 DEF SweepFlag, SweepUnblock
    <3>3. CASE Create(p) \/ Push(p)
      BY <3>3 DEF Create, Push, sessionVars
    <3> QED
      BY <1>2, <3>1, <3>2, <3>3 DEF PostStep
  <2>2. queue' \in Seq(Post) /\ status' \in [Post -> Status]
    <3>1. queue' \in Seq(Post)
      <4>1. queue \in Seq(Post)
        BY <1>1 DEF SessionTypes
      <4>2. Append(queue, p) \in Seq(Post)
        BY <4>1
      <4> QED
        BY <2>1, <4>1, <4>2
    <3>2. "queued" \in Status
      BY DEF Status, NonTerminal
    <3>3. status' \in [Post -> Status]
      BY <1>1, <2>1, <3>2 DEF SessionTypes
    <3> QED
      BY <3>1, <3>3
  <2>3. iter' \in [Post -> 0..Cardinality(Post)]
    BY <1>1, <1>3, <2>1 DEF SessionTypes, PostTypes
  <2>4. flag' \in [Post -> BOOLEAN]
    <3>1. \A s \in Post : (flag[s] \/ s \in cur[p]) \in BOOLEAN
      OBVIOUS
    <3> QED
      BY <1>1, <2>1, <3>1, Zenon DEF SessionTypes
  <2>5. resume' \in [Post -> Messages]
    <3>1. \A s \in Post : resume[s] \in Messages /\ Append(resume[s], "cancel") \in Messages
      BY <1>1, Pushed DEF SessionTypes
    <3> QED
      BY <2>1, <3>1, <1>1 DEF SessionTypes
  <2> QED
    BY <2>1, <1>1, <1>3, <2>2, <2>3, <2>4, <2>5 DEF SessionTypes, crashVars
<1>6. PostTypes'
  <2>1. /\ parallel' \subseteq Post
        /\ todo' = todo \/ \E S \in SUBSET Post : todo' = [todo EXCEPT ![p] = S]
        /\ cur' = cur \/ \E S \in SUBSET Post : cur' = [cur EXCEPT ![p] = S]
        /\ before' = before \/ \E S \in SUBSET Post : before' = [before EXCEPT ![p] = S]
    <3>1. CASE Arrive(p)
      BY <1>1, <3>1 DEF Arrive, PostTypes, intakeVars
    <3>2. CASE PrepareFails(p) \/ SweepFlag(p) \/ SweepUnblock(p) \/ Create(p) \/ Push(p)
      BY <1>1, <3>2 DEF PrepareFails, SweepFlag, SweepUnblock, Create, Push, PostTypes, intakeVars
    <3>3. CASE Keys(p)
      BY <1>1, <3>3 DEF Keys, PostTypes, intakeVars
    <3>4. ASSUME NEW s \in Post, SweepRead(p, s)
          PROVE  /\ parallel' = parallel /\ before' = before
                 /\ \E S \in SUBSET Post : todo' = [todo EXCEPT ![p] = S]
                 /\ cur' = cur \/ cur' = [cur EXCEPT ![p] = {s}]
      BY <1>1, <3>4 DEF SweepRead, PostTypes, intakeVars
    <3> QED
      BY <1>1, <1>2, <3>1, <3>2, <3>3, <3>4 DEF PostStep, PostTypes
  <2>2. /\ todo' \in [Post -> SUBSET Post] /\ cur' \in [Post -> SUBSET Post]
        /\ before' \in [Post -> SUBSET Post]
    BY <1>1, <2>1 DEF PostTypes
  <2>3. ppc' \in [Post -> Pointer]
    BY <1>1, <1>3 DEF PostTypes
  <2> QED
    BY <1>1, <1>3, <2>1, <2>2, <2>3 DEF PostTypes, numberVars
<1>7. CallerTypes'
  BY <1>1, <1>3 DEF CallerTypes, callerVars
<1> QED
  BY <1>4, <1>5, <1>6, <1>7 DEF RangeInv

\* The workers and recovery change the sessions only.
LEMMA RangeWorker ==
    ASSUME RangeInv,
           Pop \/ SkipLocked \/ \E s \in Post : WorkerStep(s) \/ CrashStep(s)
    PROVE  RangeInv'
<1>1. SessionTypes /\ PostTypes /\ CallerTypes
  BY DEF RangeInv
<1>2. UNCHANGED <<postVars, callerVars, iter, flag>>
  BY DEF Pop, SkipLocked, WorkerStep, Start, Check, Step, Resumed, AskTimeout, CrashStep,
         WorkerDies, Requeue, Lost, sessionVars
<1>3. CountInv' /\ PostTypes' /\ CallerTypes'
  BY <1>1, <1>2, CountStays
     DEF RangeInv, Numbered, PostTypes, CallerTypes, postVars, intakeVars, numberVars,
         callerVars
<1>4. SUFFICES SessionTypes'
  BY <1>3 DEF RangeInv
<1> USE <1>1, <1>2 DEF SessionTypes
<1>5. ASSUME NEW s \in Post, NEW v \in Status, End(s, v)
      PROVE  status' \in [Post -> Status] /\ resume' \in [Post -> Messages]
  <2>1. <<>> \in Messages
    BY DEF Messages
  <2> QED
    BY <1>5, <2>1, Updated DEF End, SetStatus
<1>6. Terminal \cup NonTerminal \subseteq Status
  BY DEF Status
<1>7. CASE Pop \/ SkipLocked
  <2>1. Tail(queue) \in Seq(Post) /\ Head(queue) \in Post
    BY <1>7, TailFacts DEF Pop, SkipLocked
  <2> QED
    BY <1>6, <1>7, <2>1 DEF Pop, SkipLocked, SetStatus, NonTerminal, sessionVars, crashVars
<1>8. ASSUME NEW s \in Post, WorkerStep(s) PROVE SessionTypes'
  <2>1. CASE Start(s)
    BY <1>6, <2>1 DEF Start, SetStatus, NonTerminal, crashVars
  <2>2. CASE Check(s)
    <3>1. CASE flag[s]
      BY <1>5, <1>6, <2>2, <3>1 DEF Check, Terminal, crashVars
    <3>2. CASE ~flag[s]
      BY <2>2, <3>2 DEF Check, crashVars
    <3> QED
      BY <3>1, <3>2
  <2>3. CASE Step(s)
    <3>1. /\ stepping' = [stepping EXCEPT ![s] = FALSE]
          /\ UNCHANGED <<queue, crashVars>>
          /\ \/ steps' = steps
             \/ steps' = [steps EXCEPT ![s] = steps[s] + 1] /\ steps[s] < MaxSteps
          /\ \/ UNCHANGED <<status, resume>>
             \/ SetStatus(s, "waiting_for_user") /\ UNCHANGED resume
             \/ End(s, "done")
      BY <2>3 DEF Step
    <3>2. steps' \in [Post -> 0..MaxSteps]
      BY <3>1, TaskAssumption
    <3>3. status' \in [Post -> Status] /\ resume' \in [Post -> Messages]
      BY <1>5, <1>6, <3>1 DEF SetStatus, NonTerminal, Terminal
    <3> QED
      BY <3>1, <3>2, <3>3 DEF crashVars
  <2>4. CASE Resumed(s)
    <3>1. UNCHANGED <<queue, stepping, steps, crashVars>>
      BY <2>4 DEF Resumed
    <3>2. \/ End(s, "cancelled") \/ End(s, "done")
          \/ SetStatus(s, "running") /\ resume' = [resume EXCEPT ![s] = Tail(resume[s])]
      BY <2>4 DEF Resumed
    <3>3. Tail(resume[s]) \in Messages
      BY <2>4, Pushed DEF Resumed
    <3>4. CASE SetStatus(s, "running") /\ resume' = [resume EXCEPT ![s] = Tail(resume[s])]
      <4>1. resume' \in [Post -> Messages]
        BY <3>3, <3>4, Updated
      <4> QED
        BY <1>6, <3>1, <3>4, <4>1 DEF SetStatus, NonTerminal, crashVars
    <3>5. CASE End(s, "cancelled") \/ End(s, "done")
      <4>1. status' \in [Post -> Status] /\ resume' \in [Post -> Messages]
        BY <1>5, <1>6, <3>5 DEF Terminal
      <4> QED
        BY <3>1, <4>1 DEF crashVars
    <3> QED
      BY <3>2, <3>4, <3>5
  <2>5. CASE AskTimeout(s)
    BY <1>5, <1>6, <2>5 DEF AskTimeout, Terminal, crashVars
  <2> QED
    BY <1>8, <2>1, <2>2, <2>3, <2>4, <2>5 DEF WorkerStep
<1>9. ASSUME NEW s \in Post, CrashStep(s) PROVE SessionTypes'
  <2>1. CASE WorkerDies(s)
    <3>1. crashes' \in 0..MaxFaults
      BY <2>1, TaskAssumption DEF WorkerDies, PostTypes
    <3> QED
      BY <2>1, <3>1 DEF WorkerDies
  <2>2. CASE Requeue(s)
    <3>1. Append(queue, s) \in Seq(Post)
      BY AppendFacts
    <3> QED
      BY <1>6, <2>2, <3>1 DEF Requeue, SetStatus, NonTerminal, crashVars
  <2>3. CASE Lost(s)
    BY <1>6, <2>3 DEF Lost, SetStatus, Terminal
  <2> QED
    BY <1>9, <2>1, <2>2, <2>3 DEF CrashStep
<1> QED
  BY <1>7, <1>8, <1>9

\* The callers write flags and messages.
LEMMA RangeCaller ==
    ASSUME RangeInv, NEW c \in Caller, CallerStep(c)
    PROVE  RangeInv'
<1>1. SessionTypes /\ PostTypes /\ CallerTypes
  BY DEF RangeInv
<1>2. UNCHANGED <<postVars, queue, status, iter, stepping, steps, crashVars>>
  BY DEF CallerStep, Call, CallDecide, CallReturn, CallRead, CallFlag, CallUnblock,
         CallAnswer, sessionVars
<1>3. CountInv' /\ PostTypes'
  BY <1>1, <1>2, CountStays
     DEF RangeInv, Numbered, PostTypes, postVars, intakeVars, numberVars
<1>4. SessionTypes'
  <2>1. \/ UNCHANGED <<flag, resume>>
        \/ \E s \in Post : flag' = [flag EXCEPT ![s] = TRUE] /\ UNCHANGED resume
        \/ \E s \in Post, m \in {"cancel", "answer"} :
              resume' = [resume EXCEPT ![s] = Append(resume[s], m)] /\ UNCHANGED flag
    BY DEF CallerStep, Call, CallDecide, CallReturn, CallRead, CallFlag, CallUnblock,
           CallAnswer, sessionVars
  <2>2. flag' \in [Post -> BOOLEAN]
    BY <1>1, <2>1 DEF SessionTypes
  <2>3. resume' \in [Post -> Messages]
    <3>1. \A s \in Post, m \in {"cancel", "answer"} :
             Append(resume[s], m) \in Messages
      BY <1>1, Pushed DEF SessionTypes
    <3>2. resume \in [Post -> Messages]
      BY <1>1 DEF SessionTypes
    <3>3. CASE resume' = resume
      BY <3>2, <3>3
    <3>4. ASSUME NEW s \in Post, NEW m \in {"cancel", "answer"},
                 resume' = [resume EXCEPT ![s] = Append(resume[s], m)]
          PROVE  resume' \in [Post -> Messages]
      <4>1. Append(resume[s], m) \in Messages
        BY <3>1
      <4> QED
        BY <3>2, <3>4, <4>1, Updated
    <3> QED
      BY <2>1, <3>3, <3>4
  <2> QED
    BY <1>1, <1>2, <2>2, <2>3 DEF SessionTypes, crashVars
<1>5. CallerTypes'
  <2> USE <1>1 DEF CallerTypes
  <2>1. CASE Call(c)
    <3> DEFINE E == {s \in Post : Exists(s)}
    <3>1. /\ cpc' = [cpc EXCEPT ![c] = "read"] /\ listed' = [listed EXCEPT ![c] = E]
          /\ ctodo' = [ctodo EXCEPT ![c] = listed'[c]]
          /\ UNCHANGED <<op, seen, targets>>
      BY <2>1 DEF Call
    <3>2. E \in SUBSET Post
      OBVIOUS
    <3> HIDE DEF E
    <3>3. listed' \in [Caller -> SUBSET Post] /\ listed'[c] \in SUBSET Post
      BY <3>1, <3>2
    <3>4. ctodo' \in [Caller -> SUBSET Post]
      BY <3>1, <3>3, Updated
    <3> QED
      BY <3>1, <3>3, <3>4
  <2>5. Forget(c) => seen' \in [Caller -> [Post -> Status \cup {NotRead}]]
    BY DEF Forget
  <2>6. CASE CallReturn(c)
    BY <2>5, <2>6 DEF CallReturn
  <2>2. CASE CallDecide(c)
    <3>1. \E T \in SUBSET Post : targets' = [targets EXCEPT ![c] = T]
      BY <2>2 DEF CallDecide
    <3>2. \/ /\ cpc' = [cpc EXCEPT ![c] = "refused"]
             /\ listed' = [listed EXCEPT ![c] = {}]
             /\ Forget(c) /\ UNCHANGED op
          \/ /\ cpc' = [cpc EXCEPT ![c] = "act"]
             /\ \E o \in {"cancel", "cancelAll", "resume"} : op' = [op EXCEPT ![c] = o]
             /\ UNCHANGED <<seen, listed>>
      BY <2>2 DEF CallDecide
    <3>3. UNCHANGED ctodo
      BY <2>2 DEF CallDecide
    <3>4. /\ cpc' \in [Caller -> {"idle", "read", "act", "unblock", "refused", "returned"}]
          /\ op' \in [Caller -> {"cancel", "cancelAll", "resume"}]
          /\ listed' \in [Caller -> SUBSET Post]
          /\ seen' \in [Caller -> [Post -> Status \cup {NotRead}]]
      BY <2>5, <3>2
    <3>5. targets' \in [Caller -> SUBSET Post]
      BY <3>1, Updated
    <3>6. ctodo' \in [Caller -> SUBSET Post]
      BY <3>3
    <3> QED
      BY <3>4, <3>5, <3>6
  <2>3. ASSUME NEW s \in Post, CallRead(c, s) PROVE CallerTypes'
    <3>1. seen' = [seen EXCEPT ![c] = [seen[c] EXCEPT ![s] = status[s]]]
      BY <2>3 DEF CallRead
    <3>2. [seen[c] EXCEPT ![s] = status[s]] \in [Post -> Status \cup {NotRead}]
      BY DEF SessionTypes
    <3>3. ctodo' = [ctodo EXCEPT ![c] = ctodo[c] \ {s}]
          /\ UNCHANGED <<cpc, op, targets, listed>>
      BY <2>3 DEF CallRead
    <3> QED
      BY <3>1, <3>2, <3>3
  <2>4. ASSUME NEW s \in Post, CallFlag(c, s) \/ CallUnblock(c, s) \/ CallAnswer(c, s)
        PROVE  CallerTypes'
    <3>1. /\ \/ cpc' = cpc
             \/ \E v \in {"act", "unblock"} : cpc' = [cpc EXCEPT ![c] = v]
          /\ \/ ctodo' = ctodo
             \/ \E v \in SUBSET Post : ctodo' = [ctodo EXCEPT ![c] = v]
          /\ \/ targets' = targets
             \/ \E v \in SUBSET Post : targets' = [targets EXCEPT ![c] = v]
          /\ UNCHANGED <<op, seen, listed>>
      <4>1. {s} \in SUBSET Post /\ {} \in SUBSET Post /\ targets[c] \ {s} \in SUBSET Post
        OBVIOUS
      <4>2. CASE CallFlag(c, s)
        BY <4>1, <4>2 DEF CallFlag
      <4>3. CASE CallUnblock(c, s) \/ CallAnswer(c, s)
        BY <4>1, <4>3 DEF CallUnblock, CallAnswer
      <4> QED
        BY <2>4, <4>2, <4>3
    <3>2. cpc' \in [Caller -> {"idle", "read", "act", "unblock", "refused", "returned"}]
      BY <3>1
    <3>3. ctodo' \in [Caller -> SUBSET Post]
      BY <3>1, Updated
    <3>4. targets' \in [Caller -> SUBSET Post]
      BY <3>1, Updated
    <3> QED
      BY <3>1, <3>2, <3>3, <3>4
  <2> QED
    BY <2>1, <2>2, <2>3, <2>4, <2>6 DEF CallerStep
<1> QED
  BY <1>3, <1>4, <1>5 DEF RangeInv

\* Type correctness; task:{id}:counter is never ahead of the POSTs, however often
\* it expires, and no iteration's number is.
THEOREM CounterCountsPosts == Spec => []TypeOK
<1>1. RangeInv /\ [Next]_vars => RangeInv'
  <2> SUFFICES ASSUME RangeInv, [Next]_vars PROVE RangeInv'
    OBVIOUS
  <2>1. CASE UNCHANGED vars
    <3>1. UNCHANGED <<queue, sessionVars, postVars, callerVars>>
      BY <2>1 DEF vars
    <3>2. CountInv'
      BY <3>1, CountStays DEF RangeInv, Numbered, postVars, intakeVars, numberVars
    <3>3. SessionTypes' /\ PostTypes' /\ CallerTypes'
      BY <3>1 DEF RangeInv, SessionTypes, PostTypes, CallerTypes, sessionVars, postVars,
                  intakeVars, numberVars, crashVars, callerVars
    <3> QED
      BY <3>2, <3>3 DEF RangeInv
  <2> QED
    BY <2>1, RangePost, RangeExpires, RangeWorker, RangeCaller DEF Next
<1>2. RangeInv => TypeOK
  BY TypeParts DEF RangeInv
<1> QED
  BY <1>1, <1>2, RangeInit, PTL DEF Spec


-----------------------------------------------------------------------------
(* The end of an iteration that was told to stop.                          *)

\* A browser step is under way only in a session that is running.
StepInv ==
    /\ stepping \in [Post -> BOOLEAN]
    /\ \A s \in Post : stepping[s] => status[s] = "running" /\ s \notin crashed

\* A bound on what a flagged session has before it: to be popped, to be started,
\* the browser step under way, the user's answer to what that step asks, and the
\* reading of the flag.
Left(s) ==
    IF status[s] = "running"
    THEN IF stepping[s] THEN 3 ELSE 1
    ELSE IF status[s] = "queued" THEN 5
    ELSE IF status[s] = "assigned" THEN 4
    ELSE IF status[s] = "waiting_for_user" THEN 2
    ELSE 0

\* A POST creates its own session, and touches the status of no other.
LEMMA WindPost ==
    ASSUME SessionInv, StepInv, NEW p \in Post, Arrive(p) \/ PostStep(p)
    PROVE  /\ StepInv'
           /\ \A s \in Post : Exists(s) => UNCHANGED <<status[s], stepping[s]>>
<1> USE DEF SessionInv, TypeInv, QueueInv, Exists, StepInv, sessionVars, crashVars
<1>1. CASE Create(p)
  <2>1. /\ status[p] = "none" /\ UNCHANGED <<stepping, crashed>>
        /\ status' = [status EXCEPT ![p] = "queued"]
    BY <1>1 DEF Create
  <2> QED
    BY <2>1
<1>2. CASE ~Create(p)
  <2>1. UNCHANGED <<status, stepping, crashed>>
    BY <1>2 DEF Arrive, PostStep, PrepareFails, Number, Keys, SweepFlag,
       SweepUnblock, Push, SweepRead
  <2> QED
    BY <2>1
<1> QED
  BY <1>1, <1>2

\* A step of its worker brings a flagged session nearer to its end.
LEMMA WindWorker ==
    ASSUME SessionInv, StepInv, NEW s \in Post, WorkerStep(s)
    PROVE  /\ StepInv'
           /\ flag[s] => Left(s)' < Left(s)
           /\ \A t \in Post \ {s} : UNCHANGED <<status[t], stepping[t]>>
<1> USE DEF SessionInv, TypeInv, StepInv, SetStatus, End, Status, Terminal, NonTerminal
<1>0. s \notin crashed /\ UNCHANGED crashed
  BY DEF WorkerStep, Start, Check, Step, Resumed, AskTimeout, crashVars
<1> USE <1>0
<1>1. CASE Start(s)
  <2>1. /\ status[s] = "assigned" /\ UNCHANGED stepping
        /\ status' = [status EXCEPT ![s] = "running"]
    BY <1>1 DEF Start
  <2> QED
    BY <2>1 DEF Left
<1>2. CASE Check(s)
  <2>1. CASE flag[s]
    <3>1. /\ status[s] = "running" /\ ~stepping[s] /\ UNCHANGED stepping
          /\ status' = [status EXCEPT ![s] = "cancelled"]
      BY <1>2, <2>1 DEF Check
    <3> QED
      BY <3>1 DEF Left
  <2>2. CASE ~flag[s]
    BY <1>2, <2>2 DEF Check
  <2> QED
    BY <2>1, <2>2
<1>3. CASE Step(s)
  <2>1. /\ status[s] = "running" /\ stepping[s]
        /\ stepping' = [stepping EXCEPT ![s] = FALSE]
        /\ \/ UNCHANGED status
           \/ status' = [status EXCEPT ![s] = "waiting_for_user"]
           \/ status' = [status EXCEPT ![s] = "done"]
    BY <1>3 DEF Step
  <2>2. StepInv' /\ \A t \in Post \ {s} : UNCHANGED <<status[t], stepping[t]>>
    BY <2>1
  <2>3. Left(s) = 3
    BY <2>1 DEF Left
  <2>4. ~stepping'[s] /\ status'[s] \in {"running", "waiting_for_user", "done"}
    BY <2>1
  <2>5. Left(s)' \in {0, 1, 2}
    BY <2>4 DEF Left
  <2> QED
    BY <2>2, <2>3, <2>5
<1>4. CASE Resumed(s)
  <2>1. /\ status[s] = "waiting_for_user" /\ UNCHANGED stepping
        /\ \/ status' = [status EXCEPT ![s] = "cancelled"]
           \/ status' = [status EXCEPT ![s] = "done"]
           \/ status' = [status EXCEPT ![s] = "running"]
    BY <1>4 DEF Resumed
  <2>2. StepInv' /\ \A t \in Post \ {s} : UNCHANGED <<status[t], stepping[t]>>
    BY <2>1
  <2>3. Left(s) = 2
    BY <2>1 DEF Left
  <2>4. ~stepping'[s] /\ status'[s] \in {"running", "cancelled", "done"}
    BY <2>1
  <2>5. Left(s)' \in {0, 1}
    BY <2>4 DEF Left
  <2> QED
    BY <2>2, <2>3, <2>5
<1>5. CASE AskTimeout(s)
  <2>1. /\ status[s] = "waiting_for_user" /\ UNCHANGED stepping
        /\ status' = [status EXCEPT ![s] = "timed_out"]
    BY <1>5 DEF AskTimeout, Waits
  <2> QED
    BY <2>1 DEF Left
<1> QED
  BY <1>1, <1>2, <1>3, <1>4, <1>5 DEF WorkerStep

\* A session is popped once, when it is queued.
LEMMA WindPop ==
    ASSUME SessionInv, StepInv, Pop
    PROVE  /\ StepInv'
           /\ \A s \in Post : Left(s)' <= Left(s)
<1> USE DEF SessionInv, TypeInv, QueueInv, StepInv
<1>1. /\ Head(queue) \in Post /\ status[Head(queue)] = "queued"
      /\ status' = [status EXCEPT ![Head(queue)] = "assigned"]
      /\ crashed' \subseteq crashed /\ UNCHANGED stepping
  BY TailFacts DEF Pop, SetStatus
<1>2. ASSUME NEW s \in Post PROVE Left(s)' <= Left(s)
  <2>1. CASE s = Head(queue)
    <3>1. status'[s] = "assigned" /\ status[s] = "queued"
      BY <1>1, <2>1
    <3>2. Left(s) = 5 /\ Left(s)' = 4
      BY <3>1 DEF Left
    <3> QED
      BY <3>2
  <2>2. CASE s # Head(queue)
    <3>1. UNCHANGED <<status[s], stepping[s]>>
      BY <1>1, <2>2
    <3>2. Left(s)' = Left(s) /\ Left(s) \in Nat
      BY <3>1 DEF Left
    <3> QED
      BY <3>2
  <2> QED
    BY <2>1, <2>2
<1>3. StepInv'
  BY <1>1
<1> QED
  BY <1>2, <1>3

\* A death and what recovery does after it touch one session only; what they
\* leave to run of it is no more, unless it is put back in the queue.
LEMMA WindCrash ==
    ASSUME SessionInv, StepInv, NEW s \in Post, CrashStep(s)
    PROVE  /\ StepInv'
           /\ Left(s)' <= Left(s) \/ Requeue(s)
           /\ \A t \in Post \ {s} : UNCHANGED <<status[t], stepping[t]>>
<1> USE DEF SessionInv, TypeInv, StepInv, SetStatus, crashVars
<1>1. CASE WorkerDies(s)
  <2>1. /\ UNCHANGED status /\ crashed' = crashed \cup {s}
        /\ stepping' = [stepping EXCEPT ![s] = FALSE]
    BY <1>1 DEF WorkerDies
  <2>2. status'[s] = status[s] /\ ~stepping'[s]
    BY <2>1
  <2>3. Left(s)' <= Left(s)
    BY <2>2 DEF Left
  <2> QED
    BY <2>1, <2>3
<1>2. CASE Requeue(s)
  <2>1. /\ status[s] = "assigned" /\ UNCHANGED <<stepping, crashed>>
        /\ status' = [status EXCEPT ![s] = "queued"]
    BY <1>2 DEF Requeue
  <2> QED
    BY <1>2, <2>1
<1>3. CASE Lost(s)
  <2>1. /\ status' = [status EXCEPT ![s] = "failed"]
        /\ UNCHANGED stepping
    BY <1>3 DEF Lost
  <2>2. crashed' \subseteq crashed /\ ~stepping[s]
    BY <1>3 DEF Lost
  <2>3. Left(s)' = 0
    BY <2>1 DEF Left
  <2> QED
    BY <2>1, <2>2, <2>3 DEF Left
<1> QED
  BY <1>1, <1>2, <1>3 DEF CrashStep

\* The others change no status.
LEMMA WindOther ==
    ASSUME StepInv,
           \/ \E c \in Caller : CallerStep(c)
           \/ CounterExpires \/ SkipLocked \/ UNCHANGED vars
    PROVE  StepInv' /\ UNCHANGED <<status, stepping>>
<1> USE DEF sessionVars, crashVars
<1>1. ASSUME NEW c \in Caller, CallerStep(c) PROVE UNCHANGED <<status, stepping, crashed>>
  BY <1>1 DEF CallerStep, Call, CallDecide, CallReturn, CallRead, CallFlag,
     CallUnblock, CallAnswer
<1>2. ASSUME CounterExpires \/ SkipLocked \/ UNCHANGED vars PROVE UNCHANGED <<status, stepping, crashed>>
  BY <1>2 DEF CounterExpires, SkipLocked, vars
<1>3. UNCHANGED <<status, stepping, crashed>>
  BY <1>1, <1>2
<1> QED
  BY <1>3 DEF StepInv

\* What is left of a flagged session grows only when a worker died before it
\* started, and shrinks as it steps.
WindsDown(s) ==
    flag[s] /\ Exists(s) =>
        /\ Left(s)' \in Nat
        /\ Left(s)' <= Left(s) \/ (s \in crashed /\ Requeue(s))
        /\ WorkerStep(s) => Left(s)' < Left(s)

\* Each step of the specification is one of these.
LEMMA WindStep ==
    ASSUME SessionInv, StepInv, [Next]_vars
    PROVE  StepInv' /\ \A s \in Post : WindsDown(s)
<1>1. \A s \in Post : Left(s) \in Nat /\ Left(s)' \in Nat
  BY DEF Left
<1>2. \A s \in Post : UNCHANGED <<status[s], stepping[s]>> => Left(s)' <= Left(s)
  <2>1. \A s \in Post : UNCHANGED <<status[s], stepping[s]>> => Left(s)' = Left(s)
    BY DEF Left
  <2> QED
    BY <1>1, <2>1
<1>3. \A s \in Post : WorkerStep(s) =>
         StepInv' /\ (flag[s] => Left(s)' < Left(s) /\ Left(s)' <= Left(s))
  <2>1. \A s \in Post : WorkerStep(s) => StepInv' /\ (flag[s] => Left(s)' < Left(s))
    BY WindWorker
  <2> QED
    BY <1>1, <2>1
<1>4. ASSUME NEW p \in Post, Arrive(p) \/ PostStep(p)
      PROVE  StepInv' /\ \A s \in Post : WindsDown(s)
  BY <1>1, <1>2, <1>3, <1>4, WindPost DEF WindsDown
<1>5. CASE Pop
  BY <1>1, <1>3, <1>5, WindPop DEF WindsDown
<1>6. ASSUME NEW s \in Post, WorkerStep(s)
      PROVE  StepInv' /\ \A t \in Post : WindsDown(t)
  <2>1. StepInv' /\ \A t \in Post \ {s} : UNCHANGED <<status[t], stepping[t]>>
    BY <1>6, WindWorker
  <2> QED
    BY <1>1, <1>2, <1>3, <1>6, <2>1 DEF WindsDown
<1>8. ASSUME NEW s \in Post, CrashStep(s)
      PROVE  StepInv' /\ \A t \in Post : WindsDown(t)
  <2>1. /\ StepInv' /\ \A t \in Post \ {s} : UNCHANGED <<status[t], stepping[t]>>
        /\ Left(s)' <= Left(s) \/ Requeue(s)
    BY <1>8, WindCrash
  <2>2. Requeue(s) => s \in crashed
    BY DEF Requeue
  <2> QED
    BY <1>1, <1>2, <1>3, <2>1, <2>2 DEF WindsDown
<1>7. CASE \/ \E c \in Caller : CallerStep(c)
           \/ CounterExpires \/ SkipLocked \/ UNCHANGED vars
  <2>1. StepInv' /\ UNCHANGED <<status, stepping>>
    BY <1>7, WindOther
  <2> QED
    BY <1>1, <1>2, <1>3, <2>1 DEF WindsDown
<1> QED
  BY <1>4, <1>5, <1>6, <1>7, <1>8 DEF Next

\* Safety half of EarlierEnds, of cancel_requested's being read before each step:
\* an iteration that was told to stop has at most the browser step under way
\* left; no POST, caller or answer in its resume list gives it another.  Only a
\* worker's death before it started it makes it wait in the queue once more.
THEOREM ToldWindsDown == Spec => [][\A s \in Post : WindsDown(s)]_vars
<1>1. Init => SessionInv /\ StepInv
  BY SessionInit DEF Init, StepInv
<1>2. SessionInv /\ StepInv /\ [Next]_vars =>
         SessionInv' /\ StepInv' /\ [\A s \in Post : WindsDown(s)]_vars
  BY SessionStep, WindStep
<1> QED
  BY <1>1, <1>2, PTL DEF Spec
=============================================================================
