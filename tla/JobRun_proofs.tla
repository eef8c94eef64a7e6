--------------------------- MODULE JobRun_proofs ---------------------------
(***************************************************************************)
(* The run of a session for any number of concurrent cancels, answers and  *)
(* kill-alls, of steps and of deaths of the worker: what its events, its   *)
(* status and its result say of each other, that a cancel reaches a worker *)
(* that waits, and that the status implements SessionLifecycle.            *)
(***************************************************************************)
EXTENDS JobRun, TLAPS

\* An appended event or message comes last.
LEMMA AppendFacts ==
    ASSUME NEW S, NEW s \in Seq(S), NEW e \in S
    PROVE  /\ Append(s, e) \in Seq(S)
           /\ Len(Append(s, e)) = Len(s) + 1
           /\ \A i \in DOMAIN Append(s, e) :
                 \/ i \in DOMAIN s /\ Append(s, e)[i] = s[i]
                 \/ i = Len(s) + 1 /\ Append(s, e)[i] = e
           /\ \A i \in DOMAIN s : i \in DOMAIN Append(s, e) /\ Append(s, e)[i] = s[i]
           /\ Append(s, e)[Len(s) + 1] = e /\ Len(s) + 1 \in DOMAIN Append(s, e)
  OBVIOUS

\* A BLPOP loses the first message only.
LEMMA TailFacts ==
    ASSUME NEW S, NEW s \in Seq(S), s # <<>>
    PROVE  /\ Tail(s) \in Seq(S) /\ Head(s) \in S
           /\ \A i \in DOMAIN s : \/ s[i] = Head(s)
                                  \/ i - 1 \in DOMAIN Tail(s) /\ Tail(s)[i - 1] = s[i]
  OBVIOUS

-----------------------------------------------------------------------------
Status  == {"queued", "assigned", "running", "waiting_for_user"} \cup Terminal
Event   == {"step", "ask"} \cup Terminal
Message == {"cancel"} \cup Answer

\* A run that is to end has a verdict, a handler that pushes has a message, and
\* recovery is busy with a dead worker's session only.
PointerInv ==
    /\ pc \in {"announce", "verdict", "persist"} => verdict \in Terminal
    /\ \A r \in Request : rpc[r] = "push" => rmsg[r] # "none"
    /\ recPc # "idle" => pc = "dead"

TypeInv == TypeOK /\ PointerInv

\* The worker's thread keeps every variable in its range.
LEMMA TypeJob == TypeInv /\ JobStep => TypeInv'
<1> SUFFICES ASSUME TypeInv, JobStep PROVE TypeInv'
  OBVIOUS
<1> USE RunAssumption DEF TypeInv, TypeOK, PointerInv, Terminal
<1>1. CASE Assign \/ Begin \/ Load \/ Check \/ GenStops \/ Wait \/ RunAgain \/ AskTimeout
  BY <1>1 DEF Assign, Begin, Load, Check, GenStops, Wait, RunAgain, AskTimeout,
              Conclude, hashVars, reqVars
<1>2. CASE GenYields \/ GenRaises
  BY <1>2 DEF GenYields, GenRaises, Conclude, hashVars, reqVars
<1>3. CASE PushStep \/ PushAsk \/ Announce
  <2>1. PICK e \in Event : events' = Append(events, e)
    BY <1>3 DEF PushStep, PushAsk, Announce, Event
  <2>2. events' \in Seq(Event)
    BY <2>1 DEF Event
  <2> QED
    BY <1>3, <2>2 DEF PushStep, PushAsk, Announce, hashVars, reqVars, Event
<1>4. CASE Resumed
  <2>1. resume' \in Seq(Message) /\ Head(resume) \in Message
    BY <1>4 DEF Resumed, Message
  <2>2. \/ pc' = "announce" /\ verdict' \in {"cancelled", "done"}
        \/ pc' = "resumed" /\ verdict' = verdict
    BY <1>4, <2>1 DEF Resumed, Conclude, Message, Answer
  <2> QED
    BY <1>4, <2>1, <2>2 DEF Resumed, hashVars, reqVars, Message
<1>5. CASE WriteVerdict \/ Persist \/ Cleanup
  <2>1. resume' \in Seq(Message)
    <3>1. CASE resume' = <<>>
      BY <3>1
    <3>2. CASE resume' = resume
      BY <3>2 DEF Message
    <3> QED
      BY <1>5, <3>1, <3>2 DEF WriteVerdict, Persist, Cleanup
  <2> QED
    BY <1>5, <2>1 DEF WriteVerdict, Persist, Cleanup, hashVars, reqVars, Message
<1> QED
  BY <1>1, <1>2, <1>3, <1>4, <1>5 DEF JobStep

\* So do the requests and recovery.
LEMMA TypeStep == TypeInv /\ [Next]_vars => TypeInv'
<1> SUFFICES ASSUME TypeInv, [Next]_vars PROVE TypeInv'
  OBVIOUS
<1>1. CASE JobStep
  BY <1>1, TypeJob
<1> USE RunAssumption DEF TypeInv, TypeOK, PointerInv, Terminal
<1>2. ASSUME NEW r \in Request,
             CancelRead(r) \/ CancelFlag(r) \/ KillWrite(r) \/ ResumeRead(r)
      PROVE  TypeInv'
  <2>1. CASE CancelRead(r) \/ ResumeRead(r)
    BY <2>1 DEF CancelRead, ResumeRead, Refuse, Answer, hashVars, jobVars
  <2>2. CASE CancelFlag(r) \/ KillWrite(r)
    <3>1. /\ \E next \in {"ok", "push"} :
                rpc' = [rpc EXCEPT ![r] = next] /\ (next = "push" => rmsg[r] # "none")
          /\ cancelReq' = TRUE /\ status' \in {status, "cancelled"}
          /\ UNCHANGED <<resume, events, result, callback, jobVars, rmsg, recPc, crashes>>
      BY <2>2 DEF CancelFlag, KillWrite, Flagged
    <3> QED
      BY <3>1 DEF jobVars
  <2> QED
    BY <1>2, <2>1, <2>2
<1>3. ASSUME NEW r \in Request, PushResume(r) PROVE TypeInv'
  <2>1. rmsg[r] \in Message
    BY <1>3 DEF PushResume, Message
  <2>2. resume' \in Seq(Message)
    BY <1>3, <2>1 DEF PushResume, Message
  <2> QED
    BY <1>3, <2>2 DEF PushResume, Message, hashVars, jobVars
<1>4. CASE Die \/ RecRead \/ RecRequeue \/ RecFail \/ RecPush \/ Take
  <2>1. events' \in Seq(Event)
    <3>1. events' = events \/ events' = Append(events, "failed")
      BY <1>4 DEF Die, Take, RecRead, RecRequeue, RecFail, RecPush
    <3>2. events \in Seq(Event) /\ "failed" \in Event
      BY DEF Event
    <3> QED
      BY <3>1, <3>2
  <2> QED
    BY <1>4, <2>1 DEF Die, Take, RecRead, RecRequeue, RecFail, RecPush, hashVars, jobVars,
                      reqVars, Event
<1>5. CASE UNCHANGED vars
  BY <1>5 DEF vars, hashVars, jobVars, reqVars
<1> QED
  BY <1>1, <1>2, <1>3, <1>4, <1>5
     DEF Next, CancelStep, ResumeStep, KillStep, RecoveryStep, Request

\* So does the start.
LEMMA TypeInit == Init => TypeInv
<1> SUFFICES ASSUME Init PROVE TypeInv
  OBVIOUS
<1>1. /\ events \in Seq({"step", "ask"} \cup Terminal)
      /\ resume \in Seq({"cancel"} \cup Answer)
  BY DEF Init
<1>2. /\ status = "queued" /\ result = "none" /\ pc = "assign" /\ verdict = "none"
      /\ recPc = "idle" /\ steps = 0 /\ crashes = 0 /\ cancelReq = FALSE
  BY Zenon DEF Init
<1>3. steps \in 0..MaxSteps /\ crashes \in 0..MaxCrashes
  BY <1>2, RunAssumption
<1>4. cancelReq \in BOOLEAN /\ callback \in BOOLEAN
  BY <1>2, RunAssumption, Zenon DEF Init
<1>5. /\ rpc \in [Request -> {"idle", "flag", "push", "ok", "refused"}]
      /\ rmsg \in [Request -> {"none", "cancel"} \cup Answer]
  BY DEF Init
<1> QED
  <2>1. TypeOK
    BY <1>1, <1>2, <1>3, <1>4, <1>5, Zenon DEF TypeOK
  <2>2. PointerInv
    BY DEF Init, PointerInv
  <2> QED
    BY <2>1, <2>2 DEF TypeInv

\* Type correctness of the specification.
THEOREM TypeCorrect == Spec => []TypeOK
<1>1. TypeInv => TypeOK
  BY DEF TypeInv
<1> QED
  BY <1>1, TypeInit, TypeStep, PTL DEF Spec

-----------------------------------------------------------------------------
(* The thread's steps by what they do to its place and to the status.        *)

Moves ==
    \/ pc = "assign" /\ pc' = "begin" /\ status' = "assigned"
    \/ pc = "begin" /\ pc' = "load" /\ status' = "running"
    \/ /\ pc \in {"load", "check", "gen", "step", "ask"}
       /\ pc' \in {"check", "gen", "step", "ask", "wait"}
       /\ UNCHANGED status
    \/ /\ pc \in {"load", "check", "gen", "blocked"}
       /\ pc' = "announce"
       /\ verdict' = "timed_out" => pc = "blocked"
       /\ UNCHANGED status
    \/ pc = "wait" /\ pc' = "blocked" /\ status' = "waiting_for_user"
    \/ pc = "blocked" /\ pc' = "resumed" /\ UNCHANGED status
    \/ pc = "resumed" /\ pc' = "check" /\ status' = "running"
    \/ pc = "announce" /\ pc' = "verdict" /\ UNCHANGED <<status, verdict>>
    \/ pc = "verdict" /\ pc' = "persist" /\ status' = verdict /\ UNCHANGED verdict
    \/ pc = "gen" /\ pc' = "cleanup" /\ status' = "done"
    \/ pc \in {"persist", "cleanup"} /\ pc' \in {"cleanup", "end"} /\ UNCHANGED status

\* These are all the steps there are.
LEMMA JobMoves == TypeInv /\ JobStep => Moves /\ UNCHANGED <<rpc, rmsg, recPc>>
<1> SUFFICES ASSUME TypeInv, JobStep PROVE Moves /\ UNCHANGED <<rpc, rmsg, recPc>>
  OBVIOUS
<1> USE DEF Moves, hashVars, reqVars, Conclude
<1>1. CASE Assign \/ Begin \/ Wait \/ RunAgain
  BY <1>1 DEF Assign, Begin, Wait, RunAgain
<1>2. CASE Load \/ Check
  BY <1>2 DEF Load, Check
<1>3. CASE GenYields \/ GenRaises \/ GenStops
  BY <1>3 DEF GenYields, GenRaises, GenStops
<1>4. CASE PushStep \/ PushAsk \/ Announce
  BY <1>4 DEF PushStep, PushAsk, Announce
<1>5. CASE Resumed
  <2>1. Head(resume) \in Message
    BY <1>5 DEF Resumed, Message, TypeInv, TypeOK
  <2>2. pc' \in {"announce", "resumed"}
    BY <1>5, <2>1 DEF Resumed, Message, Answer
  <2> QED
    BY <1>5, <2>2 DEF Resumed
<1>6. CASE AskTimeout
  BY <1>6 DEF AskTimeout
<1>7. CASE WriteVerdict \/ Persist \/ Cleanup
  BY <1>7 DEF WriteVerdict, Persist, Cleanup
<1> QED
  BY <1>1, <1>2, <1>3, <1>4, <1>5, <1>6, <1>7 DEF JobStep

-----------------------------------------------------------------------------
(* What the status says of where the worker is, kill-all or not.             *)

StatusInv ==
    /\ status = "assigned" => pc \in {"begin", "dead"}
    /\ status = "waiting_for_user" =>
          /\ pc \in {"blocked", "resumed", "announce", "verdict", "dead"}
          /\ recPc # "requeue"
    /\ recPc = "push" => status \in Terminal
    /\ recPc = "requeue" => status \in {"assigned", "cancelled"}

\* StatusInv holds along every run.
LEMMA StatusStep == TypeInv /\ StatusInv /\ [Next]_vars => StatusInv'
<1> SUFFICES ASSUME TypeInv, StatusInv, [Next]_vars PROVE StatusInv'
  OBVIOUS
<1> USE DEF TypeInv, PointerInv, StatusInv, Terminal
<1>1. CASE JobStep
  BY <1>1, JobMoves DEF Moves
<1>2. ASSUME NEW r \in Request,
             CancelRead(r) \/ CancelFlag(r) \/ KillWrite(r) \/ ResumeRead(r) \/ PushResume(r)
      PROVE  StatusInv'
  BY <1>2 DEF CancelRead, CancelFlag, KillWrite, ResumeRead, PushResume, hashVars, jobVars
<1>3. CASE Die \/ RecoveryStep \/ Take
  BY <1>3 DEF Die, RecoveryStep, Take, RecRead, RecRequeue, RecFail, RecPush, hashVars, jobVars
<1>4. CASE UNCHANGED vars
  BY <1>4 DEF vars, hashVars, jobVars
<1> QED
  BY <1>1, <1>2, <1>3, <1>4 DEF Next, CancelStep, ResumeStep, KillStep, Request

-----------------------------------------------------------------------------
(* The verdict: the terminal event comes once, after everything else.        *)

\* Before its announcement, and after it.
Before == {"queued", "assign", "begin", "load", "check", "gen", "step", "ask", "wait", "blocked",
           "resumed", "announce"}
After  == {"verdict", "persist", "cleanup", "end"}

NoneYet  == \A i \in DOMAIN events : events[i] \notin Terminal
LastOnly == \A i \in DOMAIN events : events[i] \in Terminal => i = Len(events)

\* A worker's death takes away what is known of its place; that the session is
\* not over by its status then says that recovery has not spoken yet.
VerdictInv ==
    /\ pc \in Before => NoneYet
    /\ pc \in After => LastOnly
    /\ status = "assigned" \/ recPc = "requeue" => NoneYet
    /\ recPc \in {"fail", "push"} => LastOnly
    /\ pc = "dead" /\ recPc = "idle" /\ status \notin Terminal => LastOnly
    /\ OneVerdict

\* An event after none or after one that is terminal.
LEMMA PushedLast ==
    ASSUME TypeInv, NEW e \in Event, events' = Append(events, e)
    PROVE  /\ NoneYet /\ e \notin Terminal => NoneYet'
           /\ NoneYet => LastOnly'
           /\ LastOnly /\ e = "failed" /\ pc' = "dead" => OneVerdict'
<1>1. events \in Seq(Event)
  BY DEF TypeInv, TypeOK, Event
<1>2. /\ Len(events') = Len(events) + 1 /\ Len(events) \in Nat
      /\ \A i \in DOMAIN events' :
            \/ i \in DOMAIN events /\ events'[i] = events[i]
            \/ i = Len(events) + 1 /\ events'[i] = e
      /\ events'[Len(events) + 1] = e
  BY <1>1
<1>3. DOMAIN events \subseteq Nat
  BY <1>1
<1> QED
  BY <1>2, <1>3 DEF NoneYet, LastOnly, OneVerdict, Terminal

\* Without an event nothing changes as long as the places agree.
LEMMA NothingPushed ==
    ASSUME UNCHANGED events
    PROVE  /\ NoneYet' <=> NoneYet
           /\ LastOnly' <=> LastOnly
           /\ NoneYet => LastOnly /\ OneVerdict'
           /\ LastOnly => OneVerdict'
           /\ OneVerdict /\ (pc = "dead" => pc' = "dead") => OneVerdict'
  BY DEF NoneYet, LastOnly, OneVerdict

\* VerdictInv holds along every run.
LEMMA VerdictStep == TypeInv /\ StatusInv /\ VerdictInv /\ [Next]_vars => VerdictInv'
<1> SUFFICES ASSUME TypeInv, StatusInv, VerdictInv, [Next]_vars PROVE VerdictInv'
  OBVIOUS
<1>1. CASE PushStep \/ PushAsk
  <2>1. PICK e \in {"step", "ask"} : events' = Append(events, e)
    BY <1>1 DEF PushStep, PushAsk
  <2>2. NoneYet'
    BY <1>1, <2>1, PushedLast DEF PushStep, PushAsk, VerdictInv, Before, Event, Terminal
  <2> QED
    BY <1>1, <2>2 DEF PushStep, PushAsk, VerdictInv, Before, After, NoneYet, LastOnly,
                      OneVerdict, TypeInv, PointerInv
<1>2. CASE Announce
  <2>1. LastOnly'
    BY <1>2, PushedLast DEF Announce, VerdictInv, Before, Event, TypeInv, PointerInv
  <2>2. status # "assigned" /\ status' = status /\ recPc = "idle" /\ recPc' = "idle"
        /\ pc' = "verdict"
    BY <1>2 DEF Announce, StatusInv, hashVars, TypeInv, PointerInv
  <2> QED
    BY <2>1, <2>2 DEF VerdictInv, Before, After, LastOnly, OneVerdict
<1>3. CASE RecPush
  <2>1. OneVerdict' /\ pc' = "dead" /\ recPc' = "idle" /\ status' \in Terminal
    BY <1>3, PushedLast DEF RecPush, VerdictInv, Event, TypeInv, PointerInv, StatusInv,
                            Terminal, hashVars, jobVars
  <2> QED
    BY <2>1 DEF VerdictInv, Before, After, Terminal
<1>4. CASE JobStep /\ ~(PushStep \/ PushAsk \/ Announce)
  <2>1. UNCHANGED events
    BY <1>4 DEF JobStep, Assign, Begin, Load, Check, GenYields, GenRaises, GenStops, Wait,
                Resumed, AskTimeout, RunAgain, WriteVerdict, Persist, Cleanup
  <2>2. Moves /\ UNCHANGED recPc
    BY <1>4, JobMoves
  <2>3. pc \notin {"step", "ask", "announce"}
    BY <1>4 DEF JobStep, Assign, Begin, Load, Check, GenYields, GenRaises, GenStops, Wait,
                Resumed, AskTimeout, RunAgain, WriteVerdict, Persist, Cleanup
  <2>4. recPc = "idle" /\ pc' # "dead"
    BY <2>2 DEF Moves, TypeInv, PointerInv
  <2>5. \/ pc \in Before /\ pc' \in Before \cup After
        \/ pc \in After /\ pc' \in After /\ status' # "assigned"
    BY <2>2, <2>3 DEF Moves, Before, After, StatusInv, TypeInv, PointerInv, Terminal
  <2> QED
    BY <2>1, <2>2, <2>4, <2>5, NothingPushed DEF VerdictInv, Before, After
<1>5. ASSUME NEW r \in Request,
             CancelRead(r) \/ CancelFlag(r) \/ KillWrite(r) \/ ResumeRead(r) \/ PushResume(r)
      PROVE  VerdictInv'
  <2>1. UNCHANGED <<events, pc, recPc>> /\ status' \in {status, "cancelled"}
    BY <1>5 DEF CancelRead, CancelFlag, KillWrite, ResumeRead, PushResume, hashVars, jobVars
  <2> QED
    BY <2>1, NothingPushed DEF VerdictInv, Terminal
<1>6. CASE Die
  <2>1. UNCHANGED <<events, recPc, status>> /\ recPc = "idle" /\ pc \in Before \cup After
        /\ pc' = "dead"
    BY <1>6 DEF Die, TypeInv, TypeOK, PointerInv, Before, After, hashVars
  <2> QED
    BY <2>1, NothingPushed DEF VerdictInv, Before, After
<1>7. CASE RecRead
  <2>1. /\ UNCHANGED <<events, status, pc>> /\ recPc = "idle" /\ pc = "dead"
        /\ status \notin Terminal
        /\ recPc' = "fail" \/ (recPc' = "requeue" /\ status = "assigned")
    BY <1>7 DEF RecRead, hashVars, jobVars, Terminal
  <2> QED
    BY <2>1, NothingPushed DEF VerdictInv, Before, After
<1>8. CASE RecRequeue
  <2>1. UNCHANGED events /\ NoneYet /\ pc' = "queued" /\ status' = "queued" /\ recPc' = "idle"
    BY <1>8 DEF RecRequeue, VerdictInv
  <2> QED
    BY <2>1, NothingPushed DEF VerdictInv, Before, After
<1>9. CASE RecFail
  <2>1. /\ UNCHANGED <<events, pc>> /\ LastOnly /\ status' = "failed" /\ recPc' = "push"
        /\ pc = "dead"
    BY <1>9 DEF RecFail, VerdictInv, jobVars, TypeInv, PointerInv
  <2> QED
    BY <2>1, NothingPushed DEF VerdictInv, Before, After
<1>10. CASE Take
  <2>1. UNCHANGED <<events, status, recPc>> /\ pc = "queued" /\ pc' = "assign"
    BY <1>10 DEF Take, hashVars
  <2> QED
    BY <2>1, NothingPushed DEF VerdictInv, Before, After
<1>11. CASE UNCHANGED vars
  BY <1>11, NothingPushed DEF vars, hashVars, jobVars, VerdictInv
<1> QED
  BY <1>1, <1>2, <1>3, <1>4, <1>5, <1>6, <1>7, <1>8, <1>9, <1>10, <1>11
     DEF Next, CancelStep, ResumeStep, KillStep, RecoveryStep, Request

\* After a terminal event a client sees nothing more, but recovery's "failed".
THEOREM VerdictIsLast == Spec => []OneVerdict
<1>1. Init => StatusInv /\ VerdictInv
  BY DEF Init, StatusInv, VerdictInv, NoneYet, OneVerdict, Before, After
<1>2. VerdictInv => OneVerdict
  BY DEF VerdictInv
<1> QED
  BY <1>1, <1>2, TypeInit, TypeStep, StatusStep, VerdictStep, PTL DEF Spec

-----------------------------------------------------------------------------
(* The result: written last, when event and status stand.                    *)

Killed == \E r \in Admin : rpc[r] # "idle"

LastIs(v) == events # <<>> /\ events[Len(events)] = v

Stands(v) == status = v \/ (status = "cancelled" /\ Killed)

ResultInv ==
    /\ pc \in {"verdict", "persist"} => LastIs(verdict)
    /\ pc = "persist" => Stands(verdict)
    /\ result # "none" =>
          /\ pc \in {"cleanup", "end", "dead"} /\ recPc = "idle" /\ status \in Terminal
          /\ LastIs(result) /\ Stands(result)

\* A kill-all that has begun stays begun.
LEMMA KilledStays == TypeInv /\ Killed /\ [Next]_vars => Killed'
<1> SUFFICES ASSUME TypeInv, Killed, [Next]_vars PROVE Killed'
  OBVIOUS
<1>1. PICK k \in Admin : rpc[k] # "idle"
  BY DEF Killed
<1>2. CASE JobStep
  BY <1>1, <1>2, JobMoves DEF Killed
<1>3. ASSUME NEW r \in Request,
             CancelRead(r) \/ CancelFlag(r) \/ KillWrite(r) \/ ResumeRead(r) \/ PushResume(r)
      PROVE  Killed'
  <2>1. \E v \in {"flag", "push", "ok", "refused"} : rpc' = [rpc EXCEPT ![r] = v]
    BY <1>3 DEF CancelRead, CancelFlag, KillWrite, ResumeRead, PushResume, Refuse, Flagged
  <2>2. rpc'[k] # "idle"
    BY <1>1, <2>1 DEF TypeInv, TypeOK, Request
  <2> QED
    BY <2>2 DEF Killed
<1>4. CASE Die \/ RecoveryStep \/ Take \/ UNCHANGED vars
  BY <1>1, <1>4 DEF Die, RecoveryStep, Take, RecRead, RecRequeue, RecFail, RecPush, vars, reqVars,
                    Killed
<1> QED
  BY <1>2, <1>3, <1>4 DEF Next, CancelStep, ResumeStep, KillStep, Request

\* ResultInv holds along every run.
LEMMA ResultStep == TypeInv /\ StatusInv /\ ResultInv /\ [Next]_vars => ResultInv'
<1> SUFFICES ASSUME TypeInv, StatusInv, ResultInv, [Next]_vars PROVE ResultInv'
  OBVIOUS
<1>1. CASE Announce
  <2>1. LastIs(verdict)' /\ pc' = "verdict" /\ result' = "none"
    <3>1. verdict \in Event /\ events \in Seq(Event)
      BY <1>1 DEF Announce, TypeInv, TypeOK, PointerInv, Event
    <3>2. LastIs(verdict)'
      BY <1>1, <3>1 DEF Announce, LastIs
    <3> QED
      BY <1>1, <3>2 DEF Announce, ResultInv
  <2> QED
    BY <2>1 DEF ResultInv
<1>2. CASE WriteVerdict
  BY <1>2 DEF WriteVerdict, ResultInv, LastIs, Stands
<1>3. CASE Persist
  <2>1. /\ UNCHANGED <<events, status, rpc, recPc>> /\ recPc = "idle"
        /\ pc' = "cleanup" /\ result' \in {verdict, "none"} /\ verdict \in Terminal
        /\ LastIs(verdict) /\ Stands(verdict)
    BY <1>3 DEF Persist, ResultInv, TypeInv, PointerInv, hashVars, reqVars
  <2>2. status \in Terminal
    BY <2>1 DEF Stands, Terminal
  <2> QED
    BY <2>1, <2>2 DEF ResultInv, LastIs, Stands, Killed
<1>4. CASE JobStep /\ ~(Announce \/ WriteVerdict \/ Persist)
  <2>1. UNCHANGED <<rpc, recPc>> /\ pc' \notin {"verdict", "persist"}
    BY <1>4, JobMoves DEF Moves, JobStep, Assign, Begin, Load, Check, GenYields, GenRaises,
                GenStops, PushStep, PushAsk, Wait, Resumed, AskTimeout, RunAgain, Cleanup
  <2>2. pc = "cleanup" => pc' = "end" /\ UNCHANGED <<events, status>>
    BY <1>4 DEF JobStep, Assign, Begin, Load, Check, GenYields, GenRaises, GenStops,
                PushStep, PushAsk, Wait, Resumed, AskTimeout, RunAgain, Cleanup, hashVars
  <2>3. UNCHANGED result /\ pc \notin {"end", "dead"}
    BY <1>4 DEF JobStep, Assign, Begin, Load, Check, GenYields, GenRaises, GenStops,
                PushStep, PushAsk, Wait, Resumed, AskTimeout, RunAgain, Cleanup
  <2> QED
    BY <2>1, <2>2, <2>3 DEF ResultInv, LastIs, Stands, Killed
<1>5. ASSUME NEW r \in Request,
             CancelRead(r) \/ CancelFlag(r) \/ ResumeRead(r) \/ PushResume(r)
      PROVE  ResultInv'
  <2>1. UNCHANGED <<status, events, result, pc, verdict, recPc>>
    BY <1>5 DEF CancelRead, CancelFlag, ResumeRead, PushResume, hashVars, jobVars
  <2> QED
    BY <2>1, KilledStays DEF ResultInv, LastIs, Stands
<1>6. ASSUME NEW r \in Admin, KillWrite(r) PROVE ResultInv'
  <2>1. UNCHANGED <<events, result, pc, verdict, recPc>> /\ status' = "cancelled"
    BY <1>6 DEF KillWrite, jobVars
  <2>2. Killed'
    BY <1>6, KilledStays DEF KillWrite, Killed
  <2> QED
    BY <2>1, <2>2 DEF ResultInv, LastIs, Stands, Terminal
<1>7. CASE Die
  BY <1>7 DEF Die, ResultInv, LastIs, Stands, Killed, hashVars, reqVars, TypeInv, PointerInv
<1>8. CASE RecRead \/ RecRequeue \/ RecFail \/ RecPush \/ Take
  <2>1. result = "none" /\ result' = "none" /\ pc' \notin {"verdict", "persist"}
    BY <1>8 DEF Take, RecRead, RecRequeue, RecFail, RecPush, ResultInv, Terminal, jobVars,
                TypeInv, PointerInv
  <2> QED
    BY <2>1 DEF ResultInv
<1>9. CASE UNCHANGED vars
  BY <1>9 DEF vars, hashVars, jobVars, reqVars, ResultInv, LastIs, Stands, Killed
<1> QED
  BY <1>1, <1>2, <1>3, <1>4, <1>5, <1>6, <1>7, <1>8, <1>9
     DEF Next, CancelStep, ResumeStep, KillStep, RecoveryStep, Request

\* A result.json, the last event and, kill-alls apart, the status agree.
THEOREM ResultAgrees == Spec => []ResultIsAnnounced
<1>1. Init => StatusInv /\ ResultInv
  BY DEF Init, StatusInv, ResultInv
<1>2. ResultInv => ResultIsAnnounced
  BY DEF ResultInv, ResultIsAnnounced, LastIs, Stands, Killed
<1> QED
  BY <1>1, <1>2, TypeInit, TypeStep, StatusStep, ResultStep, PTL DEF Spec

-----------------------------------------------------------------------------
(* A cancel that found the session waiting.                                  *)

Over == {"announce", "verdict", "persist", "cleanup", "end", "dead"}

CancelQueued == \E i \in DOMAIN resume : resume[i] = "cancel"

\* The session that was seen waiting does not start again, and the message it
\* got is in the list until the run is over.
WaitingInv ==
    \A r \in Request : rmsg[r] = "cancel" =>
        /\ pc \notin {"queued", "assign", "begin", "load"}
        /\ status # "assigned" /\ recPc # "requeue"
        /\ rpc[r] = "ok" => CancelQueued \/ pc \in Over

\* WaitingInv holds along every run.
LEMMA WaitingStep == TypeInv /\ StatusInv /\ WaitingInv /\ [Next]_vars => WaitingInv'
<1> SUFFICES ASSUME TypeInv, StatusInv, WaitingInv, [Next]_vars PROVE WaitingInv'
  OBVIOUS
<1>1. CASE Resumed
  <2>1. Head(resume) \in Message /\ resume \in Seq(Message) /\ resume # <<>>
    BY <1>1 DEF Resumed, Message, TypeInv, TypeOK
  <2>2. pc' = "announce" \/ (CancelQueued => CancelQueued')
    <3>1. SUFFICES ASSUME pc' # "announce", NEW i \in DOMAIN resume, resume[i] = "cancel"
                   PROVE  CancelQueued'
      BY DEF CancelQueued
    <3>2. Head(resume) # "cancel" /\ resume' = Tail(resume)
      BY <1>1, <2>1, <3>1 DEF Resumed, Conclude
    <3>3. i - 1 \in DOMAIN Tail(resume) /\ Tail(resume)[i - 1] = resume[i]
      BY <2>1, <3>1, <3>2
    <3> QED
      BY <3>1, <3>2, <3>3 DEF CancelQueued
  <2>3. pc = "blocked" /\ pc' \in {"announce", "resumed"} /\ UNCHANGED <<status, rpc, rmsg, recPc>>
    BY <1>1, JobMoves DEF JobStep, Moves, Resumed, hashVars
  <2> QED
    BY <2>2, <2>3 DEF WaitingInv, Over
<1>2. CASE JobStep /\ ~Resumed
  <2>1. Moves /\ UNCHANGED <<rpc, rmsg, recPc>>
    BY <1>2, JobMoves
  <2>2. UNCHANGED resume \/ (pc = "cleanup" /\ pc' = "end" /\ UNCHANGED status)
    BY <1>2 DEF JobStep, Assign, Begin, Load, Check, GenYields, GenRaises, GenStops,
                PushStep, PushAsk, Wait, AskTimeout, RunAgain, Announce, WriteVerdict,
                Persist, Cleanup, hashVars
  <2>3. pc \in Over => pc' \in Over
    BY <2>1 DEF Moves, Over
  <2> QED
    BY <2>1, <2>2, <2>3 DEF WaitingInv, Moves, Over, CancelQueued, TypeInv, PointerInv,
                            Terminal
<1>3. ASSUME NEW r \in Request, CancelRead(r) PROVE WaitingInv'
  <2>1. /\ UNCHANGED <<status, resume, pc, recPc>> /\ rpc[r] = "idle"
        /\ \E v \in {"flag", "refused"} : rpc' = [rpc EXCEPT ![r] = v]
        /\ \/ rmsg' = rmsg
           \/ \E m \in {"cancel", "none"} :
                 /\ rmsg' = [rmsg EXCEPT ![r] = m]
                 /\ m = "cancel" => status = "waiting_for_user"
    BY <1>3 DEF CancelRead, Refuse, hashVars, jobVars
  <2>2. status = "waiting_for_user" =>
            pc \notin {"queued", "assign", "begin", "load"} /\ recPc # "requeue"
    BY DEF StatusInv
  <2> QED
    BY <2>1, <2>2 DEF WaitingInv, CancelQueued, TypeInv, TypeOK
<1>4. ASSUME NEW r \in Request, CancelFlag(r) \/ KillWrite(r) PROVE WaitingInv'
  <2>1. /\ UNCHANGED <<resume, pc, recPc, rmsg>> /\ status' \in {status, "cancelled"}
        /\ \E v \in {"ok", "push"} :
              rpc' = [rpc EXCEPT ![r] = v] /\ (v = "ok" => rmsg[r] = "none")
    BY <1>4 DEF CancelFlag, KillWrite, Flagged, jobVars
  <2> QED
    BY <2>1 DEF WaitingInv, CancelQueued, TypeInv, TypeOK
<1>5. ASSUME NEW r \in Request, ResumeRead(r) PROVE WaitingInv'
  <2>1. /\ UNCHANGED <<status, resume, pc, recPc>>
        /\ \E v \in {"push", "refused"} : rpc' = [rpc EXCEPT ![r] = v]
        /\ rmsg' = rmsg \/ \E m \in Answer : rmsg' = [rmsg EXCEPT ![r] = m]
    BY <1>5 DEF ResumeRead, Refuse, hashVars, jobVars
  <2> QED
    BY <2>1 DEF WaitingInv, CancelQueued, TypeInv, TypeOK, Answer
<1>6. ASSUME NEW r \in Request, PushResume(r) PROVE WaitingInv'
  <2>1. /\ UNCHANGED <<status, pc, recPc, rmsg>>
        /\ resume' = Append(resume, rmsg[r]) /\ rpc' = [rpc EXCEPT ![r] = "ok"]
    BY <1>6 DEF PushResume, hashVars, jobVars
  <2>2. rmsg[r] \in Message /\ resume \in Seq(Message)
    BY <1>6 DEF PushResume, Message, TypeInv, TypeOK, PointerInv
  <2>3. (CancelQueued => CancelQueued') /\ (rmsg[r] = "cancel" => CancelQueued')
    BY <2>1, <2>2, AppendFacts DEF CancelQueued
  <2> QED
    BY <2>1, <2>3 DEF WaitingInv, TypeInv, TypeOK
<1>7. CASE Die
  BY <1>7 DEF Die, WaitingInv, Over, hashVars, reqVars
<1>8. CASE RecRead \/ RecRequeue \/ RecFail \/ RecPush \/ Take
  BY <1>8 DEF Take, RecRead, RecRequeue, RecFail, RecPush, WaitingInv, CancelQueued, Over,
              hashVars, jobVars, reqVars
<1>9. CASE UNCHANGED vars
  BY <1>9 DEF vars, hashVars, jobVars, reqVars, WaitingInv, CancelQueued
<1> QED
  BY <1>1, <1>2, <1>3, <1>4, <1>5, <1>6, <1>7, <1>8, <1>9
     DEF Next, CancelStep, ResumeStep, KillStep, RecoveryStep, Request

\* A worker does not wait on when a cancel that saw it waiting has been answered.
THEOREM CancelArrives == Spec => []WaitingCancelArrives
<1>1. Init => StatusInv /\ WaitingInv
  BY DEF Init, StatusInv, WaitingInv
<1>2. WaitingInv => WaitingCancelArrives
  BY DEF WaitingInv, WaitingCancelArrives, CancelQueued, Over, Request
<1> QED
  BY <1>1, <1>2, TypeInit, TypeStep, StatusStep, WaitingStep, PTL DEF Spec

-----------------------------------------------------------------------------
(* The status as a client sees it: without a kill-all it follows the place   *)
(* of the worker or of recovery, and so SessionLifecycle.                    *)

Follows ==
    /\ pc \in {"queued", "assign"} => status = "queued"
    /\ pc = "begin" => status = "assigned"
    /\ pc \in {"load", "check", "gen", "step", "ask", "wait"} => status = "running"
    /\ pc \in {"blocked", "resumed"} => status = "waiting_for_user"
    /\ pc \in {"announce", "verdict"} =>
          \/ status = "waiting_for_user"
          \/ status = "running" /\ verdict # "timed_out"
    /\ recPc = "requeue" => status = "assigned"
    /\ recPc = "fail" => status \in {"running", "waiting_for_user"}

LifeInv == Killed \/ Follows

\* An arrow of the lifecycle, or none.
Arrow ==
    \/ UNCHANGED status
    \/ Lifecycle!Assign \/ Lifecycle!Requeue \/ Lifecycle!Run \/ Lifecycle!Ask
    \/ Lifecycle!Answer \/ Lifecycle!Conclude

\* The worker, recovery and death follow the arrows.
LEMMA WorkerFollows ==
    ASSUME TypeInv, Follows, JobStep \/ Die \/ RecoveryStep \/ Take
    PROVE  Follows' /\ Arrow /\ UNCHANGED rpc
<1> USE DEF Follows, Arrow, Lifecycle!Assign, Lifecycle!Requeue, Lifecycle!Run,
            Lifecycle!Ask, Lifecycle!Answer, Lifecycle!Conclude, Lifecycle!Terminal, Terminal
<1>1. CASE JobStep
  <2>1. Moves /\ UNCHANGED <<rpc, recPc>> /\ recPc = "idle"
    BY <1>1, JobMoves DEF Moves, TypeInv, PointerInv
  <2>2. pc = "verdict" => verdict \in Terminal
    BY DEF TypeInv, PointerInv
  <2> QED
    BY <2>1, <2>2 DEF Moves
<1>2. CASE Die
  BY <1>2 DEF Die, hashVars, reqVars, TypeInv, PointerInv
<1>3. CASE RecoveryStep \/ Take
  BY <1>3 DEF RecoveryStep, Take, RecRead, RecRequeue, RecFail, RecPush, hashVars, jobVars,
              reqVars, TypeInv, PointerInv
<1> QED
  BY <1>1, <1>2, <1>3

\* A request other than a kill-all's write leaves the status alone.
LEMMA RequestsFollow ==
    ASSUME NEW r \in Request,
           CancelRead(r) \/ CancelFlag(r) \/ ResumeRead(r) \/ PushResume(r)
    PROVE  (Follows => Follows') /\ UNCHANGED status
  BY DEF CancelRead, CancelFlag, ResumeRead, PushResume, hashVars, jobVars, Follows

\* Every step is an arrow of the lifecycle, or a kill-all has begun.
LEMMA LifeStep ==
    TypeInv /\ LifeInv /\ [Next]_vars =>
        LifeInv' /\ (Killed => Killed') /\ (~Killed => Arrow)
        /\ (~Killed /\ Killed' => UNCHANGED status)
<1> SUFFICES ASSUME TypeInv, LifeInv, [Next]_vars
             PROVE  LifeInv' /\ (Killed => Killed') /\ (~Killed => Arrow)
                    /\ (~Killed /\ Killed' => UNCHANGED status)
  OBVIOUS
<1>1. CASE Killed
  BY <1>1, KilledStays DEF LifeInv
<1>2. CASE ~Killed
  <2>1. CASE JobStep \/ Die \/ RecoveryStep \/ Take
    <3>1. Follows' /\ Arrow /\ UNCHANGED rpc
      BY <1>2, <2>1, WorkerFollows DEF LifeInv
    <3> QED
      BY <1>2, <3>1 DEF LifeInv, Killed
  <2>2. ASSUME NEW r \in Request,
               CancelRead(r) \/ CancelFlag(r) \/ ResumeRead(r) \/ PushResume(r)
        PROVE  LifeInv' /\ UNCHANGED status
    BY <1>2, <2>2, RequestsFollow DEF LifeInv
  <2>3. ASSUME NEW r \in Admin, KillWrite(r) PROVE FALSE
    BY <1>2, <2>3 DEF KillWrite, Killed
  <2>4. CASE UNCHANGED vars
    BY <1>2, <2>4 DEF vars, hashVars, jobVars, reqVars, LifeInv, Follows, Killed,
                    Arrow
  <2> QED
    BY <1>2, <2>1, <2>2, <2>3, <2>4
       DEF Next, CancelStep, ResumeStep, KillStep, Request, Arrow, vars, hashVars
<1> QED
  BY <1>1, <1>2

\* Whatever cancels, answers, timeouts, deaths and recovery do, a client that
\* polls the status sees a run of SessionLifecycle.
THEOREM LifecycleImplemented == Spec => LifecycleHolds
<1>1. Init => LifeInv /\ Lifecycle!Init
  BY DEF Init, LifeInv, Follows, Lifecycle!Init, Request
<1>2. TypeInv /\ LifeInv /\ [Next]_vars =>
          [Lifecycle!Next]_<<status, \E r \in Admin : rpc[r] # "idle">>
  <2> SUFFICES ASSUME TypeInv, LifeInv, [Next]_vars
               PROVE  [Lifecycle!Next]_<<status, \E r \in Admin : rpc[r] # "idle">>
    OBVIOUS
  <2>1. (Killed => Killed') /\ (~Killed => Arrow) /\ (~Killed /\ Killed' => UNCHANGED status)
    BY LifeStep
  <2>2. CASE Killed /\ Killed'
    BY <2>2 DEF Killed, Lifecycle!Next
  <2>3. CASE ~Killed /\ Killed'
    BY <2>1, <2>3 DEF Killed, Lifecycle!Next, Lifecycle!KillAll
  <2>4. CASE ~Killed /\ ~Killed'
    BY <2>1, <2>4 DEF Killed, Arrow, Lifecycle!Next
  <2> QED
    BY <2>1, <2>2, <2>3, <2>4
<1>3. TypeInv /\ LifeInv /\ [Next]_vars => LifeInv'
  BY LifeStep
<1> QED
  BY <1>1, <1>2, <1>3, TypeInit, TypeStep, PTL DEF Spec, LifecycleHolds, Lifecycle!Spec

-----------------------------------------------------------------------------
(* After a cancel: the flag stands, and nobody but Check goes to the agent.  *)

\* A cancel that is past its write has set the flag.
FlagInv == \A r \in Canceller : rpc[r] \in {"push", "ok"} => cancelReq

\* With n records at the answer to the cancel, at most the gen.send that was
\* under way or already decided adds one.
AtMostOneMore(n) == cancelReq /\ (steps <= n \/ (steps = n + 1 /\ pc # "gen"))

\* FlagInv holds along every run: the flag is never taken back.
LEMMA FlagStep ==
    ASSUME TypeInv, FlagInv, [Next]_vars
    PROVE  FlagInv' /\ (cancelReq => cancelReq')
<1> USE DEF FlagInv
<1>1. ASSUME UNCHANGED <<cancelReq, rpc>> PROVE FlagInv' /\ (cancelReq => cancelReq')
  BY <1>1
<1>2. CASE JobStep
  BY <1>1, <1>2 DEF JobStep, Assign, Begin, Load, Check, GenYields, GenRaises, GenStops,
                    PushStep, PushAsk, Wait, Resumed, AskTimeout, RunAgain, Announce,
                    WriteVerdict, Persist, Cleanup, hashVars, reqVars
<1>3. ASSUME NEW r \in Request, CancelRead(r) PROVE FlagInv' /\ (cancelReq => cancelReq')
  BY <1>3 DEF CancelRead, Refuse, hashVars, TypeInv, TypeOK, Request
<1>4. ASSUME NEW r \in Request, CancelFlag(r) \/ KillWrite(r)
      PROVE  FlagInv' /\ (cancelReq => cancelReq')
  BY <1>4 DEF CancelFlag, KillWrite
<1>5. ASSUME NEW r \in Answerer, ResumeRead(r) PROVE FlagInv' /\ (cancelReq => cancelReq')
  \* The only way to "push" past the flag, and not a canceller's.
  BY <1>5, RunAssumption DEF ResumeRead, Refuse, hashVars, TypeInv, TypeOK, Request
<1>6. ASSUME NEW r \in Request, PushResume(r) PROVE FlagInv' /\ (cancelReq => cancelReq')
  BY <1>6 DEF PushResume, hashVars, TypeInv, TypeOK, Request
<1>7. CASE Die \/ RecoveryStep \/ Take \/ UNCHANGED vars
  BY <1>1, <1>7 DEF Die, RecoveryStep, Take, RecRead, RecRequeue, RecFail, RecPush, vars, hashVars,
                    reqVars
<1> QED
  BY <1>2, <1>3, <1>4, <1>5, <1>6, <1>7
     DEF Next, CancelStep, ResumeStep, KillStep, Request

\* The thread adds a record only from gen.send, and comes there only without
\* the flag.
LEMMA StepsStep ==
    ASSUME TypeInv, [Next]_vars
    PROVE  /\ steps' = steps \/ (steps' = steps + 1 /\ pc = "gen" /\ pc' # "gen")
           /\ pc' = "gen" => pc = "gen" \/ ~cancelReq
<1>1. CASE JobStep
  <2>1. CASE GenYields
    BY <2>1 DEF GenYields, Conclude
  <2>2. CASE Check
    BY <2>2 DEF Check, Conclude
  <2>3. CASE Resumed
    <3>1. Head(resume) \in Message
      BY <2>3 DEF Resumed, Message, TypeInv, TypeOK
    <3> QED
      BY <2>3, <3>1 DEF Resumed, Conclude, Message, Answer
  <2>4. CASE ~(GenYields \/ Check \/ Resumed)
    BY <1>1, <2>4 DEF JobStep, Assign, Begin, Load, GenRaises, GenStops, PushStep, PushAsk,
                      Wait, AskTimeout, RunAgain, Announce, WriteVerdict, Persist,
                      Cleanup, Conclude
  <2> QED
    BY <2>1, <2>2, <2>3, <2>4
<1>2. ASSUME NEW r \in Request,
             CancelRead(r) \/ CancelFlag(r) \/ KillWrite(r) \/ ResumeRead(r) \/ PushResume(r)
      PROVE  UNCHANGED <<steps, pc>>
  BY <1>2 DEF CancelRead, CancelFlag, KillWrite, ResumeRead, PushResume, jobVars
<1>3. CASE Die \/ RecoveryStep \/ Take \/ UNCHANGED vars
  BY <1>3 DEF Die, RecoveryStep, Take, RecRead, RecRequeue, RecFail, RecPush, vars, jobVars
<1> QED
  BY <1>1, <1>2, <1>3 DEF Next, CancelStep, ResumeStep, KillStep, Request

\* Once /cancel has been answered 200, run_job_sync gives the agent at most the
\* one gen.send that was under way or that Check had let through.
THEOREM CancelStopsAgent == Spec => OneStepAfterCancel
<1>1. ASSUME NEW r \in Canceller, NEW n \in 0..MaxSteps
      PROVE  Spec => [](rpc[r] = "ok" /\ steps = n => [](steps <= n + 1))
  <2>1. n \in Nat
    BY RunAssumption
  <2>2. Init => FlagInv
    BY DEF Init, FlagInv, Request
  <2>3. TypeInv /\ FlagInv /\ [Next]_vars => FlagInv'
    BY FlagStep
  <2>4. TypeInv /\ FlagInv /\ rpc[r] = "ok" /\ steps = n => AtMostOneMore(n)
    BY <2>1 DEF FlagInv, AtMostOneMore
  <2>5. TypeInv /\ FlagInv /\ AtMostOneMore(n) /\ [Next]_vars => AtMostOneMore(n)'
    <3>1. TypeInv => steps \in Nat
      BY RunAssumption DEF TypeInv, TypeOK
    <3> QED
      BY <2>1, <3>1, FlagStep, StepsStep DEF AtMostOneMore
  <2>6. TypeInv /\ AtMostOneMore(n) => steps <= n + 1
    BY <2>1, RunAssumption DEF AtMostOneMore, TypeInv, TypeOK
  <2> QED
    BY <2>2, <2>3, <2>4, <2>5, <2>6, TypeInit, TypeStep, PTL DEF Spec
<1> QED
  BY <1>1 DEF OneStepAfterCancel

-----------------------------------------------------------------------------
(* The safety half of SseRunEnds: the thread cannot go round for ever.       *)

\* Steps of the thread still to come, at most, if no new record is yielded.
ToEnd ==
    [at \in {"end", "cleanup", "persist", "verdict", "announce", "gen", "check", "step",
             "resumed", "load", "blocked", "begin", "wait", "assign", "ask", "queued", "dead"} |->
       CASE at \in {"end", "queued", "dead"}   -> 0
         [] at = "cleanup"                     -> 1
         [] at = "persist"                     -> 2
         [] at = "verdict"                     -> 3
         [] at = "announce"                    -> 4
         [] at = "gen"                         -> 5
         [] at = "check"                       -> 6
         [] at \in {"step", "resumed", "load"} -> 7
         [] at \in {"blocked", "begin"}        -> 8
         [] at \in {"wait", "assign"}          -> 9
         [] at = "ask"                         -> 10]

\* A record takes the thread from "gen" to at most "ask".
Rank == 6 * (MaxSteps - steps) + ToEnd[pc]

\* ToEnd by its values.
LEMMA ToEndValues ==
    /\ ToEnd["end"] = 0 /\ ToEnd["queued"] = 0 /\ ToEnd["dead"] = 0 /\ ToEnd["cleanup"] = 1
    /\ ToEnd["persist"] = 2 /\ ToEnd["verdict"] = 3 /\ ToEnd["announce"] = 4
    /\ ToEnd["gen"] = 5 /\ ToEnd["check"] = 6 /\ ToEnd["step"] = 7
    /\ ToEnd["resumed"] = 7 /\ ToEnd["load"] = 7 /\ ToEnd["blocked"] = 8
    /\ ToEnd["begin"] = 8 /\ ToEnd["wait"] = 9 /\ ToEnd["assign"] = 9
    /\ ToEnd["ask"] = 10
  BY DEF ToEnd

\* Each step of the thread, an answer and a timeout included, lowers the rank.
LEMMA RankFalls == TypeInv /\ JobStep => Rank \in Nat /\ Rank' \in Nat /\ Rank' < Rank
<1> SUFFICES ASSUME TypeInv, JobStep
             PROVE  Rank \in Nat /\ Rank' \in Nat /\ Rank' < Rank
  OBVIOUS
<1>1. /\ steps \in 0..MaxSteps /\ steps' \in 0..MaxSteps /\ MaxSteps \in Nat
      /\ pc \in {"end", "cleanup", "persist", "verdict", "announce", "gen", "check", "step",
                 "resumed", "load", "blocked", "begin", "wait", "assign", "ask", "queued", "dead"}
  BY TypeJob, RunAssumption DEF TypeInv, TypeOK
<1>2. \/ /\ steps' = steps
         /\ \/ pc = "assign" /\ pc' = "begin"
            \/ pc = "begin" /\ pc' = "load"
            \/ pc = "load" /\ pc' \in {"announce", "check"}
            \/ pc = "check" /\ pc' \in {"announce", "gen"}
            \/ pc = "gen" /\ pc' \in {"announce", "cleanup"}
            \/ pc = "step" /\ pc' = "check"
            \/ pc = "ask" /\ pc' = "wait"
            \/ pc = "wait" /\ pc' = "blocked"
            \/ pc = "blocked" /\ pc' \in {"announce", "resumed"}
            \/ pc = "resumed" /\ pc' = "check"
            \/ pc = "announce" /\ pc' = "verdict"
            \/ pc = "verdict" /\ pc' = "persist"
            \/ pc = "persist" /\ pc' = "cleanup"
            \/ pc = "cleanup" /\ pc' = "end"
      \/ steps' = steps + 1 /\ pc = "gen" /\ pc' \in {"step", "ask", "announce"}
  <2>1. CASE Resumed
    <3>1. Head(resume) \in Message
      BY <2>1 DEF Resumed, Message, TypeInv, TypeOK
    <3> QED
      BY <2>1, <3>1 DEF Resumed, Conclude, Message, Answer
  <2>2. CASE Load \/ Check \/ GenYields \/ GenRaises \/ GenStops
    BY <2>2 DEF Load, Check, GenYields, GenRaises, GenStops, Conclude
  <2>3. CASE ~Resumed /\ ~(Load \/ Check \/ GenYields \/ GenRaises \/ GenStops)
    BY <2>3 DEF JobStep, Assign, Begin, PushStep, PushAsk, Wait, AskTimeout, RunAgain,
                Announce, WriteVerdict, Persist, Cleanup, Conclude
  <2> QED
    BY <2>1, <2>2, <2>3
<1>3. /\ ToEnd[pc] \in 0..10 /\ ToEnd[pc'] \in 0..10
      /\ \/ steps' = steps /\ ToEnd[pc'] < ToEnd[pc]
         \/ steps' = steps + 1 /\ ToEnd[pc] = 5
  BY <1>1, <1>2, ToEndValues
<1> QED
  BY <1>1, <1>3 DEF Rank

\* Between two deaths of its worker a run takes at most as many steps as its
\* rank, whatever is answered, cancelled or times out: no round of the loop of
\* run_job_sync leaves everything as it was.
THEOREM EachStepCounts == Spec => [][JobStep => Rank' \in Nat /\ Rank' < Rank]_vars
<1>1. TypeInv /\ [Next]_vars => [JobStep => Rank' \in Nat /\ Rank' < Rank]_vars
  BY RankFalls
<1> QED
  BY <1>1, TypeInit, TypeStep, PTL DEF Spec
=============================================================================
