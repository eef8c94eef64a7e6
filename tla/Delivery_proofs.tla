--------------------------- MODULE Delivery_proofs ---------------------------
(***************************************************************************)
(* The callbacks of a session of any length, with any number of attempts:  *)
(* no question is sent to the supervisor after the session's end, and the  *)
(* end it was told has its result.                                         *)
(***************************************************************************)
EXTENDS Delivery, TLAPS

Kind   == {"none", "step", "ask"} \cup Ended
Letter == [type : Kind, n : Nat]
Parcel == [type : Kind, n : Nat, left : Nat]

\* Where the worker's thread is once it is through with the POST of the end.
Closing == {"verdict", "jsonl", "result", "upload", "record", "over", "down"}

PostsInv ==
    /\ inbox \in Seq(Letter) /\ steps \in Nat
    /\ post \in Parcel /\ late \in SUBSET Parcel /\ threads \in SUBSET Parcel
    /\ \A p \in threads : p.type = "step"
    /\ pc = "post" => post.type \in Blocking

EndSent == HeardEnd \/ \E p \in late : p.type \in Ended

\* Only the thread sends an end, as the last thing before it closes.
EndInv == EndSent => pc \in Closing \/ (pc = "post" /\ post.type \in Ended)

DeliveryInv == PostsInv /\ EndInv

-----------------------------------------------------------------------------
\* A letter more: what it is, and what was heard before.
LEMMA Arriving ==
    ASSUME PostsInv, NEW p \in Parcel, Arrives(p)
    PROVE  /\ inbox' \in Seq(Letter) /\ Len(inbox') = Len(inbox) + 1
           /\ Last(inbox') = Sent(p) /\ Sent(p).type = p.type
           /\ HeardEnd' => HeardEnd \/ p.type \in Ended
<1>1. /\ inbox' = Append(inbox, Sent(p)) /\ inbox \in Seq(Letter)
      /\ Sent(p) \in Letter /\ Sent(p).type = p.type
  BY DEF Arrives, PostsInv, Sent, Letter, Parcel
<1>2. /\ inbox' \in Seq(Letter) /\ Len(inbox') = Len(inbox) + 1
      /\ inbox'[Len(inbox')] = Sent(p)
      /\ \A i \in DOMAIN inbox' :
            (i \in DOMAIN inbox /\ inbox'[i] = inbox[i]) \/ inbox'[i] = Sent(p)
  BY <1>1
<1>3. HeardEnd' => HeardEnd \/ p.type \in Ended
  BY <1>1, <1>2 DEF HeardEnd, Heard
<1> QED
  BY <1>1, <1>2, <1>3 DEF Last

\* One attempt of a POST p.
LEMMA Attempting ==
    ASSUME PostsInv, NEW p \in Parcel, Accepted(p) \/ Refused(p)
    PROVE  /\ inbox' \in Seq(Letter) /\ late' \in SUBSET Parcel
           /\ inbox' = inbox \/ Last(inbox') = Sent(p)
           /\ Sent(p).type = p.type
           /\ EndSent' => EndSent \/ p.type \in Ended
<1>1. /\ inbox \in Seq(Letter) /\ late \in SUBSET Parcel /\ Sent(p).type = p.type
  BY DEF PostsInv, Sent
<1>2. CASE Arrives(p) /\ UNCHANGED late
  <2>1. /\ inbox' \in Seq(Letter) /\ Last(inbox') = Sent(p)
        /\ HeardEnd' => HeardEnd \/ p.type \in Ended
    BY <1>2, Arriving
  <2> QED
    BY <1>1, <1>2, <2>1 DEF EndSent
<1>3. CASE UNCHANGED inbox /\ late' \in {late, late \cup {p}}
  <2>1. HeardEnd' = HeardEnd
    BY <1>3 DEF HeardEnd, Heard
  <2> QED
    BY <1>1, <1>3, <2>1 DEF EndSent
<1> QED
  BY <1>2, <1>3 DEF Accepted, Refused

\* Nothing arrives and nothing times out.
LEMMA Silent ==
    ASSUME UNCHANGED <<late, inbox>>
    PROVE  EndSent' = EndSent
  BY DEF EndSent, HeardEnd, Heard

-----------------------------------------------------------------------------
\* The thread hands an event to send().
LEMMA Pushing ==
    ASSUME DeliveryInv, NEW t \in {"step", "ask"} \cup Ended, steps' \in Nat,
           pc \notin Closing, pc # "post", Push(Event(t))
    PROVE  DeliveryInv'
<1> DEFINE e == Event(t)
<1>1. /\ e.type = t /\ Sending(e) \in Parcel /\ Sending(e).type = t
      /\ UNCHANGED <<late, inbox>>
  BY DeliveryAssumption DEF Push, Event, Sending, Parcel, Kind
<1>2. ~EndSent'
  BY Silent, <1>1 DEF DeliveryInv, EndInv
<1>3. CASE t \in Blocking
  BY <1>1, <1>2, <1>3 DEF DeliveryInv, PostsInv, EndInv, Push
<1>4. CASE t \notin Blocking
  <2>1. t = "step" /\ pc' = "run"
    BY <1>1, <1>4 DEF Blocking, Push, After
  <2> QED
    BY <1>1, <1>2, <1>4, <2>1 DEF DeliveryInv, PostsInv, EndInv, Push
<1> QED
  BY <1>3, <1>4

\* An attempt of the blocking POST.
LEMMA StepPost == ASSUME DeliveryInv, PostAttempt PROVE DeliveryInv'
<1>1. /\ pc = "post" /\ post \in Parcel /\ post.type \in Blocking
      /\ UNCHANGED <<threads, steps>>
  BY DEF PostAttempt, DeliveryInv, PostsInv
<1>2. /\ inbox' \in Seq(Letter) /\ late' \in SUBSET Parcel
      /\ EndSent' => EndSent \/ post.type \in Ended
  BY <1>1, Attempting DEF PostAttempt, DeliveryInv
<1>3. EndSent' => post.type \in Ended
  BY <1>1, <1>2 DEF DeliveryInv, EndInv, Closing
<1>4. \/ /\ post' = NoPost /\ pc' = After(post.type)
      \/ /\ post.left > 1 /\ post' = [post EXCEPT !.left = @ - 1] /\ pc' = pc
  BY DEF PostAttempt
<1>5. NoPost \in Parcel
  BY DEF NoPost, Parcel, Kind
<1>6. CASE post' = NoPost /\ pc' = After(post.type)
  <2>1. pc' # "post" /\ (post.type \in Ended => pc' \in Closing)
    BY <1>6 DEF After, Ended, Closing
  <2> QED
    BY <1>1, <1>2, <1>3, <1>5, <1>6, <2>1 DEF DeliveryInv, PostsInv, EndInv
<1>7. CASE post.left > 1 /\ post' = [post EXCEPT !.left = @ - 1] /\ pc' = pc
  <2>1. post' \in Parcel /\ post'.type = post.type
    BY <1>1, <1>7 DEF Parcel
  <2> QED
    BY <1>1, <1>2, <1>3, <1>7, <2>1 DEF DeliveryInv, PostsInv, EndInv
<1> QED
  BY <1>4, <1>6, <1>7

\* An attempt of a step's thread.
LEMMA StepThread ==
    ASSUME DeliveryInv, NEW p \in threads, ThreadAttempt(p)
    PROVE  DeliveryInv'
<1>1. p \in Parcel /\ p.type = "step" /\ UNCHANGED <<pc, post, steps>>
  BY DEF ThreadAttempt, DeliveryInv, PostsInv
<1>2. /\ inbox' \in Seq(Letter) /\ late' \in SUBSET Parcel
      /\ EndSent' => EndSent \/ p.type \in Ended
  BY <1>1, Attempting DEF ThreadAttempt, DeliveryInv
<1>3. EndSent' => EndSent
  BY <1>1, <1>2 DEF Ended
<1>4. \/ threads' = threads \ {p}
      \/ threads' = (threads \ {p}) \cup {[p EXCEPT !.left = @ - 1]} /\ p.left > 1
  BY DEF ThreadAttempt
<1>5. p.left > 1 => /\ [p EXCEPT !.left = @ - 1] \in Parcel
                    /\ [p EXCEPT !.left = @ - 1].type = "step"
  BY <1>1 DEF Parcel
<1>6. threads' \in SUBSET Parcel /\ \A q \in threads' : q.type = "step"
  BY <1>4, <1>5 DEF DeliveryInv, PostsInv
<1> QED
  BY <1>1, <1>2, <1>3, <1>6 DEF DeliveryInv, PostsInv, EndInv

\* What had timed out comes through.
LEMMA StepLate ==
    ASSUME DeliveryInv, NEW p \in late, ArriveLate(p)
    PROVE  DeliveryInv'
<1>1. p \in Parcel /\ UNCHANGED <<pc, post, steps, threads>> /\ late' = late \ {p}
  BY DEF ArriveLate, DeliveryInv, PostsInv
<1>2. inbox' \in Seq(Letter) /\ (HeardEnd' => HeardEnd \/ p.type \in Ended)
  BY <1>1, Arriving DEF ArriveLate, DeliveryInv
<1>3. EndSent' => EndSent
  BY <1>1, <1>2 DEF EndSent
<1> QED
  BY <1>1, <1>2, <1>3 DEF DeliveryInv, PostsInv, EndInv

\* What moves the thread along without the network.
LEMMA StepQuiet ==
    ASSUME DeliveryInv, UNCHANGED <<late, inbox, steps>>,
           threads' \in {threads, {}}, post' \in {post, NoPost}, pc' # "post",
           pc \in Closing => pc' \in Closing,
           pc # "post" \/ pc' \in Closing
    PROVE  DeliveryInv'
<1>1. EndSent' = EndSent
  BY Silent
<1>2. NoPost \in Parcel
  BY DEF NoPost, Parcel, Kind
<1> QED
  BY <1>1, <1>2 DEF DeliveryInv, PostsInv, EndInv

\* At the start nothing was sent.
LEMMA DeliveryInit == Init => DeliveryInv
  BY DEF Init, DeliveryInv, PostsInv, EndInv, EndSent, HeardEnd, Heard, NoPost,
         Parcel, Kind, Ended

\* Every step keeps the invariant.
LEMMA DeliveryStep == DeliveryInv /\ [Next]_vars => DeliveryInv'
<1> USE DEF hash, net, files
<1> SUFFICES ASSUME DeliveryInv, [Next]_vars PROVE DeliveryInv'
  OBVIOUS
<1>1. ASSUME NEW t \in {"step", "ask"}, Yield(t) PROVE DeliveryInv'
  <2>1. steps' \in Nat /\ pc = "run" /\ Push(Event(t))
    BY <1>1 DEF Yield, DeliveryInv, PostsInv
  <2> QED
    BY <2>1, Pushing DEF Closing
<1>2. ASSUME NEW t \in Ended, Finish(t) PROVE DeliveryInv'
  <2>1. steps' \in Nat /\ pc \in {"run", "waiting"} /\ Push(Event(t))
    BY <1>2 DEF Finish, DeliveryInv, PostsInv
  <2> QED
    BY <2>1, Pushing DEF Closing
<1>3. CASE StopIteration \/ Wait \/ RunAgain
  BY <1>3, StepQuiet DEF StopIteration, Wait, RunAgain, Closing
<1>4. CASE WriteVerdict \/ WriteJsonl \/ WriteResult \/ Upload \/ Record
  BY <1>4, StepQuiet DEF WriteVerdict, WriteJsonl, WriteResult, Upload, Record, Closing
<1>5. CASE Crash
  BY <1>5, StepQuiet DEF Crash, Closing
<1>6. CASE Reply \/ Recover \/ UNCHANGED vars
  <2>1. UNCHANGED <<late, inbox, steps, threads, post, pc>>
    BY <1>6 DEF Reply, Recover, vars
  <2> QED
    BY <2>1, Silent DEF DeliveryInv, PostsInv, EndInv
<1> QED
  BY <1>1, <1>2, <1>3, <1>4, <1>5, <1>6, StepPost, StepThread, StepLate
     DEF Next, WorkerStep

-----------------------------------------------------------------------------
\* Once a terminal event reached the supervisor no ask does, except one of an
\* attempt that had timed out before: push() blocks on asks and terminal events.
THEOREM EndIsLast == Spec => NoAskAfterEnd
<1> DEFINE Asked == HeardEnd /\ Len(inbox') > Len(inbox) /\ Last(inbox').type = "ask"
           WasLate == \E p \in late : Sent(p) = Last(inbox') /\ p \notin late'
<1>1. DeliveryInv /\ [Next]_vars => [Asked => WasLate]_vars
  <2> USE DEF hash, net, files
  <2> SUFFICES ASSUME DeliveryInv, [Next]_vars, Asked PROVE WasLate
    OBVIOUS
  <2>1. inbox' # inbox /\ inbox \in Seq(Letter)
    BY DEF DeliveryInv, PostsInv
  <2>2. CASE PostAttempt
    <3>1. pc = "post" /\ post \in Parcel /\ post.type \in Ended
      BY <2>2 DEF PostAttempt, DeliveryInv, PostsInv, EndInv, EndSent, Closing
    <3>2. Last(inbox').type = post.type
      BY <2>1, <2>2, <3>1, Attempting DEF PostAttempt, DeliveryInv
    <3> QED
      BY <3>1, <3>2 DEF Ended
  <2>3. ASSUME NEW p \in threads, ThreadAttempt(p) PROVE WasLate
    <3>1. p \in Parcel /\ p.type = "step"
      BY DEF DeliveryInv, PostsInv
    <3>2. Last(inbox').type = p.type
      BY <2>1, <2>3, <3>1, Attempting DEF ThreadAttempt, DeliveryInv
    <3> QED
      BY <3>1, <3>2
  <2>4. ASSUME NEW p \in late, ArriveLate(p) PROVE WasLate
    <3>1. p \in Parcel
      BY DEF DeliveryInv, PostsInv
    <3>2. Last(inbox') = Sent(p) /\ p \notin late'
      BY <2>4, <3>1, Arriving DEF ArriveLate, DeliveryInv
    <3> QED
      BY <3>2
  <2>5. CASE UNCHANGED inbox
    BY <2>1, <2>5
  <2>6. CASE \E t \in {"step", "ask"} : Yield(t)
    BY <2>1, <2>6 DEF Yield, Push
  <2>7. CASE \E t \in Ended : Finish(t)
    BY <2>1, <2>7 DEF Finish, Push
  <2> QED
    BY <2>2, <2>3, <2>4, <2>5, <2>6, <2>7
       DEF Next, WorkerStep, StopIteration, Wait, RunAgain, WriteVerdict, WriteJsonl,
           WriteResult, Upload, Record, Reply, Crash, Recover, vars
<1>2. Spec => []DeliveryInv
  BY DeliveryInit, DeliveryStep, PTL DEF Spec
<1> QED
  BY <1>1, <1>2, PTL DEF Spec, NoAskAfterEnd
-----------------------------------------------------------------------------
(* The result of what the supervisor was told. *)

\* With a verdict the thread is past its last record.
VerdictInv ==
    /\ verdict \in Ended /\ collected # <<>> /\ Last(collected).type = verdict
    /\ pc \in Closing \/ (pc = "post" /\ post.type = verdict)
    /\ pc \notin {"post", "verdict"} => status = verdict

\* A result that was written was sent to the upload server, and is recorded.
UploadInv ==
    /\ pc \notin {"record", "over", "down"} => stored = "none"
    /\ pc = "upload" => written
    /\ pc = "record" => (written <=> stored # "none")
    /\ pc \notin {"upload", "record", "over", "down"} => ~written
    /\ pc = "over" /\ verdict # "none" /\ written =>
          path /\ url = (stored = "ok") /\ stored # "none"

EndingInv ==
    /\ collected \in Seq(Letter)
    /\ stored \in {"none", "ok", "silent", "lost"} /\ url \in BOOLEAN
    /\ EndSent => pc = "down" \/ verdict # "none"
    /\ pc # "down" /\ verdict # "none" => VerdictInv
    /\ pc = "post" /\ post.type \in Ended => verdict # "none"
    /\ pc \in Closing \ {"over", "down"} => verdict # "none"
    /\ UploadInv

\* Before the end there is no verdict.
LEMMA NoVerdictYet ==
    ASSUME EndingInv, pc \notin Closing, pc # "post" \/ post.type \notin Ended
    PROVE  verdict = "none"
  BY DEF EndingInv, VerdictInv, Closing

\* The thread's records and the end.
LEMMA EndingPush ==
    ASSUME DeliveryInv, EndingInv, NEW t \in {"step", "ask"} \cup Ended,
           pc \in {"run", "waiting"}, Push(Event(t)), steps' \in Nat,
           UNCHANGED files, UNCHANGED <<path, url, status>>,
           IF t \in Ended THEN verdict' = t ELSE UNCHANGED verdict
    PROVE  EndingInv'
<1>1. /\ verdict = "none" /\ ~EndSent /\ stored = "none" /\ collected \in Seq(Letter)
      /\ stored' = "none" /\ url' = url /\ url \in BOOLEAN /\ ~written'
  BY NoVerdictYet DEF DeliveryInv, EndInv, EndingInv, UploadInv, Closing, files
<1>2. ~EndSent'
  BY <1>1, Silent DEF Push
<1>3. Event(t) \in Letter /\ Event(t).type = t
  BY DEF Event, Letter, Kind
<1>4. collected' \in Seq(Letter) /\ collected' # <<>> /\ Last(collected').type = t
  <2>1. collected' = Append(collected, Event(t))
    BY DEF Push
  <2>2. /\ collected' \in Seq(Letter) /\ collected' # <<>>
        /\ collected'[Len(collected')] = Event(t)
    BY <1>1, <1>3, <2>1
  <2> QED
    BY <1>3, <2>2 DEF Last
<1>5. CASE t \in Ended
  <2>1. pc' = "post" /\ post'.type = t /\ verdict' = t /\ t # "none"
    BY <1>3, <1>5 DEF Push, Blocking, Sending, Ended
  <2> QED
    BY <1>1, <1>2, <1>4, <1>5, <2>1 DEF EndingInv, VerdictInv, UploadInv, Closing
<1>6. CASE t \notin Ended
  <2>1. verdict' = "none" /\ (pc' = "run" \/ (pc' = "post" /\ post'.type = "ask"))
    BY <1>1, <1>3, <1>6 DEF Push, Blocking, Sending, After, Ended
  <2> QED
    BY <1>1, <1>2, <1>4, <1>6, <2>1 DEF EndingInv, UploadInv, Closing, Ended
<1> QED
  BY <1>5, <1>6

\* An attempt of the blocking POST.
LEMMA EndingPost == ASSUME DeliveryInv, EndingInv, PostAttempt PROVE EndingInv'
<1>1. /\ pc = "post" /\ post \in Parcel /\ post.type \in Blocking
      /\ UNCHANGED <<status, path, url, verdict, collected, jsonl, written, stored>>
  BY DEF PostAttempt, DeliveryInv, PostsInv, hash, files
<1>2. EndSent' => EndSent \/ post.type \in Ended
  BY <1>1, Attempting DEF PostAttempt, DeliveryInv
<1>3. \/ pc' = After(post.type)
      \/ pc' = "post" /\ post'.type = post.type
  <2>1. \/ pc' = After(post.type)
        \/ /\ post' = [post EXCEPT !.left = @ - 1] /\ pc' = pc
    BY DEF PostAttempt
  <2> QED
    BY <1>1, <2>1 DEF Parcel
<1>4. CASE post.type \in Ended
  <2>1. pc' = "verdict" \/ (pc' = "post" /\ post'.type = post.type)
    BY <1>3, <1>4 DEF After, Ended
  <2>2. verdict # "none" /\ VerdictInv
    BY <1>1, <1>4 DEF EndingInv
  <2> QED
    BY <1>1, <1>4, <2>1, <2>2 DEF EndingInv, VerdictInv, UploadInv, Closing
<1>5. CASE post.type \notin Ended
  <2>1. pc' = "ask" \/ (pc' = "post" /\ post'.type \notin Ended)
    BY <1>1, <1>3, <1>5 DEF After, Blocking
  <2>2. verdict = "none" /\ ~EndSent'
    BY <1>1, <1>2, <1>5, NoVerdictYet DEF Closing, EndingInv, DeliveryInv, EndInv
  <2> QED
    BY <1>1, <2>1, <2>2 DEF EndingInv, UploadInv, Closing
<1> QED
  BY <1>4, <1>5

\* What arrives besides.
LEMMA EndingStays ==
    ASSUME EndingInv, EndSent' => EndSent,
           UNCHANGED <<status, path, url, pc, verdict, post, collected, jsonl, written, stored>>
    PROVE  EndingInv'
  BY DEF EndingInv, VerdictInv, UploadInv

\* Every step keeps the invariant.
LEMMA EndingStep == ASSUME DeliveryInv, EndingInv, [Next]_vars PROVE EndingInv'
<1> USE DEF hash, net, files
<1>1. ASSUME NEW t \in {"step", "ask"}, Yield(t) PROVE EndingInv'
  <2>1. steps' \in Nat /\ t \notin Ended
    BY <1>1 DEF Yield, DeliveryInv, PostsInv, Ended
  <2> QED
    BY <1>1, <2>1, EndingPush DEF Yield
<1>2. ASSUME NEW t \in Ended, Finish(t) PROVE EndingInv'
  <2>1. steps' \in Nat
    BY <1>2 DEF Finish, DeliveryInv, PostsInv
  <2> QED
    BY <1>2, <2>1, EndingPush DEF Finish
<1>3. CASE StopIteration \/ Wait \/ RunAgain
  <2>0. pc \in {"run", "ask", "waiting"} /\ UNCHANGED <<url, collected, stored, verdict>>
    BY <1>3 DEF StopIteration, Wait, RunAgain
  <2>1. verdict = "none" /\ verdict' = "none" /\ pc' \in {"over", "waiting", "run"}
        /\ stored' = "none" /\ ~written' /\ UNCHANGED <<url, collected>>
    <3>1. verdict = "none" /\ stored = "none" /\ ~written
      BY <2>0, NoVerdictYet DEF Closing, EndingInv, UploadInv
    <3> QED
      BY <1>3, <2>0, <3>1 DEF StopIteration, Wait, RunAgain
  <2>2. ~EndSent'
    BY <1>3, <2>0, Silent DEF StopIteration, Wait, RunAgain, EndInv, DeliveryInv, Closing
  <2> QED
    BY <2>1, <2>2 DEF EndingInv, UploadInv, Closing
<1>4. CASE WriteVerdict \/ WriteJsonl \/ WriteResult \/ Upload \/ Record
  <2>1. /\ pc \in Closing \ {"over", "down"} /\ UNCHANGED <<collected, verdict, post>>
        /\ pc' \in Closing \ {"verdict", "down"}
    BY <1>4 DEF WriteVerdict, WriteJsonl, WriteResult, Upload, Record, Closing
  <2>2. verdict # "none" /\ VerdictInv
    BY <2>1 DEF EndingInv, Closing
  <2>3. VerdictInv'
    BY <1>4, <2>1, <2>2 DEF WriteVerdict, WriteJsonl, WriteResult, Upload, Record, VerdictInv
  <2>4. UploadInv' /\ stored' \in {"none", "ok", "silent", "lost"} /\ url' \in BOOLEAN
    <3> USE DEF UploadInv, EndingInv
    <3>1. CASE WriteVerdict \/ WriteJsonl
      BY <3>1 DEF WriteVerdict, WriteJsonl
    <3>2. CASE WriteResult \/ Upload
      BY <3>2 DEF WriteResult, Upload
    <3>3. CASE Record
      <4>1. /\ pc = "record" /\ pc' = "over" /\ path' = TRUE /\ url' = (stored = "ok")
            /\ UNCHANGED <<written, stored>>
        BY <3>3 DEF Record, Recorded
      <4> QED
        BY <4>1
    <3> QED
      BY <1>4, <3>1, <3>2, <3>3
  <2> QED
    BY <2>1, <2>2, <2>3, <2>4 DEF EndingInv, Closing
<1>5. CASE Crash
  BY <1>5 DEF Crash, EndingInv, UploadInv, Closing
<1>6. CASE Recover
  <2>1. UNCHANGED <<url, pc, collected, stored>> /\ pc = "down"
    BY <1>6 DEF Recover
  <2> QED
    BY <2>1 DEF EndingInv, UploadInv, Closing
<1>7. CASE Reply \/ UNCHANGED vars
  <2>1. UNCHANGED <<late, inbox>>
    BY <1>7 DEF Reply, vars
  <2> QED
    BY <1>7, <2>1, Silent, EndingStays DEF Reply, vars
<1>8. ASSUME NEW p \in threads, ThreadAttempt(p) PROVE EndingInv'
  <2>1. p \in Parcel /\ p.type \notin Ended
    BY DEF DeliveryInv, PostsInv, Ended
  <2>2. EndSent' => EndSent
    BY <1>8, <2>1, Attempting DEF ThreadAttempt, DeliveryInv
  <2> QED
    BY <1>8, <2>2, EndingStays DEF ThreadAttempt
<1>9. ASSUME NEW p \in late, ArriveLate(p) PROVE EndingInv'
  <2>1. p \in Parcel /\ late' = late \ {p}
    BY <1>9 DEF ArriveLate, DeliveryInv, PostsInv
  <2>2. HeardEnd' => HeardEnd \/ p.type \in Ended
    BY <1>9, <2>1, Arriving DEF ArriveLate, DeliveryInv
  <2>3. EndSent' => EndSent
    BY <2>1, <2>2 DEF EndSent
  <2> QED
    BY <1>9, <2>3, EndingStays DEF ArriveLate
<1>10. CASE PostAttempt
  BY <1>10, EndingPost
<1> QED
  BY <1>1, <1>2, <1>3, <1>4, <1>5, <1>6, <1>7, <1>8, <1>9, <1>10 DEF Next, WorkerStep

\* At the start there is no verdict.
LEMMA EndingInit == Init => EndingInv
<1> SUFFICES ASSUME Init PROVE EndingInv
  OBVIOUS
<1>1. ~EndSent
  BY DEF Init, EndSent, HeardEnd, Heard
<1>2. collected \in Seq(Letter)
  BY DEF Init
<1> QED
  BY <1>1, <1>2 DEF Init, EndingInv, UploadInv, Closing

\* Of _persist_artifacts and GET /result, the safety half of DoneHasResult: once
\* the thread is through with a session whose end the supervisor was told, GET /result
\* serves the result, if the disk took it and the upload server did, and the log, if
\* its write did not fail, ends with that end.
THEOREM EndHasResult == Spec => [](HeardEnd /\ pc = "over" => ~written \/ ResultServed)
<1> DEFINE Served == HeardEnd /\ pc = "over" => ~written \/ ResultServed
<1>1. EndingInv => Served
  <2> SUFFICES ASSUME EndingInv, HeardEnd, pc = "over", written PROVE ResultServed
    OBVIOUS
  <2>1. verdict # "none" /\ VerdictInv /\ UploadInv
    BY DEF EndingInv, EndSent
  <2>2. /\ status \in Ended
        /\ jsonl = collected => jsonl # <<>> /\ Last(jsonl).type = status
    BY <2>1 DEF VerdictInv
  <2>3. path /\ url = (stored = "ok") /\ stored \in {"ok", "silent", "lost"}
    BY <2>1 DEF UploadInv, EndingInv
  <2> QED
    BY <2>2, <2>3 DEF ResultServed, Readable
<1>2. DeliveryInv /\ EndingInv /\ [Next]_vars => (DeliveryInv /\ EndingInv)'
  BY DeliveryStep, EndingStep
<1> HIDE DEF Served
<1>3. Spec => []Served
  BY <1>1, <1>2, DeliveryInit, EndingInit, PTL DEF Spec
<1> QED
  BY <1>3 DEF Served
=============================================================================
