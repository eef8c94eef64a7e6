------------------------------ MODULE Delivery ------------------------------
(***************************************************************************)
(* What a session in callback mode tells its supervisor and what it leaves *)
(* behind: the POSTs of CallbackService to the callback_url, the files of  *)
(* session_persist, their uploads, and GET /result, which looks for the    *)
(* result in three places.                                                 *)
(*                                                                         *)
(* The worker's thread sends ask and terminal events itself and waits for  *)
(* the answer to the POST; a step goes to a thread of its own.  A POST may *)
(* fail before or after the receiver has it, or arrive long after it timed *)
(* out.  When a session asks, is cancelled or fails is JobRun's matter:    *)
(* here each of its ends may come at any time.                             *)
(***************************************************************************)
EXTENDS Integers, Sequences, SequencesExt

CONSTANTS
    MaxSteps,       \* records the agent yields
    MaxAttempts     \* min(CALLBACK_MAX_RETRIES, 3) + 1

ASSUME DeliveryAssumption ==
    /\ MaxSteps \in Nat
    /\ MaxAttempts \in Nat \ {0}

Ended == {"done", "failed", "cancelled"}

\* Mutant: a question goes to a thread of its own, like a step.
BlockingEndsOnly == Ended

\* _TERMINAL_TYPES, and "ask".
Blocking == Ended \cup {"ask"}

VARIABLES
    status,     \* session:{id} status
    resume,     \* the list resume:{id} has an answer
    path, url,  \* session:{id} result_path, result_cdn_url are set
    pc, steps, verdict,  \* the worker's thread: run_job_sync
    post,       \* the blocking POST: its event and the attempts left
    threads,    \* the step POSTs under way, each with the attempts left
    late,       \* POSTs that timed out and have not arrived yet
    inbox,      \* what the receiver was sent, in the order of arrival
    collected,  \* _collected_events
    jsonl,      \* session.jsonl on the worker's disk
    written,    \* result.json is on the worker's disk
    stored      \* its upload: the answer "ok", "silent" (stored, but the
                \* answer was lost) or "lost"; "none" before it

net   == <<post, threads, late, inbox>>
files == <<jsonl, written, stored>>
hash  == <<status, path, url>>
vars  == <<hash, resume, pc, steps, verdict, net, collected, files>>

Event(t) == [type |-> t, n |-> steps']
NoPost == [type |-> "none", n |-> 0, left |-> 0]
Sending(e) == [type |-> e.type, n |-> e.n, left |-> MaxAttempts]
Sent(p) == [type |-> p.type, n |-> p.n]

Init ==
    /\ status = "running"
    /\ resume = FALSE
    /\ path = FALSE /\ url = FALSE
    /\ pc = "run" /\ steps = 0 /\ verdict = "none"
    /\ post = NoPost /\ threads = {} /\ late = {} /\ inbox = <<>>
    /\ collected = <<>> /\ jsonl = <<>>
    /\ written = FALSE /\ stored = "none"
-----------------------------------------------------------------------------
(* push: the event is collected and handed to send(). *)

\* Where the worker goes once send() has returned; what it returned is not
\* looked at.
After(t) == CASE t = "step" -> "run" [] t = "ask" -> "ask" [] OTHER -> "verdict"

Push(e) ==
    /\ collected' = Append(collected, e)
    /\ IF e.type \in Blocking
       THEN /\ post' = Sending(e)
            /\ pc' = "post"
            /\ UNCHANGED threads
       ELSE /\ threads' = threads \cup {Sending(e)}
            /\ pc' = After(e.type)
            /\ UNCHANGED post
    /\ UNCHANGED <<late, inbox>>

\* The thread's step records, and the question that blocks it.
Yield(t) ==
    /\ pc = "run"
    /\ steps < MaxSteps
    /\ steps' = steps + 1
    /\ Push(Event(t))
    /\ UNCHANGED <<hash, resume, verdict, files>>

\* The terminal record, the exception, the hard cap, the cancel flag, and what
\* an answer or a cancel message may bring instead of a next step.
Finish(t) ==
    /\ \/ pc = "run"
       \/ pc = "waiting" /\ resume /\ t # "failed"
    /\ resume' = FALSE
    /\ verdict' = t
    /\ UNCHANGED steps
    /\ Push(Event(t))
    /\ UNCHANGED <<hash, files>>

\* StopIteration: done, and nothing is told or kept.
StopIteration ==
    /\ pc = "run"
    /\ status' = "done"
    /\ pc' = "over"
    /\ UNCHANGED <<path, url, resume, steps, verdict, net, collected,
                   files>>
-----------------------------------------------------------------------------
(* _send_with_retry: one attempt of a POST p, by the thread whose variable   *)
(* becomes what Again or Over says.                                          *)

Arrives(p) == inbox' = Append(inbox, Sent(p))

\* 2xx: no further attempt.
Accepted(p) == Arrives(p) /\ UNCHANGED late

\* An error or a timeout: the receiver has it all the same, or never will, or
\* gets it later.
Refused(p) ==
    \/ Arrives(p) /\ UNCHANGED late
    \/ UNCHANGED <<inbox, late>>
    \/ late' = late \cup {p} /\ UNCHANGED inbox

PostAttempt ==
    /\ pc = "post"
    /\ \/ /\ Accepted(post)
          /\ post' = NoPost
          /\ pc' = After(post.type)
       \/ /\ Refused(post)
          /\ IF post.left > 1
             THEN /\ post' = [post EXCEPT !.left = @ - 1]
                  /\ UNCHANGED pc
             ELSE /\ post' = NoPost
                  /\ pc' = After(post.type)
    /\ UNCHANGED <<hash, resume, steps, verdict, threads, collected,
                   files>>

ThreadAttempt(p) ==
    /\ p \in threads
    /\ \/ /\ Accepted(p)
          /\ threads' = threads \ {p}
       \/ /\ Refused(p)
          /\ threads' = (threads \ {p}) \cup
                        IF p.left > 1 THEN {[p EXCEPT !.left = @ - 1]} ELSE {}
    /\ UNCHANGED <<hash, resume, pc, steps, verdict, post, collected,
                   files>>

\* A POST that had timed out comes through after all.
ArriveLate(p) ==
    /\ p \in late
    /\ Arrives(p)
    /\ late' = late \ {p}
    /\ UNCHANGED <<hash, resume, pc, steps, verdict, post, threads,
                   collected, files>>
-----------------------------------------------------------------------------
(* The question. *)

Wait ==
    /\ pc = "ask"
    /\ status' = "waiting_for_user"
    /\ pc' = "waiting"
    /\ UNCHANGED <<path, url, resume, steps, verdict, net, collected,
                   files>>

\* POST /resume: only a status that says waiting lets it in.
Reply ==
    /\ status = "waiting_for_user"
    /\ ~resume
    /\ resume' = TRUE
    /\ UNCHANGED <<hash, pc, steps, verdict, net, collected, files>>

RunAgain ==
    /\ pc = "waiting"
    /\ resume
    /\ resume' = FALSE
    /\ status' = "running"
    /\ pc' = "run"
    /\ UNCHANGED <<path, url, steps, verdict, net, collected, files>>
-----------------------------------------------------------------------------
(* The end: the status, then _persist_artifacts. *)

WriteVerdict ==
    /\ pc = "verdict"
    /\ status' = verdict
    /\ pc' = "jsonl"
    /\ UNCHANGED <<path, url, resume, steps, verdict, net, collected,
                   files>>

\* write_session_jsonl: an error while it writes is swallowed and leaves a part, here
\* all but the end, and the result goes its way all the same; without the directory
\* nothing of the session is kept.
WriteJsonl ==
    /\ pc = "jsonl"
    /\ \/ /\ jsonl' \in {collected, Front(collected)}
          /\ pc' = "result"
          /\ UNCHANGED resume
       \/ /\ pc' = "over"
          /\ resume' = FALSE
          /\ UNCHANGED jsonl
    /\ UNCHANGED <<hash, steps, verdict, net, collected, written, stored>>

\* write_result_json: a disk error leaves no file and no url.
WriteResult ==
    /\ pc = "result"
    /\ \/ written' = TRUE /\ pc' = "upload"
       \/ written' = FALSE /\ pc' = "record"
    /\ UNCHANGED <<hash, resume, steps, verdict, net, collected, jsonl,
                   stored>>

Upload ==
    /\ pc = "upload"
    /\ stored' \in {"ok", "silent", "lost"}
    /\ pc' = "record"
    /\ UNCHANGED <<hash, resume, steps, verdict, net, collected, jsonl,
                   written>>

\* Mutant: the url is not kept, as before BUG-result-endpoint-404-k8s.
RecordedPathOnly == path' = TRUE /\ url' = FALSE

\* update_sync(result_path, result_cdn_url): the url is empty unless the upload
\* was answered.
Recorded == path' = TRUE /\ url' = (stored = "ok")

Record ==
    /\ pc = "record"
    /\ Recorded
    /\ pc' = "over"
    /\ resume' = FALSE
    /\ UNCHANGED <<status, steps, verdict, net, collected, files>>

\* The worker's process dies, its threads with it.
Crash ==
    /\ pc \notin {"over", "down"}
    /\ pc' = "down"
    /\ threads' = {}
    /\ post' = NoPost
    /\ UNCHANGED <<hash, resume, steps, verdict, late, inbox, collected,
                   files>>

\* Recovery marks what ran or waited failed; nobody calls the supervisor back.
Recover ==
    /\ pc = "down"
    /\ status \in {"running", "waiting_for_user"}
    /\ status' = "failed"
    /\ UNCHANGED <<path, url, resume, pc, steps, verdict, net,
                   collected, files>>
-----------------------------------------------------------------------------
(* GET /result: the disk, the recorded url, the url built by convention from *)
(* the day the session was created on.  An empty result_path is the current  *)
(* directory to pathlib, which exists: the conventional path is not tried.   *)

\* shared: the API sees the worker's disk, not so in two pods; midnight: the
\* session ends on a later day than it was created on.
Readable(shared, midnight) ==
    /\ status \in Ended
    /\ \/ shared /\ path /\ written
       \/ url
       \/ ~url /\ stored \in {"ok", "silent"} /\ ~midnight

WorkerStep ==
    \/ \E t \in {"step", "ask"} : Yield(t)
    \/ \E t \in Ended : Finish(t)
    \/ StopIteration \/ PostAttempt \/ Wait \/ RunAgain
    \/ WriteVerdict \/ WriteJsonl \/ WriteResult \/ Upload \/ Record

Next ==
    \/ WorkerStep
    \/ \E p \in threads : ThreadAttempt(p)
    \/ \E p \in late : ArriveLate(p)
    \/ Reply \/ Crash \/ Recover

Spec == Init /\ [][Next]_vars

\* The worker's thread goes on as long as it can; the network, the receiver and
\* recovery owe nothing.
FairSpec == Spec /\ WF_vars(WorkerStep)
-----------------------------------------------------------------------------
Heard(t) == \E i \in DOMAIN inbox : inbox[i].type = t
HeardEnd == \E t \in Ended : Heard(t)

\* No question reaches the supervisor after the session's end did, unless its
\* POST had timed out: the end is not sent before the thread is through with
\* the question, of which no attempt is left.
NoAskAfterEnd ==
    [][(HeardEnd /\ Len(inbox') > Len(inbox) /\ Last(inbox').type = "ask")
          => \E p \in late : Sent(p) = Last(inbox') /\ p \notin late']_vars

\* GET /result serves the result, unless the upload server kept nothing that the API
\* can reach, and the log ends with the end there was, unless its write failed.
ResultServed ==
    /\ jsonl = collected => jsonl # <<>> /\ Last(jsonl).type = status
    /\ \A shared, midnight \in BOOLEAN :
          \/ Readable(shared, midnight)
          \/ ~shared /\ stored = "lost"
          \/ ~shared /\ stored = "silent" /\ midnight

\* What the supervisor was told has a result to be read: after the end arrived
\* GET /result comes to serve it, and a log that could be written has that end in it,
\* unless the worker dies, or the disk or the upload server kept nothing that the API
\* can reach.
DoneHasResult ==
    HeardEnd ~>
       \/ pc = "down"
       \/ pc = "over" /\ ~written
       \/ ResultServed
=============================================================================
