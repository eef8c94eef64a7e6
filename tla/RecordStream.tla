---------------------------- MODULE RecordStream ----------------------------
(***************************************************************************)
(* What a run of a scenario is to the worker: a generator that yields      *)
(* records until one says "done" (which may come again, as it is), raises  *)
(* or ends, and that may be closed whenever it is suspended.  JobRun's GenYields, GenRaises and GenStops   *)
(* are this stream seen from run_job_sync.                                 *)
(***************************************************************************)
EXTENDS Integers

VARIABLES
    gen,    \* state of the generator
    last    \* the record yielded last: kind, step number, and whether in error

NoRecord == [kind |-> "none", n |-> -1, err |-> FALSE]

Ended == {"returned", "raised", "closed"}

\* A record may follow another under a new step number; only the record that
\* says why a step failed has the number of the step.
MayFollow(r, s) == r.n > s.n \/ (r.n = s.n /\ r.kind = "done" /\ r.err)

Init == gen = "new" /\ last = NoRecord

Resume == gen \in {"new", "yielded"} /\ gen' = "running" /\ UNCHANGED last

Yield ==
    /\ gen = "running"
    /\ gen' = "yielded"
    /\ last'.kind \in {"step", "ask", "done"}
    /\ IF last.kind = "done" THEN last' = last ELSE MayFollow(last', last)

End == gen = "running" /\ gen' \in {"returned", "raised"} /\ UNCHANGED last

Close == gen = "yielded" /\ gen' = "closed" /\ UNCHANGED last

Next == Resume \/ Yield \/ End \/ Close

Spec == Init /\ [][Next]_<<gen, last>>
=============================================================================
