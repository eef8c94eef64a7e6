---------------------------- MODULE ScenarioRun ----------------------------
(***************************************************************************)
(* run_scenario: the generator the worker drives.  It sets the scenario's  *)
(* proxy and domains, opens its page, runs the flow or the agent with the  *)
(* scenario's hooks, and puts the settings back.  The caller resumes it as *)
(* often as it likes, also after "done", and may close it at any yield.    *)
(***************************************************************************)
EXTENDS Captcha, AgentRun

CONSTANTS
    Scenarios,   \* the scenarios to consider
    Steps        \* their steps, those of the branches too

\* max_attempts is at least 1.
ASSUME ScenarioAssumption ==
    /\ MaxAttempts \in Nat /\ Image # {}
    /\ \A s \in Scenarios : s.steps \in Seq(Steps) /\ {s.proxy, s.domains} \subseteq BOOLEAN
    /\ \A s \in Steps : s.then \in Seq(Steps) /\ s.else \in Seq(Steps)
                       /\ s.max \in 1..MaxAttempts

vars == <<genVars, flowVars, capVars, agentVars>>

Init ==
    /\ scn \in Scenarios
    /\ gen = "new"
    /\ pc = "open"
    /\ n = 0
    /\ last = [kind |-> "none", n |-> -1, err |-> FALSE]
    /\ tries = 0
    /\ proxy = FALSE
    /\ domains = FALSE
    /\ trace = "off"
    /\ FlowInit
    /\ CapInit
    /\ AgentInit

Send ==
    /\ gen \in {"new", "yielded"}
    /\ gen' = "running"
    /\ UNCHANGED <<scn, pc, n, last, tries, proxy, domains, trace, flowVars,
                   capVars, agentVars>>

\* Proxy and domains, then open_url; a page that does not open ends an agent.
Open ==
    /\ Running("open")
    /\ \/ /\ proxy' = scn.proxy
          /\ domains' = scn.domains
          /\ pc' = IF scn.mode = "flow" THEN "flow" ELSE "pre_check"
          /\ UNCHANGED gen
       \/ /\ scn.mode # "flow"
          /\ gen' = "raised"
          /\ Reset
          /\ UNCHANGED pc
    /\ UNCHANGED <<scn, n, last, tries, trace, flowVars, capVars, agentVars>>

\* The hook may find the goal reached before the agent starts.
PreCheck ==
    /\ Running("pre_check")
    /\ \/ pc' = "agent" /\ UNCHANGED <<gen, last, n>>
       \/ scn.hooks /\ n' = 1 /\ Yield("done", 1, FALSE, "over")
    /\ UNCHANGED <<scn, tries, proxy, domains, trace, flowVars, capVars, agentVars>>

\* post_step has found the goal reached: its record ends the run, whatever was
\* asked meanwhile.  The hooks that are registered terminate with a record only.
HookDone ==
    /\ Running("acted")
    /\ stop
    /\ Yield("done", n + 1, FALSE, "over")
    /\ UNCHANGED <<scn, n, tries, proxy, domains, trace, flowVars, capVars, agentVars>>

\* final_capture's record comes before that of post_step.  The one registered hook
\* that takes its arguments is post_step itself: its record is the same "done".
FinalCapture ==
    /\ Running("acted")
    /\ stop
    /\ scn.final
    /\ Yield("done", n + 1, FALSE, "captured")
    /\ UNCHANGED <<scn, n, tries, proxy, domains, trace, flowVars, capVars, agentVars>>

HookDoneAgain ==
    /\ Running("captured")
    /\ Yield("done", last.n, FALSE, "over")
    /\ UNCHANGED <<scn, n, tries, proxy, domains, trace, flowVars, capVars, agentVars>>

\* run_scenario returns after a "done" without resuming the agent again.
Over ==
    /\ Running("over")
    /\ gen' = "returned"
    /\ Reset
    /\ UNCHANGED <<scn, pc, n, last, tries, trace, flowVars, capVars, agentVars>>

\* gen.close(): the finally blocks run, of which the agent has none.
Close ==
    /\ gen = "yielded"
    /\ gen' = "closed"
    /\ trace' = IF scn.mode = "flow" /\ trace = "on" THEN "kept" ELSE trace
    /\ Reset
    /\ UNCHANGED <<scn, pc, n, last, tries, flowVars, capVars, agentVars>>

EngineNext ==
    \/ FlowNext /\ UNCHANGED <<capVars, agentVars>>
    \/ CapNext /\ UNCHANGED agentVars
    \/ AgentNext /\ UNCHANGED <<flowVars, capVars>>
    \/ Open \/ PreCheck \/ HookDone \/ FinalCapture \/ HookDoneAgain \/ Over

Next ==
    \/ EngineNext \/ Send \/ Close
    \/ CapRefresh /\ UNCHANGED agentVars

Spec == Init /\ [][Next]_vars

\* The generator runs when it is resumed, and the caller goes on with it.
FairSpec == Spec /\ WF_vars(EngineNext) /\ WF_vars(Send)
-----------------------------------------------------------------------------
\* The ranges of the variables.
TypeOK ==
    /\ scn \in Scenarios
    /\ gen \in {"new", "running", "yielded", "returned", "raised", "closed"}
    /\ pc \in {"open", "flow", "next", "try", "judge", "shown", "rules", "success",
              "unwind", "pre_check", "agent", "loop", "decide", "vision", "guard", "acted",
              "captured", "over", "cap_look", "cap_ocr", "cap_check", "cap_fill", "cap_verify",
              "cap_reroll"}
    /\ n \in Nat
    /\ last \in [kind : {"none", "step", "ask", "done"}, n : Nat \cup {-1}, err : BOOLEAN]
    /\ tries \in Nat
    /\ {proxy, domains, clear, typed, stop, src, manual} \subseteq BOOLEAN
    /\ trace \in {"off", "on", "kept"}
    /\ snap \in Page \cup {NoPage} /\ age \in {"fresh", "kept", "stale"}
    /\ acted \in {"none", "fresh", "kept", "stale"}
    /\ used \in 0..VisionCap
    /\ result \in {"ok", "fail", "ask"}
    /\ data \subseteq {"extracted", "link"}
    /\ {answer, code} \subseteq Code \cup {NoCode}
    /\ files \in [0..MaxAttempts -> Image \cup {NoImage}]
    /\ shown \in Image /\ looked \in Image \cup {NoImage}
    /\ seen \subseteq Ref
    /\ cand \in Decision
    /\ Len(hist) <= 2

\* Whatever branches, retries, rules, hooks and answers do, the caller sees one
\* stream: nothing but the same "done" after "done", and a record by its number
\* only once.
Stream == INSTANCE RecordStream
IsRecordStream == Stream!Spec

\* A click or a fill takes its reference from a snapshot that was made after the
\* flow's last action on the page, unless the capture that should have renewed it
\* failed: no retry, branch, wait or goto leaves an older one behind.
RefsAreFresh == acted # "stale"

\* A flow that ends by itself after a failed action says so, and it ends in success
\* only if the failure rules were looked at after the last action, in whatever
\* branch that was, and none was met.
FailureIsTold ==
    gen = "returned" /\ scn.mode = "flow" =>
        /\ last.kind = "done"
        /\ last.err \/ (result # "fail" /\ (clear \/ scn.steps = <<>>))

\* What the agent acts on is an element of the snapshot that its decision was
\* checked against, however often it was refused or decided again by vision.
ActsOnSeen == pc = "acted" /\ OnElement(cand) => cand.ref \in seen

\* The code that the user typed is submitted by the next solve_captcha step for its
\* field, and once: no retry, nor a later step, submits it again, and no step for
\* its field submits a code read by OCR while it waits.
TypedCodeOnce ==
    pc = "cap_fill" => IF manual THEN typed ELSE ~Step.field \/ answer = NoCode

\* However the run ends, the adapter's settings are the default ones again,
\* and a flow's trace and session.json are written before the worker that has
\* closed it looks for them.
ScopeRestored ==
    gen \in {"returned", "raised", "closed"} =>
        /\ ~proxy /\ ~domains
        /\ scn.mode = "flow" => trace # "on"

\* A caller that goes on resuming comes to an end: no branch, retry, question
\* or refused decision keeps the generator going.
RunEnds == <>(gen \in {"returned", "raised", "closed"})

\* solve_captcha.py: "Re-extract ngay trước submit; nếu ảnh đổi → OCR lại ảnh
\* MỚI để submit đúng captcha hiện tại": when the image could be looked at
\* again before the submit, it is that image's code that is submitted.
SubmitsLooked ==
    pc = "cap_fill" /\ ~manual /\ looked # NoImage => code = looked
=============================================================================
