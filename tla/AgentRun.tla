------------------------------ MODULE AgentRun ------------------------------
(***************************************************************************)
(* run_agent_autonomous: a step is a snapshot, a decision of the LLM, its  *)
(* validation against the snapshot (with retries, and with the screenshot  *)
(* for an element without description), the loop guard and the action.     *)
(* The LLM may decide anything at any time.                                *)
(***************************************************************************)
EXTENDS Generator

CONSTANTS
    Ref,           \* element references
    MaxSteps,      \* max_steps
    MaxRetries     \* max_retries

ASSUME AgentAssumption == MaxSteps \in Nat /\ MaxRetries \in Nat \ {0}

VARIABLES
    seen,      \* the references of the snapshot decided on
    cand,      \* the action decided on
    hist,      \* what was done in the last two steps
    stop       \* post_step has found the goal reached

agentVars == <<seen, cand, hist, stop>>

Nothing == [do |-> "wait", ref |-> "none"]

\* What the LLM may answer; "dummy" types a placeholder for a missing value.
Decision ==
    [do : {"click", "type", "dummy"}, ref : Ref] \cup
    [do : {"ask", "done", "wait"}, ref : {"none"}]

Ask == [do |-> "ask", ref |-> "none"]
Done == [do |-> "done", ref |-> "none"]

OnElement(d) == d.do \in {"click", "type", "dummy"}

-----------------------------------------------------------------------------
AgentInit ==
    /\ seen = {}
    /\ cand = Nothing
    /\ hist = <<>>
    /\ stop = FALSE

\* The generator is only made here: its body runs at the first send.
AgentBegin ==
    /\ Running("agent")
    /\ trace' = "on"
    /\ pc' = "loop"
    /\ UNCHANGED <<scn, gen, n, last, tries, proxy, domains, agentVars>>

\* max_steps are used up: the traces are written and the generator ends.
AgentOutOfSteps ==
    /\ Running("loop")
    /\ n >= MaxSteps
    /\ gen' = "returned"
    /\ trace' = "kept"
    /\ Reset
    /\ UNCHANGED <<scn, pc, n, last, tries, agentVars>>

AgentSnapshot ==
    /\ Running("loop")
    /\ n < MaxSteps
    /\ n' = n + 1
    /\ \/ /\ seen' \in SUBSET Ref
          /\ tries' = 0
          /\ pc' = "decide"
          /\ UNCHANGED <<gen, last>>
       \/ /\ Yield("done", n + 1, TRUE, "over")
          /\ UNCHANGED <<seen, tries>>
    /\ UNCHANGED <<scn, proxy, domains, trace, cand, hist, stop>>

\* The decision d is not one of the snapshot's elements.
Reject ==
    /\ tries' = tries + 1
    /\ IF tries' = MaxRetries THEN cand' = Ask /\ pc' = "guard"
                              ELSE UNCHANGED <<cand, pc>>

Accept(d) == cand' = d /\ pc' = "guard" /\ UNCHANGED tries

\* decide_action_autonomous, or decide_action_retry after a rejected element.
AgentDecide ==
    /\ Running("decide")
    /\ \/ Accept(Done)                             \* the LLM call raises
       \/ \E d \in Decision :
             \/ ~OnElement(d) /\ Accept(d)
             \/ d.do = "dummy" /\ Accept(Ask)
             \/ d.do \in {"click", "type"} /\ d.ref \notin seen /\ Reject
             \/ /\ d.do \in {"click", "type"} /\ d.ref \in seen
                /\ \/ Accept(d)
                   \/ cand' = d /\ pc' = "vision" /\ UNCHANGED tries
    /\ UNCHANGED <<scn, gen, n, last, proxy, domains, trace, seen, hist, stop>>

AgentVisionUnchecked ==   \* mutant: the new reference is not looked up
    /\ Running("vision")
    /\ \E fresh \in SUBSET Ref :
          /\ seen' = fresh
          /\ \E d \in Decision : Accept(d)
    /\ UNCHANGED <<scn, gen, n, last, proxy, domains, trace, hist, stop>>

\* The element has no description: the LLM decides again, by a new snapshot
\* and a screenshot.  An exception leaves the first decision as it is.
AgentVision ==
    /\ Running("vision")
    /\ \/ /\ Accept(cand)
          /\ UNCHANGED seen
       \/ \E fresh \in SUBSET Ref, d \in Decision :
             \/ ~OnElement(d) /\ Accept(d) /\ UNCHANGED seen
             \/ OnElement(d) /\ d.ref \in fresh /\ Accept(d) /\ seen' = fresh
             \/ /\ OnElement(d) /\ d.ref \notin fresh
                /\ tries' = tries + 1
                /\ IF tries' = MaxRetries THEN cand' = Ask /\ pc' = "guard"
                                          ELSE cand' = d /\ pc' = "decide"
                /\ UNCHANGED seen
    /\ UNCHANGED <<scn, gen, n, last, proxy, domains, trace, hist, stop>>

\* The loop guard: both of the last two steps did the same to the same element.
Repeated ==
    /\ Len(hist) >= 2
    /\ OnElement(cand)
    /\ \A i \in {1, 2} : hist[i] = cand

\* The action is carried out, noted and handed over; post_step looks first.
AgentAct ==
    /\ Running("guard")
    /\ LET d == IF Repeated THEN Ask ELSE cand
       IN  /\ cand' = d
           /\ hist' = IF Len(hist) < 2 THEN Append(hist, d) ELSE <<hist[2], d>>
           /\ stop' \in IF scn.hooks /\ d.do # "done" THEN BOOLEAN ELSE {FALSE}
           /\ \E err \in BOOLEAN :
                 Yield(CASE d.do = "ask" -> "ask" [] d.do = "done" -> "done"
                         [] OTHER -> "step", n, err,
                       IF d.do = "done" THEN "over" ELSE "acted")
    /\ UNCHANGED <<scn, n, tries, proxy, domains, trace, seen>>

\* The answer to a question may tell the agent to stop (_is_cancel_intent).
AgentGoOn ==
    /\ Running("acted")
    /\ ~stop
    /\ \/ pc' = "loop" /\ UNCHANGED <<gen, last>>
       \/ cand.do = "ask" /\ Yield("done", n + 1, FALSE, "over")
    /\ UNCHANGED <<scn, n, tries, proxy, domains, trace, agentVars>>

AgentNext ==
    \/ AgentBegin \/ AgentOutOfSteps \/ AgentSnapshot \/ AgentDecide
    \/ AgentVision \/ AgentAct \/ AgentGoOn
=============================================================================
