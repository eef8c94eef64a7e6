------------------------- MODULE ScenarioRun_proofs -------------------------
(***************************************************************************)
(* What run_scenario promises, for every set of scenarios, pages, images   *)
(* and element references and every bound: the stream of records that the  *)
(* worker relies on, fresh references, checked decisions, told failures    *)
(* and restored settings, and that every variable keeps its range.         *)
(***************************************************************************)
EXTENDS ScenarioRun, TLAPS

\* Where the record of the present step is still to come.
Working == {"try", "judge", "decide", "vision", "guard", "cap_look", "cap_ocr",
            "cap_check", "cap_fill", "cap_verify", "cap_reroll"}

\* Only the agent and its hooks are here.
AgentPlaces == {"pre_check", "agent", "loop", "decide", "vision", "guard", "acted",
                "captured", "over"}

-----------------------------------------------------------------------------
(* The stream of records. *)

\* The last record has a smaller number than the step in progress, and "done"
\* is followed by the end only.
StreamInv ==
    /\ n \in Nat
    /\ last.n \in Int
    /\ pc \in {"open", "pre_check"} => n = 0
    /\ pc \in Working => last.n < n
    /\ pc \notin {"captured", "over", "unwind"} => last.n <= n /\ last.kind # "done"
    /\ pc = "captured" => last = [kind |-> "done", n |-> last.n, err |-> FALSE]

\* A generator not yet started has handed nothing over.
LEMMA StreamInit == Init => StreamInv
  BY DEF Init, StreamInv, Working

\* The flow numbers a step before it works on it, and hands it over once.
LEMMA StreamFlow == StreamInv /\ FlowNext => StreamInv'
<1> SUFFICES ASSUME StreamInv, FlowNext PROVE StreamInv'
  OBVIOUS
<1>1. CASE FlowBegin
  BY <1>1 DEF StreamInv, Working, FlowBegin, Running
<1>2. CASE FlowNextStep
  BY <1>2 DEF StreamInv, Working, FlowNextStep, Running
<1>3. CASE FlowEndBranch
  BY <1>3 DEF StreamInv, Working, FlowEndBranch, Running
<1>4. CASE FlowOutOfSteps
  BY <1>4 DEF StreamInv, Working, FlowOutOfSteps, Running, Yield
<1>5. CASE FlowUnknownAction
  BY <1>5 DEF StreamInv, Working, FlowUnknownAction, Running
<1>6. CASE FlowTry
  BY <1>6 DEF StreamInv, Working, FlowTry, Running
<1>7. CASE FlowRetry
  BY <1>7 DEF StreamInv, Working, FlowRetry, Running
<1>8. CASE FlowShow
  BY <1>8 DEF StreamInv, Working, FlowShow, Running, Yield
<1>9. CASE FlowFailed
  BY <1>9 DEF StreamInv, Working, FlowFailed, Running, Yield
<1>10. CASE FlowGoOn
  BY <1>10 DEF StreamInv, Working, FlowGoOn, Running
<1>11. CASE FlowFailureRules
  BY <1>11 DEF StreamInv, Working, FlowFailureRules, Running, Yield
<1>12. CASE FlowSuccessRule
  BY <1>12 DEF StreamInv, Working, FlowSuccessRule, Running, Yield
<1>13. CASE FlowUnwind
  BY <1>13 DEF StreamInv, Working, FlowUnwind, Running
<1> QED
  BY <1>1, <1>2, <1>3, <1>4, <1>5, <1>6, <1>7, <1>8, <1>9, <1>10, <1>11, <1>12, <1>13
     DEF FlowNext

\* solve_captcha leaves the numbers and the last record alone.
LEMMA StreamCaptcha == StreamInv /\ CapNext => StreamInv'
<1> SUFFICES ASSUME StreamInv, CapNext PROVE StreamInv'
  OBVIOUS
<1> USE DEF StreamInv, Working, Running, Within, genKept, GoesTo, Returns
<1>1. CASE CapStart
  BY <1>1 DEF CapStart
<1>2. CASE CapLook
  BY <1>2 DEF CapLook
<1>3. CASE CapOcr
  BY <1>3 DEF CapOcr
<1>4. CASE CapCheck
  BY <1>4 DEF CapCheck
<1>5. CASE CapFill
  BY <1>5 DEF CapFill
<1>6. CASE CapVerify
  BY <1>6 DEF CapVerify
<1>7. CASE CapReroll
  BY <1>7 DEF CapReroll
<1> QED
  BY <1>1, <1>2, <1>3, <1>4, <1>5, <1>6, <1>7 DEF CapNext

\* The agent numbers a step when it takes its snapshot.
LEMMA StreamAgent == StreamInv /\ AgentNext => StreamInv'
<1> SUFFICES ASSUME StreamInv, AgentNext PROVE StreamInv'
  OBVIOUS
<1> USE DEF StreamInv, Working, Running
<1>1. CASE AgentBegin
  BY <1>1 DEF AgentBegin
<1>2. CASE AgentOutOfSteps
  BY <1>2 DEF AgentOutOfSteps
<1>3. CASE AgentSnapshot
  BY <1>3 DEF AgentSnapshot, Yield
<1>4. CASE AgentDecide
  BY <1>4 DEF AgentDecide, Accept, Reject
<1>5. CASE AgentVision
  BY <1>5 DEF AgentVision, Accept
<1>6. CASE AgentAct
  BY <1>6 DEF AgentAct, Yield
<1>7. CASE AgentGoOn
  BY <1>7 DEF AgentGoOn, Yield
<1> QED
  BY <1>1, <1>2, <1>3, <1>4, <1>5, <1>6, <1>7 DEF AgentNext

\* StreamInv holds along every run.
LEMMA StreamStep == StreamInv /\ [Next]_vars => StreamInv'
<1> SUFFICES ASSUME StreamInv, [Next]_vars PROVE StreamInv'
  OBVIOUS
<1>1. CASE EngineNext
  <2>1. CASE Open
    BY <2>1 DEF Open, Running, StreamInv, Working
  <2>2. CASE PreCheck
    BY <2>2 DEF PreCheck, Running, Yield, StreamInv, Working
  <2>3. CASE HookDone \/ FinalCapture
    BY <2>3 DEF HookDone, FinalCapture, Running, Yield, StreamInv, Working
  <2>4. CASE HookDoneAgain \/ Over
    BY <2>4 DEF HookDoneAgain, Over, Running, Yield, StreamInv, Working
  <2> QED
    BY <1>1, <2>1, <2>2, <2>3, <2>4, StreamFlow, StreamCaptcha, StreamAgent
       DEF EngineNext
<1>2. CASE Send \/ Close
  BY <1>2 DEF Send, Close, StreamInv, Working
<1>3. CASE CapRefresh \/ UNCHANGED vars
  BY <1>3 DEF CapRefresh, vars, genVars, StreamInv, Working
<1> QED
  BY <1>1, <1>2, <1>3 DEF Next

\* A step of the flow is one of the stream or leaves the stream alone.
LEMMA FlowRefines == StreamInv /\ FlowNext => [Stream!Next]_<<gen, last>>
<1> SUFFICES ASSUME StreamInv, FlowNext PROVE [Stream!Next]_<<gen, last>>
  OBVIOUS
<1>1. CASE FlowBegin \/ FlowNextStep \/ FlowEndBranch \/ FlowTry \/ FlowRetry \/ FlowGoOn
  BY <1>1 DEF FlowBegin, FlowNextStep, FlowEndBranch, FlowTry, FlowRetry, FlowGoOn
<1>2. CASE FlowUnknownAction \/ FlowUnwind
  BY <1>2 DEF FlowUnknownAction, FlowUnwind, Running, Stream!Next, Stream!End
<1> USE DEF StreamInv, Working, Running, Yield, Stream!Next, Stream!Yield, Stream!MayFollow
<1>3. CASE FlowOutOfSteps
  BY <1>3 DEF FlowOutOfSteps
<1>4. CASE FlowShow
  BY <1>4 DEF FlowShow
<1>5. CASE FlowFailed
  BY <1>5 DEF FlowFailed
<1>6. CASE FlowFailureRules \/ FlowSuccessRule
  BY <1>6 DEF FlowFailureRules, FlowSuccessRule
<1> QED
  BY <1>1, <1>2, <1>3, <1>4, <1>5, <1>6 DEF FlowNext

\* solve_captcha hands nothing over itself.
LEMMA CaptchaRefines == CapNext => UNCHANGED <<gen, last>>
  BY DEF CapNext, CapStart, CapLook, CapOcr, CapCheck, CapFill, CapVerify, CapReroll,
         Within, genKept

\* So is one of the agent.
LEMMA AgentRefines == StreamInv /\ AgentNext => [Stream!Next]_<<gen, last>>
<1> SUFFICES ASSUME StreamInv, AgentNext PROVE [Stream!Next]_<<gen, last>>
  OBVIOUS
<1>1. CASE AgentBegin \/ AgentDecide \/ AgentVision
  BY <1>1 DEF AgentBegin, AgentDecide, AgentVision
<1>2. CASE AgentOutOfSteps
  BY <1>2 DEF AgentOutOfSteps, Running, Stream!Next, Stream!End
<1> USE DEF StreamInv, Working, Running, Yield, Stream!Next, Stream!Yield, Stream!MayFollow
<1>3. CASE AgentSnapshot
  BY <1>3 DEF AgentSnapshot
<1>4. CASE AgentAct
  BY <1>4 DEF AgentAct
<1>5. CASE AgentGoOn
  BY <1>5 DEF AgentGoOn
<1> QED
  BY <1>1, <1>2, <1>3, <1>4, <1>5 DEF AgentNext

\* Every step of run_scenario is one of the stream or leaves it alone.
LEMMA StepRefines == StreamInv /\ [Next]_vars => [Stream!Next]_<<gen, last>>
<1> SUFFICES ASSUME StreamInv, [Next]_vars PROVE [Stream!Next]_<<gen, last>>
  OBVIOUS
<1>1. CASE EngineNext
  <2>1. CASE Open
    BY <2>1 DEF Open, Running, Stream!Next, Stream!End
  <2>2. CASE PreCheck
    BY <2>2 DEF PreCheck, Running, Yield, StreamInv, Working, Stream!Next,
                Stream!Yield, Stream!MayFollow
  <2>3. CASE HookDone \/ FinalCapture
    BY <2>3 DEF HookDone, FinalCapture, Running, Yield, StreamInv, Working, Stream!Next,
                Stream!Yield, Stream!MayFollow
  \* The same record once more.
  <2>4. CASE HookDoneAgain
    <3>1. last.kind = "done" /\ last' = last
      BY <2>4 DEF HookDoneAgain, Running, Yield, StreamInv
    <3> QED
      BY <2>4, <3>1 DEF HookDoneAgain, Running, Yield, Stream!Next, Stream!Yield
  <2>5. CASE Over
    BY <2>5 DEF Over, Running, Stream!Next, Stream!End
  <2> QED
    BY <1>1, <2>1, <2>2, <2>3, <2>4, <2>5, FlowRefines, CaptchaRefines, AgentRefines
       DEF EngineNext
<1>2. CASE Send
  BY <1>2 DEF Send, Stream!Next, Stream!Resume
<1>3. CASE Close
  BY <1>3 DEF Close, Stream!Next, Stream!Close
<1>4. CASE CapRefresh \/ UNCHANGED vars
  BY <1>4 DEF CapRefresh, vars, genVars
<1> QED
  BY <1>1, <1>2, <1>3, <1>4 DEF Next

\* Whatever the scenario, its caller sees a stream of records as JobRun assumes it:
\* nothing but itself after "done", and no number twice except in a failure's own
\* record.
THEOREM StreamImplemented == Spec => IsRecordStream
<1>1. Init => Stream!Init
  BY DEF Init, Stream!Init, Stream!NoRecord
<1> QED
  BY <1>1, StreamInit, StreamStep, StepRefines, PTL DEF Spec, IsRecordStream, Stream!Spec
-----------------------------------------------------------------------------
(* The snapshot: between two actions, the cached one is from after the flow's *)
(* last action on the page, or is there because the capture failed.           *)

SnapshotInv ==
    /\ pc # "judge" => age # "stale"
    /\ RefsAreFresh

\* A flow's steps: an action that leaves an outdated snapshot is judged next, and
\* the retry or the capture that follows drops it, renews it or keeps it as a failure.
LEMMA SnapshotFlow == SnapshotInv /\ FlowNext => SnapshotInv'
<1> SUFFICES ASSUME SnapshotInv, FlowNext PROVE SnapshotInv'
  OBVIOUS
<1> USE DEF SnapshotInv, RefsAreFresh, Running, Renews
<1>1. CASE FlowBegin \/ FlowNextStep \/ FlowEndBranch
  BY <1>1 DEF FlowBegin, FlowNextStep, FlowEndBranch
<1>2. CASE FlowOutOfSteps \/ FlowUnknownAction
  BY <1>2 DEF FlowOutOfSteps, FlowUnknownAction, flowVars, Yield
\* An action takes its reference from the snapshot as the attempt found it.
<1>3. CASE FlowTry
  <2>1. pc = "try" /\ pc' = "judge"
    BY <1>3 DEF FlowTry
  <2>2. acted' \in {acted, age}
    BY <1>3 DEF FlowTry, Act, Click, Fill, WaitFor, Sleep, Goto, HttpLogin, EvalJs, OpenLink,
                Scroll, FetchToCdn, ExtractData, UploadHtmlSource, UploadDownload,
                AskUser, IfVisible, Goes, Script, NotFound
  <2> QED
    BY <2>1, <2>2
<1>4. CASE FlowRetry
  BY <1>4 DEF FlowRetry
<1>5. CASE FlowShow
  BY <1>5 DEF FlowShow, Capture, Yield
<1>6. CASE FlowFailed \/ FlowUnwind
  BY <1>6 DEF FlowFailed, FlowUnwind, flowVars, Yield
<1>7. CASE FlowGoOn
  BY <1>7 DEF FlowGoOn
<1>8. CASE FlowFailureRules \/ FlowSuccessRule
  BY <1>8 DEF FlowFailureRules, FlowSuccessRule, RulesLook, Yield
<1> QED
  BY <1>1, <1>2, <1>3, <1>4, <1>5, <1>6, <1>7, <1>8 DEF FlowNext

\* The submit of a captcha drops the snapshot, or the step is judged next.
LEMMA SnapshotCaptcha == SnapshotInv /\ CapNext => SnapshotInv'
<1> SUFFICES ASSUME SnapshotInv, CapNext PROVE SnapshotInv'
  OBVIOUS
<1> USE DEF SnapshotInv, RefsAreFresh, Running, Within, GoesTo, Returns, Renews, Outdates
<1>1. CASE CapStart
  BY <1>1 DEF CapStart
<1>2. CASE CapLook
  BY <1>2 DEF CapLook
<1>3. CASE CapOcr
  BY <1>3 DEF CapOcr
<1>4. CASE CapCheck
  BY <1>4 DEF CapCheck
<1>5. CASE CapFill
  BY <1>5 DEF CapFill
<1>6. CASE CapVerify
  BY <1>6 DEF CapVerify
<1>7. CASE CapReroll
  BY <1>7 DEF CapReroll
<1> QED
  BY <1>1, <1>2, <1>3, <1>4, <1>5, <1>6, <1>7 DEF CapNext

\* The agent and the hooks leave the flow's snapshot alone.
LEMMA SnapshotOther ==
    ASSUME SnapshotInv, pc # "judge", UNCHANGED flowVars
    PROVE  SnapshotInv'
  BY DEF SnapshotInv, RefsAreFresh, flowVars

\* SnapshotInv holds along every run.
LEMMA SnapshotStep == SnapshotInv /\ [Next]_vars => SnapshotInv'
<1> SUFFICES ASSUME SnapshotInv, [Next]_vars PROVE SnapshotInv'
  OBVIOUS
<1>1. CASE FlowNext \/ CapNext
  BY <1>1, SnapshotFlow, SnapshotCaptcha
<1>2. CASE AgentNext /\ UNCHANGED flowVars
  BY <1>2, SnapshotOther
     DEF AgentNext, AgentBegin, AgentOutOfSteps, AgentSnapshot, AgentDecide, AgentVision,
         AgentAct, AgentGoOn, Running
<1>3. CASE Open \/ PreCheck \/ HookDone \/ FinalCapture \/ HookDoneAgain \/ Over
  BY <1>3, SnapshotOther DEF Open, PreCheck, HookDone, FinalCapture, HookDoneAgain, Over,
                             Running
<1>4. CASE Send \/ Close \/ CapRefresh \/ UNCHANGED vars
  BY <1>4 DEF Send, Close, CapRefresh, vars, flowVars, genVars, SnapshotInv, RefsAreFresh
<1> QED
  BY <1>1, <1>2, <1>3, <1>4 DEF Next, EngineNext

\* A click or a fill never takes its reference from a snapshot that is older than an
\* earlier action of the flow, unless the capture in between failed.
THEOREM ReferencesStayFresh == Spec => []RefsAreFresh
<1>1. Init => SnapshotInv
  BY DEF Init, FlowInit, SnapshotInv, RefsAreFresh
<1>2. SnapshotInv => RefsAreFresh
  BY DEF SnapshotInv
<1> QED
  BY <1>1, <1>2, SnapshotStep, PTL DEF Spec

-----------------------------------------------------------------------------
(* The agent: from its choice to its act, the element is of the snapshot    *)
(* that the choice was checked against.                                     *)

DecisionInv ==
    pc \in {"vision", "guard", "acted"} /\ OnElement(cand) => cand.ref \in seen

\* Each way to accept a decision has looked its reference up.
LEMMA DecisionAgent == DecisionInv /\ AgentNext => DecisionInv'
<1> SUFFICES ASSUME DecisionInv, AgentNext PROVE DecisionInv'
  OBVIOUS
<1> USE DEF DecisionInv, OnElement, Running
<1>1. CASE AgentBegin \/ AgentOutOfSteps
  BY <1>1 DEF AgentBegin, AgentOutOfSteps, agentVars
<1>2. CASE AgentSnapshot
  BY <1>2 DEF AgentSnapshot, Yield
<1>3. CASE AgentDecide
  BY <1>3 DEF AgentDecide, Accept, Reject, Ask, Done
<1>4. CASE AgentVision
  BY <1>4 DEF AgentVision, Accept, Ask
<1>5. CASE AgentAct
  BY <1>5 DEF AgentAct, Yield, Ask
<1>6. CASE AgentGoOn
  BY <1>6 DEF AgentGoOn, Yield, agentVars
<1> QED
  BY <1>1, <1>2, <1>3, <1>4, <1>5, <1>6 DEF AgentNext

\* DecisionInv holds along every run.
LEMMA DecisionStep == DecisionInv /\ [Next]_vars => DecisionInv'
<1> SUFFICES ASSUME DecisionInv, [Next]_vars PROVE DecisionInv'
  OBVIOUS
<1>1. CASE AgentNext
  BY <1>1, DecisionAgent
<1>2. CASE FlowNext /\ UNCHANGED agentVars
  BY <1>2 DEF FlowNext, FlowBegin, FlowNextStep, FlowEndBranch, FlowOutOfSteps,
              FlowUnknownAction, FlowTry, FlowRetry, FlowShow, FlowFailed, FlowGoOn,
              FlowFailureRules, FlowSuccessRule, FlowUnwind, Yield, agentVars,
              DecisionInv, OnElement
<1>3. CASE CapNext /\ UNCHANGED agentVars
  BY <1>3 DEF CapNext, CapStart, CapLook, CapOcr, CapCheck, CapFill, CapVerify,
              CapReroll, Returns, GoesTo, Running, agentVars, DecisionInv, OnElement
<1>4. CASE Open \/ PreCheck \/ HookDone \/ FinalCapture \/ HookDoneAgain \/ Over
  BY <1>4 DEF Open, PreCheck, HookDone, FinalCapture, HookDoneAgain, Over, Yield, agentVars,
              DecisionInv, OnElement
<1>5. CASE Send \/ Close
  BY <1>5 DEF Send, Close, agentVars, DecisionInv, OnElement
<1>6. CASE CapRefresh /\ UNCHANGED agentVars
  BY <1>6 DEF CapRefresh, genVars, agentVars, DecisionInv, OnElement
<1>7. CASE UNCHANGED vars
  BY <1>7 DEF vars, genVars, agentVars, DecisionInv, OnElement
<1> QED
  BY <1>1, <1>2, <1>3, <1>4, <1>5, <1>6, <1>7 DEF Next, EngineNext

\* An agent acts on an element of the snapshot that its decision was checked against.
THEOREM AgentActsOnSeen == Spec => []ActsOnSeen
<1>1. Init => DecisionInv
  BY DEF Init, DecisionInv
<1>2. DecisionInv => ActsOnSeen
  BY DEF DecisionInv, ActsOnSeen
<1> QED
  BY <1>1, <1>2, DecisionStep, PTL DEF Spec
-----------------------------------------------------------------------------
(* The settings: whatever ends the generator resets them, and a flow never   *)
(* comes to where the agent ends.                                            *)

ScopeInv ==
    /\ ScopeRestored
    /\ scn.mode = "flow" => pc \notin AgentPlaces

Ending == gen' \in {"returned", "raised", "closed"}

\* A step that does not end the run.
LEMMA ScopeGoesOn ==
    ASSUME ScopeInv, ~Ending, UNCHANGED scn,
           scn.mode = "flow" => pc' \notin AgentPlaces
    PROVE  ScopeInv'
  BY DEF ScopeInv, ScopeRestored, Ending

\* A flow ends with its traces written and the settings reset.
LEMMA ScopeFlow == ScopeInv /\ FlowNext => ScopeInv'
<1> SUFFICES ASSUME ScopeInv, FlowNext PROVE ScopeInv'
  OBVIOUS
<1>1. CASE FlowUnknownAction \/ FlowUnwind
  BY <1>1 DEF FlowUnknownAction, FlowUnwind, Reset, ScopeInv, ScopeRestored
<1>2. CASE ~(FlowUnknownAction \/ FlowUnwind)
  BY <1>2, ScopeGoesOn
     DEF FlowNext, FlowBegin, FlowNextStep, FlowEndBranch, FlowOutOfSteps, FlowTry,
         FlowRetry, FlowShow, FlowFailed, FlowGoOn, FlowFailureRules, FlowSuccessRule,
         Running, Yield, Ending, AgentPlaces
<1> QED
  BY <1>1, <1>2

\* solve_captcha does not end a run.
LEMMA ScopeCaptcha == ScopeInv /\ CapNext => ScopeInv'
  BY ScopeGoesOn
     DEF CapNext, CapStart, CapLook, CapOcr, CapCheck, CapFill, CapVerify, CapReroll,
         Within, genKept, Returns, GoesTo, Running, Ending, AgentPlaces

\* An agent that is out of steps resets the settings.
LEMMA ScopeAgent == ScopeInv /\ AgentNext => ScopeInv'
<1> SUFFICES ASSUME ScopeInv, AgentNext PROVE ScopeInv'
  OBVIOUS
<1>1. pc \in AgentPlaces /\ scn.mode # "flow" /\ UNCHANGED scn
  BY DEF AgentNext, AgentBegin, AgentOutOfSteps, AgentSnapshot, AgentDecide,
         AgentVision, AgentAct, AgentGoOn, Running, AgentPlaces, ScopeInv
<1>2. CASE AgentOutOfSteps
  BY <1>1, <1>2 DEF AgentOutOfSteps, Reset, ScopeInv, ScopeRestored
<1>3. CASE ~AgentOutOfSteps
  <2>1. ~Ending
    BY <1>3 DEF AgentNext, AgentBegin, AgentSnapshot, AgentDecide, AgentVision,
                AgentAct, AgentGoOn, Running, Yield, Ending
  <2> QED
    BY <1>1, <2>1, ScopeGoesOn
<1> QED
  BY <1>2, <1>3

\* ScopeInv holds along every run.
LEMMA ScopeStep == ScopeInv /\ [Next]_vars => ScopeInv'
<1> SUFFICES ASSUME ScopeInv, [Next]_vars PROVE ScopeInv'
  OBVIOUS
<1>1. CASE FlowNext \/ CapNext \/ AgentNext
  BY <1>1, ScopeFlow, ScopeCaptcha, ScopeAgent
<1>2. CASE Open
  BY <1>2 DEF Open, Running, Reset, AgentPlaces, ScopeInv, ScopeRestored
<1>3. CASE PreCheck \/ HookDone \/ FinalCapture \/ HookDoneAgain
  BY <1>3, ScopeGoesOn DEF PreCheck, HookDone, FinalCapture, HookDoneAgain, Running, Yield,
                           Ending, AgentPlaces, ScopeInv
<1>4. CASE Over
  BY <1>4 DEF Over, Running, Reset, AgentPlaces, ScopeInv, ScopeRestored
<1>5. CASE Send
  BY <1>5, ScopeGoesOn DEF Send, Ending, ScopeInv
<1>6. CASE Close
  BY <1>6 DEF Close, Reset, ScopeInv, ScopeRestored
<1>7. CASE CapRefresh \/ UNCHANGED vars
  BY <1>7 DEF CapRefresh, vars, genVars, ScopeInv, ScopeRestored
<1> QED
  BY <1>1, <1>2, <1>3, <1>4, <1>5, <1>6, <1>7 DEF Next, EngineNext

\* Every end of a run, also close() at any yield, restores the adapter's settings,
\* and keeps the trace of a flow.
THEOREM SettingsRestored == Spec => []ScopeRestored
<1>1. Init => ScopeInv
  BY DEF Init, ScopeInv, ScopeRestored, AgentPlaces
<1>2. ScopeInv => ScopeRestored
  BY DEF ScopeInv
<1> QED
  BY <1>1, <1>2, ScopeStep, PTL DEF Spec

-----------------------------------------------------------------------------
(* The ranges.  A step that is worked on is a step of the scenario: no branch *)
(* is entered or left without one to go on with.                             *)

CapPlaces == {"cap_look", "cap_ocr", "cap_check", "cap_fill", "cap_verify", "cap_reroll"}

\* Where there is a present step.
InStep == {"try", "judge", "shown", "rules", "success"} \cup CapPlaces

Places == InStep \cup AgentPlaces \cup {"open", "flow", "next", "unwind"}

Record == [kind : {"none", "step", "ask", "done"}, n : Nat \cup {-1}, err : BOOLEAN]

GenTypes ==
    /\ scn \in Scenarios /\ pc \in Places
    /\ gen \in {"new", "running", "yielded", "returned", "raised", "closed"}
    /\ n \in Nat /\ tries \in Nat /\ last \in Record
    /\ proxy \in BOOLEAN /\ domains \in BOOLEAN
    /\ trace \in {"off", "on", "kept"}

FrameTypes ==
    /\ frames \in Seq(Seq(Steps)) /\ pending \in Seq(Steps)
    /\ \A i \in 2..Len(frames) : frames[i] # <<>>
    /\ pc \in InStep \cup {"next"} => Len(frames) > 0
    /\ pc \in InStep => frames[1] # <<>>

PageTypes ==
    /\ snap \in Page \cup {NoPage}
    /\ age \in {"fresh", "kept", "stale"} /\ acted \in {"none", "fresh", "kept", "stale"}
    /\ clear \in BOOLEAN /\ typed \in BOOLEAN /\ used \in 0..VisionCap
    /\ result \in {"ok", "fail", "ask"}
    /\ answer \in Code \cup {NoCode} /\ data \subseteq {"extracted", "link"}

\* An attempt has a name for its image, and the image is there to be read.
CapTypes ==
    /\ shown \in Image /\ looked \in Image \cup {NoImage}
    /\ files \in [0..MaxAttempts -> Image \cup {NoImage}]
    /\ src \in BOOLEAN /\ manual \in BOOLEAN
    /\ code \in Code \cup {NoCode}
    /\ pc \in CapPlaces => att \in 1..MaxAttempts
    /\ pc = "cap_ocr" => files[att] \in Image

AgentTypes ==
    /\ seen \subseteq Ref /\ cand \in Decision /\ stop \in BOOLEAN
    /\ hist \in Seq(Decision) /\ Len(hist) <= 2

RangeInv == GenTypes /\ FrameTypes /\ PageTypes /\ CapTypes /\ AgentTypes

\* TypeOK is a part of it.
LEMMA RangeGivesTypes == RangeInv => TypeOK
  BY DEF RangeInv, GenTypes, FrameTypes, PageTypes, CapTypes, AgentTypes, TypeOK, Places, InStep,
         CapPlaces, AgentPlaces, Record

\* A sequence that has a length has elements.
LEMMA LongOne ==
    ASSUME NEW X, NEW t \in Seq(X), Len(t) > 0
    PROVE  t # <<>> /\ DOMAIN t = 1..Len(t) /\ 1 \in DOMAIN t /\ t[1] \in X
  OBVIOUS

\* Where there is a present step, it is one of the scenarios'.
LEMMA StepIsOne ==
    ASSUME FrameTypes, pc \in InStep
    PROVE  /\ Step \in Steps /\ Step.max \in 1..MaxAttempts
           /\ Step.then \in Seq(Steps) /\ Step.else \in Seq(Steps)
<1>1. frames[1] \in Seq(Steps) /\ frames[1] # <<>>
  BY LongOne DEF FrameTypes
<1>2. Head(frames[1]) \in Steps
  BY <1>1
<1> QED
  BY <1>2, ScenarioAssumption DEF Step

\* What is handed over is a record.
LEMMA RecordMade ==
    ASSUME NEW m \in Nat
    PROVE  /\ m + 1 \in Nat
           /\ \A k \in {"step", "ask", "done"}, e \in BOOLEAN :
                 /\ [kind |-> k, n |-> m, err |-> e] \in Record
                 /\ [kind |-> k, n |-> m + 1, err |-> e] \in Record
  BY DEF Record

\* At the start.
LEMMA RangeInit == Init => RangeInv
<1> SUFFICES ASSUME Init PROVE RangeInv
  OBVIOUS
<1>1. GenTypes
  <2>1. last \in Record
    BY DEF Init, Record
  <2> QED
    BY <2>1 DEF Init, GenTypes, Places
<1>2. FrameTypes
  BY DEF Init, FlowInit, FrameTypes, InStep, CapPlaces
<1>3. PageTypes
  <2>1. 0 \in 0..VisionCap
    BY FlowAssumption
  <2> QED
    BY <2>1 DEF Init, FlowInit, PageTypes
<1>4. CapTypes
  <2>1. (CHOOSE i \in Image : TRUE) \in Image
    BY ScenarioAssumption
  <2>2. [a \in 0..MaxAttempts |-> NoImage] \in [0..MaxAttempts -> Image \cup {NoImage}]
    OBVIOUS
  <2>3. pc = "open" /\ "open" \notin CapPlaces
    BY DEF Init, CapPlaces
  <2> QED
    BY <2>1, <2>2, <2>3 DEF Init, CapInit, CapTypes
<1>5. AgentTypes
  <2>1. Nothing \in Decision
    BY DEF Nothing, Decision
  <2>2. <<>> \in Seq(Decision) /\ Len(<<>>) <= 2
    OBVIOUS
  <2> QED
    BY <2>1, <2>2 DEF Init, AgentInit, AgentTypes
<1> QED
  BY <1>1, <1>2, <1>3, <1>4, <1>5 DEF RangeInv

-----------------------------------------------------------------------------
\* The generator's part, over the flow's steps.
LEMMA GenFlow == GenTypes /\ FlowNext => GenTypes'
<1> SUFFICES ASSUME GenTypes, FlowNext PROVE GenTypes'
  OBVIOUS
<1> USE DEF GenTypes, Places, InStep, Running, Yield, Reset
<1>1. CASE FlowBegin
  BY <1>1 DEF FlowBegin
<1>2. CASE FlowNextStep
  BY <1>2 DEF FlowNextStep
<1>3. CASE FlowEndBranch
  BY <1>3 DEF FlowEndBranch
<1>4. CASE FlowOutOfSteps
  <2>1. /\ n + 1 \in Nat
        /\ [kind |-> "done", n |-> n + 1, err |-> FALSE] \in Record
    BY RecordMade
  <2> QED
    BY <1>4, <2>1 DEF FlowOutOfSteps
<1>5. CASE FlowUnknownAction
  BY <1>5 DEF FlowUnknownAction
<1>6. CASE FlowTry
  BY <1>6 DEF FlowTry
<1>7. CASE FlowRetry
  BY <1>7 DEF FlowRetry
<1>8. CASE FlowShow
  <2>1. last' \in Record
    BY <1>8, RecordMade DEF FlowShow
  <2> QED
    BY <1>8, <2>1 DEF FlowShow
<1>9. CASE FlowFailed
  <2>1. /\ [kind |-> "done", n |-> n, err |-> TRUE] \in Record
    BY RecordMade
  <2> QED
    BY <1>9, <2>1 DEF FlowFailed
<1>10. CASE FlowGoOn
  BY <1>10 DEF FlowGoOn
<1>11. CASE FlowFailureRules
  <2>1. [kind |-> "done", n |-> n, err |-> TRUE] \in Record
    BY RecordMade
  <2> QED
    BY <1>11, <2>1 DEF FlowFailureRules
<1>12. CASE FlowSuccessRule
  <2>1. /\ n + 1 \in Nat
        /\ [kind |-> "done", n |-> n + 1, err |-> FALSE] \in Record
    BY RecordMade
  <2> QED
    BY <1>12, <2>1 DEF FlowSuccessRule
<1>13. CASE FlowUnwind
  BY <1>13 DEF FlowUnwind
<1> QED
  BY <1>1, <1>2, <1>3, <1>4, <1>5, <1>6, <1>7, <1>8, <1>9, <1>10, <1>11, <1>12, <1>13
     DEF FlowNext

\* ... over those of solve_captcha ...
LEMMA GenCaptcha == GenTypes /\ CapNext => GenTypes'
<1> SUFFICES ASSUME GenTypes, CapNext PROVE GenTypes'
  OBVIOUS
<1>1. /\ UNCHANGED genKept
      /\ \E p \in CapPlaces \cup {"judge"} : pc' = p
      /\ tries' \in {tries, tries + 1}
  <2> USE DEF Within, GoesTo, Returns, CapPlaces
  <2>1. CASE CapStart
    BY <2>1 DEF CapStart
  <2>2. CASE CapLook \/ CapOcr
    BY <2>2 DEF CapLook, CapOcr
  <2>3. CASE CapCheck
    BY <2>3 DEF CapCheck
  <2>4. CASE CapFill
    BY <2>4 DEF CapFill
  <2>5. CASE CapVerify
    BY <2>5 DEF CapVerify
  <2>6. CASE CapReroll
    BY <2>6 DEF CapReroll
  <2> QED
    BY <2>1, <2>2, <2>3, <2>4, <2>5, <2>6 DEF CapNext
<1> QED
  BY <1>1 DEF GenTypes, genKept, Places, InStep

\* ... and over the agent's.
LEMMA GenAgent == GenTypes /\ AgentNext => GenTypes'
<1> SUFFICES ASSUME GenTypes, AgentNext PROVE GenTypes'
  OBVIOUS
<1> USE DEF GenTypes, Places, AgentPlaces, Running, Yield, Reset
<1>1. CASE AgentBegin
  BY <1>1 DEF AgentBegin
<1>2. CASE AgentOutOfSteps
  BY <1>2 DEF AgentOutOfSteps
<1>3. CASE AgentSnapshot
  <2>1. /\ n + 1 \in Nat
        /\ [kind |-> "done", n |-> n + 1, err |-> TRUE] \in Record
    BY RecordMade
  <2> QED
    <3>1. /\ n' = n + 1 /\ UNCHANGED <<scn, proxy, domains, trace>>
          /\ \/ tries' = 0 /\ pc' = "decide" /\ gen' = gen /\ last' = last
             \/ /\ gen' = "yielded" /\ pc' = "over" /\ tries' = tries
                /\ last' = [kind |-> "done", n |-> n + 1, err |-> TRUE]
      BY <1>3, Zenon DEF AgentSnapshot
    <3>2. last' \in Record
      BY <2>1, <3>1
    <3>3. gen' \in {"new", "running", "yielded", "returned", "raised", "closed"}
          /\ pc' \in Places /\ tries' \in Nat
      BY <3>1
    <3> QED
      BY <2>1, <3>1, <3>2, <3>3
<1>4. CASE AgentDecide
  BY <1>4 DEF AgentDecide, Accept, Reject
<1>5. CASE AgentVision
  BY <1>5 DEF AgentVision, Accept
<1>6. CASE AgentAct
  <2>1. last' \in Record
    BY <1>6, RecordMade DEF AgentAct
  <2>2. /\ pc' \in {"over", "acted"} /\ gen' = "yielded"
        /\ UNCHANGED <<scn, n, tries, proxy, domains, trace>>
    BY <1>6 DEF AgentAct
  <2> QED
    BY <2>1, <2>2
<1>7. CASE AgentGoOn
  <2>1. /\ n + 1 \in Nat
        /\ [kind |-> "done", n |-> n + 1, err |-> FALSE] \in Record
    BY RecordMade
  <2> QED
    BY <1>7, <2>1 DEF AgentGoOn
<1> QED
  BY <1>1, <1>2, <1>3, <1>4, <1>5, <1>6, <1>7 DEF AgentNext

\* The generator's part over every step.
LEMMA GenStep == GenTypes /\ [Next]_vars => GenTypes'
<1> SUFFICES ASSUME GenTypes, [Next]_vars PROVE GenTypes'
  OBVIOUS
<1>1. CASE Open
  <2>1. scn.proxy \in BOOLEAN /\ scn.domains \in BOOLEAN
    BY ScenarioAssumption DEF GenTypes
  <2>2. pc' \in Places
    BY <1>1 DEF Open, GenTypes, Places, InStep, AgentPlaces
  <2> QED
    BY <1>1, <2>1, <2>2 DEF Open, GenTypes, Reset
<1>2. CASE PreCheck \/ HookDone \/ FinalCapture \/ HookDoneAgain
  <2>1. last' \in Record /\ n' \in Nat
    <3>1. CASE PreCheck
      <4>1. [kind |-> "done", n |-> 1, err |-> FALSE] \in Record
        BY DEF Record
      <4>2. \/ last' = last /\ n' = n
            \/ last' = [kind |-> "done", n |-> 1, err |-> FALSE] /\ n' = 1
        BY <3>1 DEF PreCheck, Yield
      <4>3. last \in Record /\ n \in Nat /\ 1 \in Nat
        BY DEF GenTypes
      <4> QED
        BY ONLY <4>1, <4>2, <4>3
    <3>2. CASE HookDone \/ FinalCapture
      <4>1. [kind |-> "done", n |-> n + 1, err |-> FALSE] \in Record
        BY RecordMade DEF GenTypes
      <4>2. last' = [kind |-> "done", n |-> n + 1, err |-> FALSE] /\ n' = n
        BY <3>2 DEF HookDone, FinalCapture, Yield
      <4> QED
        BY <4>1, <4>2 DEF GenTypes
    <3>3. CASE HookDoneAgain
      <4>1. last' = [kind |-> "done", n |-> last.n, err |-> FALSE] /\ n' = n
        BY <3>3 DEF HookDoneAgain, Yield
      <4>2. last.n \in Nat \cup {-1}
        BY DEF GenTypes, Record
      <4> QED
        BY <4>1, <4>2 DEF GenTypes, Record
    <3> QED
      BY <1>2, <3>1, <3>2, <3>3
  <2>2. /\ pc' \in {"agent", "captured", "over"} /\ gen' \in {gen, "yielded"}
        /\ UNCHANGED <<scn, tries, proxy, domains, trace>>
    BY <1>2 DEF PreCheck, HookDone, FinalCapture, HookDoneAgain, Yield
  <2> QED
    BY <2>1, <2>2 DEF GenTypes, Places, InStep, AgentPlaces
<1>3. CASE Over \/ Send \/ Close
  BY <1>3 DEF Over, Send, Close, GenTypes, Reset
<1>4. CASE CapRefresh \/ UNCHANGED vars
  BY <1>4 DEF CapRefresh, vars, genVars, GenTypes
<1> QED
  BY <1>1, <1>2, <1>3, <1>4, GenFlow, GenCaptcha, GenAgent DEF Next, EngineNext

-----------------------------------------------------------------------------
\* The innermost branch gives way to the one around it, ...
LEMMA FrameLeft ==
    ASSUME NEW S, NEW s \in Seq(Seq(S)), Len(s) > 1
    PROVE  /\ Tail(s) \in Seq(Seq(S)) /\ Len(Tail(s)) > 0
           /\ \A i \in 1..Len(Tail(s)) : i + 1 \in 2..Len(s) /\ Tail(s)[i] = s[i + 1]
  OBVIOUS

\* ... to what is left of it, ...
LEMMA FrameShrinks ==
    ASSUME NEW S, NEW s \in Seq(Seq(S)), Len(s) > 0, NEW e \in Seq(S)
    PROVE  /\ <<e>> \o Tail(s) \in Seq(Seq(S)) /\ Len(<<e>> \o Tail(s)) = Len(s)
           /\ \A i \in 2..Len(s) : (<<e>> \o Tail(s))[i] = s[i]
<1>1. Tail(s) \in Seq(Seq(S)) /\ Len(s) \in Nat /\ Len(Tail(s)) = Len(s) - 1
      /\ \A i \in 1..(Len(s) - 1) : Tail(s)[i] = s[i + 1]
  OBVIOUS
<1>2. \A i \in 2..Len(s) : (<<e>> \o Tail(s))[i] = Tail(s)[i - 1] /\ (i - 1) + 1 = i
                            /\ i - 1 \in 1..(Len(s) - 1)
  BY <1>1
<1> QED
  BY <1>1, <1>2

\* ... or to a new one within it.
LEMMA FrameEntered ==
    ASSUME NEW S, NEW s \in Seq(Seq(S)), Len(s) > 0, NEW e \in Seq(S)
    PROVE  /\ <<e>> \o s \in Seq(Seq(S)) /\ Len(<<e>> \o s) = Len(s) + 1
           /\ \A i \in 2..(Len(s) + 1) : i - 1 \in 1..Len(s) /\ (<<e>> \o s)[i] = s[i - 1]
  OBVIOUS

\* The flow's own steps keep a branch in progress for each level.
LEMMA FrameFlow == GenTypes /\ FrameTypes /\ FlowNext => FrameTypes'
<1> SUFFICES ASSUME GenTypes, FrameTypes, FlowNext PROVE FrameTypes'
  OBVIOUS
<1> USE DEF FrameTypes, InStep, CapPlaces, Running
<1>1. CASE FlowBegin
  <2>1. scn.steps \in Seq(Steps)
    BY ScenarioAssumption DEF GenTypes
  <2> QED
    BY <1>1, <2>1 DEF FlowBegin
<1>2. CASE FlowNextStep
  BY <1>2 DEF FlowNextStep
<1>3. CASE FlowEndBranch
  <2>1. Len(frames) > 1 /\ frames' = Tail(frames) /\ pending' = pending
    BY <1>3 DEF FlowEndBranch
  <2>2. frames' \in Seq(Seq(Steps)) /\ Len(frames') > 0
        /\ \A i \in 1..Len(frames') : frames'[i] # <<>>
    BY <2>1, FrameLeft
  <2>3. frames'[1] # <<>> /\ \A i \in 2..Len(frames') : frames'[i] # <<>>
    BY <2>2
  <2> QED
    BY <2>1, <2>2, <2>3
<1>4. CASE FlowOutOfSteps \/ FlowFailed
  BY <1>4 DEF FlowOutOfSteps, FlowFailed, Yield, flowVars
<1>5. CASE FlowUnknownAction \/ FlowUnwind
  BY <1>5 DEF FlowUnknownAction, FlowUnwind, flowVars
<1>6. CASE FlowTry
  <2>1. UNCHANGED frames /\ pc = "try" /\ pc' = "judge"
    BY <1>6 DEF FlowTry
  <2>2. pending' \in {pending, Step.then, Step.else}
    <3>1. Act
      BY <1>6 DEF FlowTry
    <3>2. CASE IfVisible
      BY <3>2 DEF IfVisible
    <3>3. CASE ~IfVisible
      BY <3>1, <3>3
         DEF Act, Click, Fill, WaitFor, Sleep, Goto, Goes, HttpLogin, UploadHtmlSource,
             UploadDownload, Script, EvalJs, OpenLink, Scroll, FetchToCdn, ExtractData, AskUser
    <3> QED
      BY <3>2, <3>3
  <2>3. pending' \in Seq(Steps)
    BY <2>1, <2>2, StepIsOne
  <2> QED
    BY <2>1, <2>3
<1>7. CASE FlowRetry \/ FlowShow
  BY <1>7 DEF FlowRetry, FlowShow, Yield
<1>8. CASE FlowGoOn
  <2>1. Len(frames) > 0 /\ frames[1] # <<>> /\ pending' = <<>>
    BY <1>8 DEF FlowGoOn
  <2>2. CASE pending = <<>>
    BY <1>8, <2>1, <2>2 DEF FlowGoOn
  <2>3. CASE pending # <<>>
    <3>1. frames' = <<pending>> \o frames /\ pc' = "next"
      BY <1>8, <2>3 DEF FlowGoOn
    <3>2. frames' \in Seq(Seq(Steps)) /\ Len(frames') = Len(frames) + 1
          /\ \A i \in 2..Len(frames') : i - 1 \in 1..Len(frames) /\ frames'[i] = frames[i - 1]
      BY <2>1, <3>1, FrameEntered
    <3>3. \A i \in 1..Len(frames) : frames[i] # <<>>
      BY <2>1
    <3> QED
      BY <2>1, <3>1, <3>2, <3>3
  <2> QED
    BY <2>2, <2>3
<1>9. CASE FlowFailureRules
  BY <1>9 DEF FlowFailureRules, Yield
<1>10. CASE FlowSuccessRule
  <2>1. Len(frames) > 0 /\ frames[1] # <<>> /\ pending' = pending
    BY <1>10 DEF FlowSuccessRule
  <2>2. CASE UNCHANGED frames /\ pc' = "unwind"
    BY <2>1, <2>2
  <2>3. CASE frames' = <<Tail(frames[1])>> \o Tail(frames) /\ pc' = "next"
    <3>1. Tail(frames[1]) \in Seq(Steps)
      BY <2>1, LongOne
    <3>2. frames' \in Seq(Seq(Steps)) /\ Len(frames') = Len(frames)
          /\ \A i \in 2..Len(frames') : frames'[i] = frames[i]
      BY <2>1, <2>3, <3>1, FrameShrinks
    <3> QED
      BY <2>1, <2>3, <3>2
  <2> QED
    BY <1>10, <2>2, <2>3 DEF FlowSuccessRule, Yield
<1> QED
  BY <1>1, <1>2, <1>3, <1>4, <1>5, <1>6, <1>7, <1>8, <1>9, <1>10 DEF FlowNext

\* ... and nothing else touches the branches.
LEMMA FrameStep == GenTypes /\ FrameTypes /\ [Next]_vars => FrameTypes'
<1> SUFFICES ASSUME GenTypes, FrameTypes, [Next]_vars PROVE FrameTypes'
  OBVIOUS
<1>1. CASE CapNext
  <2>1. /\ UNCHANGED <<frames, pending>> /\ pc \in InStep
    BY <1>1 DEF CapNext, CapStart, CapLook, CapOcr, CapCheck, CapFill, CapVerify, CapReroll,
                Within, Running, InStep, CapPlaces
  <2> QED
    BY <2>1 DEF FrameTypes
<1>2. CASE AgentNext /\ UNCHANGED <<flowVars, capVars>>
  <2>1. pc' \in AgentPlaces \cup {pc}
    BY <1>2 DEF AgentNext, AgentBegin, AgentOutOfSteps, AgentSnapshot, AgentDecide, AgentVision,
                AgentAct, AgentGoOn, Accept, Reject, Yield, AgentPlaces
  <2> QED
    BY <1>2, <2>1 DEF FrameTypes, flowVars, InStep, CapPlaces, AgentPlaces
<1>3. CASE Open \/ PreCheck \/ HookDone \/ FinalCapture \/ HookDoneAgain \/ Over \/ Send
           \/ Close
  <2>1. UNCHANGED flowVars /\ pc' \in AgentPlaces \cup {pc, "flow"}
    BY <1>3 DEF Open, PreCheck, HookDone, FinalCapture, HookDoneAgain, Over, Send, Close,
                Yield, AgentPlaces
  <2> QED
    BY <2>1 DEF FrameTypes, flowVars, InStep, CapPlaces, AgentPlaces
<1>4. CASE CapRefresh \/ UNCHANGED vars
  BY <1>4 DEF CapRefresh, vars, genVars, flowVars, FrameTypes
<1> QED
  BY <1>1, <1>2, <1>3, <1>4, FrameFlow DEF Next, EngineNext

-----------------------------------------------------------------------------
\* What an element search finds keeps within the budget of vision calls.
LEMMA FindsInBudget ==
    ASSUME used \in 0..VisionCap, NEW s, NEW f \in Finds(s)
    PROVE  f[1] \in BOOLEAN /\ f[2] \in 0..VisionCap
<1>1. \A b \in BOOLEAN : <<b, used>>[1] \in BOOLEAN /\ <<b, used>>[2] \in 0..VisionCap
  OBVIOUS
<1>2. used < VisionCap => \A g \in BOOLEAN \X {used + 1} :
                             g[1] \in BOOLEAN /\ g[2] \in 0..VisionCap
  <2>1. used < VisionCap => used + 1 \in 0..VisionCap
    BY FlowAssumption
  <2>2. \A g \in BOOLEAN \X {used + 1} : g[1] \in BOOLEAN /\ g[2] = used + 1
    OBVIOUS
  <2> QED
    BY <2>1, <2>2
<1>3. \/ f = <<TRUE, used>> \/ f = <<FALSE, used>>
      \/ used < VisionCap /\ f \in BOOLEAN \X {used + 1}
  <2>1. VisionAnswer(s) \subseteq BOOLEAN
    BY DEF VisionAnswer
  <2>2. VisionAnswer(s) \X {used + 1} \subseteq BOOLEAN \X {used + 1}
    BY <2>1
  <2> QED
    BY <2>2 DEF Finds, VisionCall
<1> QED
  BY <1>1, <1>2, <1>3

\* The snapshot and the results over an action.
LEMMA PageAct ==
    ASSUME PageTypes, Act
    PROVE  /\ snap' \in Page \cup {NoPage} /\ age' \in {"fresh", "kept", "stale"}
           /\ acted' \in {"none", "fresh", "kept", "stale"}
           /\ used' \in 0..VisionCap /\ result' \in {"ok", "fail", "ask"}
<1> USE DEF PageTypes, Renews, Outdates
<1>1. Cached \subseteq Page \cup {NoPage} /\ Looks = Page \cup {NoPage}
  BY DEF Cached, Looks
<1>2. CASE Click
  <2>0. PICK s \in Cached : \E f \in Finds(s) :
           /\ used' = f[2]
           /\ IF f[1] THEN /\ acted' = age
                           /\ \/ result' = "ok" /\ snap' = NoPage /\ age' = "fresh"
                              \/ result' = "fail" /\ Outdates(s)
                      ELSE result' = "fail" /\ snap' = s /\ age' = age /\ acted' = acted
    BY <1>2 DEF Click, NotFound
  <2>1. PICK f \in Finds(s) :
           /\ used' = f[2]
           /\ IF f[1] THEN /\ acted' = age
                           /\ \/ result' = "ok" /\ snap' = NoPage /\ age' = "fresh"
                              \/ result' = "fail" /\ Outdates(s)
                      ELSE result' = "fail" /\ snap' = s /\ age' = age /\ acted' = acted
    BY <2>0
  <2> QED
    BY <1>1, <2>1, FindsInBudget
<1>3. CASE Fill
  <2>0. PICK s \in Cached : \E f \in Finds(s) :
           /\ used' = f[2]
           /\ IF f[1] THEN acted' = age /\ result' \in {"ok", "fail"} /\ Outdates(s)
                      ELSE result' = "fail" /\ snap' = s /\ age' = age /\ acted' = acted
    BY <1>3 DEF Fill, NotFound
  <2>1. PICK f \in Finds(s) :
           /\ used' = f[2]
           /\ IF f[1] THEN acted' = age /\ result' \in {"ok", "fail"} /\ Outdates(s)
                      ELSE result' = "fail" /\ snap' = s /\ age' = age /\ acted' = acted
    BY <2>0
  <2> QED
    BY <1>1, <2>1, FindsInBudget
<1>4. CASE WaitFor
  <2>1. PICK s \in Looks :
           /\ snap' = s /\ age' = "fresh" /\ acted' = acted /\ result' \in {"ok", "fail"}
           /\ used' = used \/ \E f \in Finds(s) : used' = f[2]
    BY <1>4 DEF WaitFor
  <2> QED
    BY <1>1, <2>1, FindsInBudget
<1>5. CASE IfVisible
  <2>0. PICK s \in Looks : \E f \in Finds(s) :
           snap' = s /\ age' = "fresh" /\ used' = f[2] /\ acted' = acted /\ result' = "ok"
    BY <1>5 DEF IfVisible
  <2>1. PICK f \in Finds(s) :
           snap' = s /\ age' = "fresh" /\ used' = f[2] /\ acted' = acted /\ result' = "ok"
    BY <2>0
  <2> QED
    BY <1>1, <2>1, FindsInBudget
<1>6. CASE Sleep \/ ExtractData \/ FetchToCdn \/ AskUser
  BY <1>6 DEF Sleep, ExtractData, FetchToCdn, AskUser
<1>7. CASE \/ Goto \/ HttpLogin \/ EvalJs \/ OpenLink \/ Scroll
           \/ UploadHtmlSource \/ UploadDownload
  BY <1>7 DEF Goto, HttpLogin, EvalJs, OpenLink, Scroll, UploadHtmlSource, UploadDownload,
              Goes, Script
<1> QED
  BY <1>2, <1>3, <1>4, <1>5, <1>6, <1>7 DEF Act

\* ... over the flow's steps ...
LEMMA PageFlow == PageTypes /\ FlowNext => PageTypes'
<1> SUFFICES ASSUME PageTypes, FlowNext PROVE PageTypes'
  OBVIOUS
<1>1. CASE FlowTry
  <2>1. /\ Act /\ UNCHANGED <<answer, clear, typed>>
        /\ data' = IF result' = "ok" THEN DataAfter ELSE data
    BY <1>1 DEF FlowTry
  <2>2. data' \subseteq {"extracted", "link"}
    BY <2>1 DEF PageTypes, DataAfter
  <2> QED
    BY <2>1, <2>2, PageAct DEF PageTypes
<1>2. CASE FlowRetry \/ FlowShow
  BY <1>2 DEF FlowRetry, FlowShow, Capture, Renews, PageTypes
<1>3. CASE FlowGoOn
  <2>1. answer' \in Code \cup {NoCode} /\ typed' \in BOOLEAN
    BY <1>3 DEF FlowGoOn, PageTypes
  <2> QED
    BY <1>3, <2>1 DEF FlowGoOn, PageTypes
<1>4. CASE FlowFailureRules \/ FlowSuccessRule
  <2>1. snap' \in Page \cup {NoPage} /\ age' \in {age, "fresh"} /\ clear' \in {clear, TRUE}
    BY <1>4 DEF FlowFailureRules, FlowSuccessRule, RulesLook, Renews, Looks, PageTypes
  <2>2. UNCHANGED <<acted, used, result, answer, typed, data>>
    BY <1>4 DEF FlowFailureRules, FlowSuccessRule
  <2> QED
    BY <2>1, <2>2 DEF PageTypes
<1>5. CASE FlowBegin \/ FlowNextStep \/ FlowEndBranch
  BY <1>5 DEF FlowBegin, FlowNextStep, FlowEndBranch, PageTypes
<1>6. CASE FlowOutOfSteps \/ FlowUnknownAction \/ FlowFailed \/ FlowUnwind
  BY <1>6 DEF FlowOutOfSteps, FlowUnknownAction, FlowFailed, FlowUnwind, flowVars, PageTypes
<1> QED
  BY <1>1, <1>2, <1>3, <1>4, <1>5, <1>6 DEF FlowNext

\* ... over solve_captcha's ...
LEMMA PageCaptcha == PageTypes /\ CapNext => PageTypes'
<1> SUFFICES ASSUME PageTypes, CapNext PROVE PageTypes'
  OBVIOUS
<1> USE DEF PageTypes, Within, Returns, GoesTo, Renews, Outdates
<1>1. CASE CapStart
  BY <1>1 DEF CapStart
<1>2. CASE CapLook \/ CapOcr \/ CapCheck
  BY <1>2 DEF CapLook, CapOcr, CapCheck
<1>3. CASE CapFill
  <2>1. PICK s \in Cached :
           /\ acted' \in {acted, age}
           /\ \/ result' = "fail" /\ (IF manual THEN Renews(NoPage) ELSE Outdates(s))
              \/ result' = result /\ Renews(NoPage)
    BY <1>3 DEF CapFill
  <2>2. s \in Page \cup {NoPage}
    BY DEF Cached, Looks
  <2>3. UNCHANGED <<used, clear, data, answer>> /\ typed' \in BOOLEAN
    BY <1>3 DEF CapFill
  <2> QED
    BY <2>1, <2>2, <2>3
<1>4. CASE CapVerify
  BY <1>4 DEF CapVerify
<1>5. CASE CapReroll
  BY <1>5 DEF CapReroll, Looks
<1> QED
  BY <1>1, <1>2, <1>3, <1>4, <1>5 DEF CapNext

\* ... and over every step.
LEMMA PageStep == PageTypes /\ [Next]_vars => PageTypes'
<1> SUFFICES ASSUME PageTypes, [Next]_vars PROVE PageTypes'
  OBVIOUS
<1>1. CASE UNCHANGED flowVars
  BY <1>1 DEF flowVars, PageTypes
<1>2. [Next]_vars => FlowNext \/ CapNext \/ UNCHANGED flowVars
  BY DEF Next, EngineNext, Open, PreCheck, HookDone, FinalCapture, HookDoneAgain, Over, Send,
         Close, CapRefresh, vars
<1> QED
  BY <1>1, <1>2, PageFlow, PageCaptcha

-----------------------------------------------------------------------------
\* The attempts and their images over solve_captcha's steps.
LEMMA CapCaptcha == FrameTypes /\ PageTypes /\ CapTypes /\ CapNext => CapTypes'
<1> SUFFICES ASSUME FrameTypes, PageTypes, CapTypes, CapNext PROVE CapTypes'
  OBVIOUS
<1> USE DEF CapTypes, CapPlaces, Running, SrcPath
<1>1. Step.max \in 1..MaxAttempts
  <2>1. pc \in InStep
    BY DEF CapNext, CapStart, CapLook, CapOcr, CapCheck, CapFill, CapVerify, CapReroll, InStep
  <2> QED
    BY <2>1, StepIsOne
<1>2. \A i \in Image \cup {NoImage}, a \in 0..MaxAttempts :
         [files EXCEPT ![a] = i] \in [0..MaxAttempts -> Image \cup {NoImage}]
  OBVIOUS
<1>3. \A i \in Image : Reads(i) \subseteq Code \cup {NoCode}
  BY DEF Reads, Code
<1>4. CASE CapStart
  <2>1. att' = 1 /\ 1 \in 1..MaxAttempts
    BY <1>1, <1>4, ScenarioAssumption DEF CapStart
  <2>2. pc' # "cap_ocr" /\ code' \in {code, answer} /\ manual' \in {manual, TRUE, FALSE}
        /\ looked' = NoImage /\ UNCHANGED <<shown, files, src>>
    BY <1>4 DEF CapStart, Returns, GoesTo
  <2>3. answer \in Code \cup {NoCode}
    BY DEF PageTypes
  <2> QED
    BY <2>1, <2>2, <2>3
<1>5. CASE CapLook
  <2>1. att \in 1..MaxAttempts /\ files' = [files EXCEPT ![att] = shown]
    BY <1>5 DEF CapLook
  <2>2. files'[att] \in Image
    BY <2>1
  <2> QED
    BY <1>2, <1>5, <2>1, <2>2 DEF CapLook
<1>6. CASE CapOcr
  <2>1. code' \in Code \cup {NoCode}
    BY <1>3, <1>6 DEF CapOcr
  <2> QED
    BY <1>6, <2>1 DEF CapOcr, GoesTo
<1>7. CASE CapCheck
  <2>1. att \in 1..MaxAttempts /\ pc' = "cap_fill" /\ UNCHANGED <<shown, src, manual, att>>
    BY <1>7 DEF CapCheck, GoesTo
  <2>2. CASE UNCHANGED <<files, looked, code>>
    BY <2>1, <2>2
  <2>3. CASE ~UNCHANGED <<files, looked, code>>
    <3>1. /\ files' = [files EXCEPT ![att] = shown] /\ looked' = shown
          /\ code' = code \/ \E c \in Reads(files'[att]) : code' = IF c = NoCode THEN code ELSE c
      BY <1>7, <2>3 DEF CapCheck
    <3>2. files'[att] = shown
      BY <2>1, <3>1
    <3>3. code' \in Code \cup {NoCode}
      BY <1>3, <3>1, <3>2
    <3> QED
      BY <1>2, <2>1, <3>1, <3>3
  <2> QED
    BY <2>2, <2>3
<1>8. CASE CapFill
  <2>1. shown' \in Image
    BY <1>8 DEF CapFill
  <2> QED
    BY <1>8, <2>1 DEF CapFill, Returns, GoesTo
<1>9. CASE CapVerify
  BY <1>9 DEF CapVerify, Returns, GoesTo, capVars
<1>10. CASE CapReroll
  <2>1. att \in 1..MaxAttempts /\ 0 \in 0..MaxAttempts
    BY <1>10, ScenarioAssumption DEF CapReroll
  <2>2. att' \in 1..MaxAttempts /\ shown' \in Image /\ pc' # "cap_ocr"
        /\ UNCHANGED <<src, code, manual, looked>>
    <3>1. shown' \in Image /\ pc' # "cap_ocr" /\ UNCHANGED <<src, code, manual, looked>>
      BY <1>10 DEF CapReroll, Returns, GoesTo
    <3>2. att' = att \/ (att < Step.max /\ att' = att + 1)
      BY <1>10 DEF CapReroll
    <3>3. att' \in 1..MaxAttempts
      BY <1>1, <2>1, <3>2, ScenarioAssumption
    <3> QED
      BY <3>1, <3>3
  <2>3. files' \in [0..MaxAttempts -> Image \cup {NoImage}]
    BY <1>2, <1>10, <2>1 DEF CapReroll
  <2> QED
    BY <2>1, <2>2, <2>3
<1> QED
  BY <1>4, <1>5, <1>6, <1>7, <1>8, <1>9, <1>10 DEF CapNext

\* ... and over every step.
LEMMA CapStep == FrameTypes /\ PageTypes /\ CapTypes /\ [Next]_vars => CapTypes'
<1> SUFFICES ASSUME FrameTypes, PageTypes, CapTypes, [Next]_vars PROVE CapTypes'
  OBVIOUS
<1>1. CASE FlowNext /\ UNCHANGED capVars
  <2>1. pc' \notin CapPlaces
    BY <1>1 DEF FlowNext, FlowBegin, FlowNextStep, FlowEndBranch, FlowOutOfSteps,
                FlowUnknownAction, FlowTry, FlowRetry, FlowShow, FlowFailed, FlowGoOn,
                FlowFailureRules, FlowSuccessRule, FlowUnwind, Running, Yield, CapPlaces
  <2> QED
    BY <1>1, <2>1 DEF CapTypes, capVars, CapPlaces
<1>2. CASE UNCHANGED capVars /\ pc' \in AgentPlaces \cup {pc, "flow", "open"}
  BY <1>2 DEF CapTypes, capVars, CapPlaces, AgentPlaces
<1>3. CASE CapRefresh
  BY <1>3 DEF CapRefresh, genVars, CapTypes
<1>4. AgentNext => pc' \in AgentPlaces \cup {pc}
  BY DEF AgentNext, AgentBegin, AgentOutOfSteps, AgentSnapshot, AgentDecide, AgentVision,
         AgentAct, AgentGoOn, Accept, Reject, Yield, AgentPlaces
<1>5. Open \/ PreCheck \/ HookDone \/ FinalCapture \/ HookDoneAgain \/ Over \/ Send \/ Close
         => UNCHANGED capVars /\ pc' \in AgentPlaces \cup {pc, "flow", "open"}
  BY DEF Open, PreCheck, HookDone, FinalCapture, HookDoneAgain, Over, Send, Close, Yield,
         AgentPlaces
<1>6. UNCHANGED vars => pc' = pc
  BY DEF vars, genVars
<1>7. UNCHANGED vars => UNCHANGED capVars
  BY DEF vars
<1> QED
  BY <1>1, <1>2, <1>3, <1>4, <1>5, <1>6, <1>7, CapCaptcha DEF Next, EngineNext

-----------------------------------------------------------------------------
\* The agent's decision over every step.
LEMMA AgentStep == AgentTypes /\ [Next]_vars => AgentTypes'
<1> SUFFICES ASSUME AgentTypes, [Next]_vars PROVE AgentTypes'
  OBVIOUS
<1> USE DEF AgentTypes
<1>1. Ask \in Decision /\ Done \in Decision
  BY DEF Ask, Done, Decision
<1>2. CASE AgentSnapshot
  BY <1>2 DEF AgentSnapshot
<1>3. CASE AgentDecide
  <2>1. cand' \in Decision
    BY <1>1, <1>3 DEF AgentDecide, Accept, Reject
  <2> QED
    BY <1>3, <2>1 DEF AgentDecide
<1>4. CASE AgentVision
  <2>1. cand' \in Decision /\ seen' \subseteq Ref
    BY <1>1, <1>4 DEF AgentVision, Accept
  <2> QED
    BY <1>4, <2>1 DEF AgentVision
<1>5. CASE AgentAct
  <2>1. PICK d \in {Ask, cand} :
           /\ cand' = d /\ hist' = IF Len(hist) < 2 THEN Append(hist, d) ELSE <<hist[2], d>>
           /\ stop' \in BOOLEAN
    BY <1>5 DEF AgentAct
  <2>2. d \in Decision
    BY <1>1
  <2>3. hist' \in Seq(Decision) /\ Len(hist') <= 2
    <3>1. CASE Len(hist) < 2
      BY <2>1, <2>2, <3>1
    <3>2. CASE ~(Len(hist) < 2)
      <4>1. hist[2] \in Decision
        BY <3>2
      <4> QED
        BY <2>1, <2>2, <3>2, <4>1
    <3> QED
      BY <3>1, <3>2
  <2> QED
    BY <1>5, <2>1, <2>2, <2>3 DEF AgentAct
<1>6. CASE UNCHANGED agentVars
  BY <1>6 DEF agentVars
<1>7. [Next]_vars => \/ AgentSnapshot \/ AgentDecide \/ AgentVision \/ AgentAct
                     \/ UNCHANGED agentVars
  BY DEF Next, EngineNext, AgentNext, AgentBegin, AgentOutOfSteps, AgentGoOn, Open, PreCheck,
         HookDone, FinalCapture, HookDoneAgain, Over, Send, Close, vars
<1> QED
  BY <1>2, <1>3, <1>4, <1>5, <1>6, <1>7

-----------------------------------------------------------------------------
\* All of it.
LEMMA RangeStep == RangeInv /\ [Next]_vars => RangeInv'
  BY GenStep, FrameStep, PageStep, CapStep, AgentStep DEF RangeInv

\* Whatever the site, the LLM and the user do, every step that is worked on is a
\* step of the scenario, an attempt's image is there when it is read, the vision
\* calls stay within VISION_CALLS_PER_SESSION and the attempts within
\* max_attempts.
THEOREM RunStaysInRange == Spec => []TypeOK
<1>1. RangeInv => TypeOK
  BY RangeGivesTypes
<1>2. Init => RangeInv
  BY RangeInit
<1>3. RangeInv /\ [Next]_vars => RangeInv'
  BY RangeStep
<1> QED
  BY <1>1, <1>2, <1>3, PTL DEF Spec
-----------------------------------------------------------------------------
(* Failures: a flow goes on to another step or to its rules only with an     *)
(* action that did not fail, so what it says at its end is so.               *)

\* What a flow has said once it unwinds.
Told ==
    /\ last.kind = "done"
    /\ last.err \/ (result # "fail" /\ (clear \/ scn.steps = <<>>))

\* Where the steps that are left are not all of them, a step was worked on.
FailureInv ==
    /\ pc \in {"open", "flow", "next", "rules", "success"} => result # "fail"
    /\ pc = "success" => clear
    /\ pc = "next" => clear \/ frames = <<scn.steps>> \/ Len(frames) > 1
    /\ pc = "unwind" => Told
    /\ gen = "returned" /\ scn.mode = "flow" => pc = "unwind"
    /\ scn.mode = "flow" => pc \notin AgentPlaces

\* The steps of a flow: a failed action is followed by a retry or by its record, and
\* a step gives way to the next one only past the failure rules.
LEMMA FailureFlow == FailureInv /\ FrameTypes /\ FlowNext => FailureInv'
<1> SUFFICES ASSUME FailureInv, FrameTypes, FlowNext PROVE FailureInv'
  OBVIOUS
<1> USE DEF FailureInv, Running, AgentPlaces
<1>1. CASE FlowBegin
  BY <1>1 DEF FlowBegin
<1>2. CASE FlowNextStep
  BY <1>2 DEF FlowNextStep
<1>3. CASE FlowEndBranch
  BY <1>3 DEF FlowEndBranch
<1>4. CASE FlowOutOfSteps
  <2>1. clear \/ scn.steps = <<>>
    <3>1. frames = <<<<>>>> /\ Len(frames) = 1
      BY <1>4 DEF FlowOutOfSteps
    <3>2. frames = <<scn.steps>> => scn.steps = <<>>
      BY <3>1
    <3> QED
      BY <1>4, <3>1, <3>2 DEF FlowOutOfSteps
  <2> QED
    BY <1>4, <2>1 DEF FlowOutOfSteps, flowVars, Yield, Told
<1>5. CASE FlowUnknownAction
  BY <1>5 DEF FlowUnknownAction, flowVars
<1>6. CASE FlowTry
  BY <1>6 DEF FlowTry
<1>7. CASE FlowRetry
  BY <1>7 DEF FlowRetry
<1>8. CASE FlowShow
  BY <1>8 DEF FlowShow, Yield
<1>9. CASE FlowFailed
  BY <1>9 DEF FlowFailed, flowVars, Yield, Told
<1>10. CASE FlowGoOn
  <2>1. CASE pending # <<>>
    <3>1. frames \in Seq(Seq(Steps)) /\ Len(frames) > 0 /\ pending \in Seq(Steps)
      BY <1>10 DEF FlowGoOn, FrameTypes, InStep
    <3>2. Len(frames') > 1
      BY <1>10, <2>1, <3>1, FrameEntered DEF FlowGoOn
    <3> QED
      BY <1>10, <2>1, <3>2 DEF FlowGoOn
  <2>2. CASE pending = <<>>
    BY <1>10, <2>2 DEF FlowGoOn
  <2> QED
    BY <2>1, <2>2
<1>11. CASE FlowFailureRules
  BY <1>11 DEF FlowFailureRules, Yield, Told
<1>12. CASE FlowSuccessRule
  BY <1>12 DEF FlowSuccessRule, Yield, Told
<1>13. CASE FlowUnwind
  BY <1>13 DEF FlowUnwind, flowVars, Told
<1> QED
  BY <1>1, <1>2, <1>3, <1>4, <1>5, <1>6, <1>7, <1>8, <1>9, <1>10, <1>11, <1>12, <1>13
     DEF FlowNext

\* A captcha's outcome is judged like any other.
LEMMA FailureCaptcha == FailureInv /\ CapNext => FailureInv'
  BY DEF CapNext, CapStart, CapLook, CapOcr, CapCheck, CapFill, CapVerify, CapReroll,
         Within, genKept, Returns, GoesTo, Running, FailureInv, AgentPlaces

\* The agent does not come to where a flow is.
LEMMA FailureAgent == FailureInv /\ AgentNext => FailureInv'
  BY DEF AgentNext, AgentBegin, AgentOutOfSteps, AgentSnapshot, AgentDecide,
         AgentVision, AgentAct, AgentGoOn, Accept, Reject, Yield, Running, FailureInv,
         AgentPlaces

\* FailureInv holds along every run.
LEMMA FailureStep == FailureInv /\ FrameTypes /\ [Next]_vars => FailureInv'
<1> SUFFICES ASSUME FailureInv, FrameTypes, [Next]_vars PROVE FailureInv'
  OBVIOUS
<1>1. CASE FlowNext \/ CapNext \/ AgentNext
  BY <1>1, FailureFlow, FailureCaptcha, FailureAgent
<1>2. CASE Open \/ PreCheck \/ HookDone \/ FinalCapture \/ HookDoneAgain \/ Over
  BY <1>2 DEF Open, PreCheck, HookDone, FinalCapture, HookDoneAgain, Over, Running, Yield,
              flowVars, FailureInv, AgentPlaces
<1>3. CASE Send \/ Close
  BY <1>3 DEF Send, Close, flowVars, FailureInv, AgentPlaces, Told
<1>4. CASE CapRefresh \/ UNCHANGED vars
  BY <1>4 DEF CapRefresh, vars, genVars, flowVars, FailureInv, Told
<1> QED
  BY <1>1, <1>2, <1>3, <1>4 DEF Next, EngineNext

\* A flow that returns after a failed action has ended with a record in error, and
\* one that ends in success has looked at the failure rules after its last action and
\* met none.
THEOREM FailuresTold == Spec => []FailureIsTold
<1>1. Init => FailureInv
  BY DEF Init, FlowInit, FailureInv, AgentPlaces
<1>2. FailureInv => FailureIsTold
  BY DEF FailureInv, FailureIsTold, Told
<1>3. RangeInv => FrameTypes
  BY DEF RangeInv
<1> QED
  BY <1>1, <1>2, <1>3, RangeInit, RangeStep, FailureStep, PTL DEF Spec

-----------------------------------------------------------------------------
(* solve_captcha and the user's code.                                        *)

\* A code that waits is not submitted yet, no step for its field reads another, and
\* the code of a step that reads one is not the user's.
TypedInv ==
    /\ pc \in CapPlaces \ {"cap_fill", "cap_verify"} => ~manual
    /\ answer # NoCode => typed
    /\ pc = "cap_fill" /\ manual => typed /\ answer = NoCode
    /\ pc \in CapPlaces /\ ~manual => ~Step.field \/ answer = NoCode

\* A step that takes the code does so before it submits it, the others leave it.
LEMMA TypedCaptcha == TypedInv /\ CapNext => TypedInv'
<1> SUFFICES ASSUME TypedInv, CapNext PROVE TypedInv'
  OBVIOUS
<1>1. Step' = Step
  BY DEF CapNext, CapStart, CapLook, CapOcr, CapCheck, CapFill, CapVerify, CapReroll, Within, Step
<1> USE <1>1 DEF TypedInv, CapPlaces, Running, Within, Returns, GoesTo
<1>2. CASE CapStart
  BY <1>2 DEF CapStart
<1>3. CASE CapLook \/ CapOcr \/ CapCheck
  BY <1>3 DEF CapLook, CapOcr, CapCheck
<1>4. CASE CapFill
  <2>1. pc' \in {"judge", "cap_verify"} /\ typed' = (typed /\ ~manual)
    BY <1>4 DEF CapFill
  <2>2. pc = "cap_fill" /\ answer' = answer /\ manual' = manual
    BY <1>4 DEF CapFill
  <2> QED
    BY <2>1, <2>2
<1>5. CASE CapVerify
  BY <1>5 DEF CapVerify, capVars
<1>6. CASE CapReroll
  BY <1>6 DEF CapReroll
<1> QED
  BY <1>2, <1>3, <1>4, <1>5, <1>6 DEF CapNext

\* TypedInv holds along every run.
LEMMA TypedStep == TypedInv /\ [Next]_vars => TypedInv'
<1> SUFFICES ASSUME TypedInv, [Next]_vars PROVE TypedInv'
  OBVIOUS
<1>1. CASE FlowNext /\ UNCHANGED capVars
  <2>1. pc' \notin CapPlaces
    BY <1>1 DEF FlowNext, FlowBegin, FlowNextStep, FlowEndBranch, FlowOutOfSteps,
                FlowUnknownAction, FlowTry, FlowRetry, FlowShow, FlowFailed, FlowGoOn,
                FlowFailureRules, FlowSuccessRule, FlowUnwind, Running, Yield, CapPlaces
  <2>2. UNCHANGED <<answer, typed>> \/ typed' = (answer' # NoCode)
    BY <1>1 DEF FlowNext, FlowBegin, FlowNextStep, FlowEndBranch, FlowOutOfSteps,
                FlowUnknownAction, FlowTry, FlowRetry, FlowShow, FlowFailed, FlowGoOn,
                FlowFailureRules, FlowSuccessRule, FlowUnwind, flowVars
  <2> QED
    BY <2>1, <2>2 DEF TypedInv, CapPlaces
<1>2. CASE UNCHANGED <<flowVars, capVars>> /\ (pc' = pc \/ pc' \notin CapPlaces)
  BY <1>2 DEF TypedInv, flowVars, capVars, Step, CapPlaces
<1>3. CASE CapRefresh
  BY <1>3 DEF CapRefresh, genVars, flowVars, TypedInv, Step
<1>4. AgentNext => pc' = pc \/ pc' \notin CapPlaces
  BY DEF AgentNext, AgentBegin, AgentOutOfSteps, AgentSnapshot, AgentDecide, AgentVision,
         AgentAct, AgentGoOn, Accept, Reject, Yield, CapPlaces
<1>5. Open \/ PreCheck \/ HookDone \/ FinalCapture \/ HookDoneAgain \/ Over \/ Send \/ Close
         => UNCHANGED <<flowVars, capVars>> /\ (pc' = pc \/ pc' \notin CapPlaces)
  BY DEF Open, PreCheck, HookDone, FinalCapture, HookDoneAgain, Over, Send, Close, Yield,
         CapPlaces
<1>6. UNCHANGED vars => UNCHANGED <<flowVars, capVars>> /\ pc' = pc
  BY DEF vars, genVars
<1> QED
  BY <1>1, <1>2, <1>3, <1>4, <1>5, <1>6, TypedCaptcha DEF Next, EngineNext

\* What the user typed is submitted by the next captcha step for its field, once.
THEOREM TypedSubmittedOnce == Spec => []TypedCodeOnce
<1>1. Init => TypedInv
  BY DEF Init, FlowInit, TypedInv, CapPlaces
<1>2. TypedInv => TypedCodeOnce
  BY DEF TypedInv, TypedCodeOnce, CapPlaces
<1> QED
  BY <1>1, <1>2, TypedStep, PTL DEF Spec
=============================================================================
