------------------------------ MODULE FlowRun ------------------------------
(***************************************************************************)
(* run_flow: the declarative steps of a scenario, with retries, branches   *)
(* (if_visible), questions, and the failure and success rules, over the    *)
(* cached snapshot that the actions look their elements up in.             *)
(*                                                                         *)
(* A page is a number.  The site may show another page at any time, so     *)
(* each look at it finds any page, and any look may fail.  A step has the  *)
(* pages on which its target matches one element or several, and whether   *)
(* it has an image hint for the vision matcher.                            *)
(***************************************************************************)
EXTENDS Generator

CONSTANTS
    Page,        \* the pages a site may show
    Image,       \* the captcha images of a site
    VisionCap    \* VISION_CALLS_PER_SESSION

NoPage == 0
NoImage == 0

ASSUME FlowAssumption ==
    /\ Page \subseteq Nat \ {NoPage}
    /\ Image \subseteq Nat \ {NoImage}
    /\ VisionCap \in Nat

\* A captcha code, read or typed: the image it is of.
Code == Image
NoCode == NoImage

VARIABLES
    frames,    \* what is left of the steps: innermost branch first
    snap,      \* page of rt.last_snapshot, NoPage: none
    age,       \* of snap: "fresh"; "stale", from before the flow's last action on
               \* the page; "kept", stale where the capture to renew it failed
    acted,     \* age of the snapshot whose element this attempt acted on, or "none"
    used,      \* vision_calls_used
    result,    \* of the last action: "ok", "fail" or "ask"
    clear,     \* no failure rule was met when looked at after the last step began
    pending,   \* rt._pending_nested, <<>> also when there is none
    answer,    \* rt.context's code for a later solve_captcha
    typed,     \* the user's last answer is a code that was not submitted yet
    data       \* output_holder["data"]: of extract_data, links of files

flowVars == <<frames, snap, age, acted, used, result, clear, pending, answer, typed,
              data>>

Step == Head(frames[1])

FindsUncapped(s) ==   \* mutant: the budget of vision calls is not looked at
    {<<s \in Step.one, used>>, <<TRUE, used + (IF Step.hint THEN 1 ELSE 0)>>}

\* find_refs: how many elements of snapshot s match the target, 2 for several.
Candidates(s) == IF s \in Step.one THEN 1 ELSE IF s \in Step.many THEN 2 ELSE 0

\* find_ref_by_image: a reference that is in the text of snapshot s, or none.
VisionAnswer(s) == IF s = NoPage THEN {FALSE} ELSE BOOLEAN

\* A vision call is counted once it was made; none is made past the cap.
VisionCall(s) ==
    {<<FALSE, used>>} \cup
    IF used < VisionCap THEN VisionAnswer(s) \X {used + 1} ELSE {}

\* What find_ref_with_vision may find, and the vision calls it then has used.
Finds(s) ==
    IF Candidates(s) = 1 \/ (Candidates(s) > 1 /\ ~Step.hint)
    THEN {<<TRUE, used>>}
    ELSE IF Step.hint THEN VisionCall(s) ELSE {<<FALSE, used>>}

\* take_snapshot: the page of that moment, or an error.
Looks == Page \cup {NoPage}

\* _ensure_snapshot: the cached snapshot, or a new one.
Cached == IF snap = NoPage THEN Looks ELSE {snap}

Renews(s) == snap' = s /\ age' = "fresh"

\* An action on the page that leaves the snapshot s in the cache.
Outdates(s) == snap' = s /\ age' = IF s = NoPage THEN "fresh" ELSE "stale"

-----------------------------------------------------------------------------
FlowInit ==
    /\ frames = <<>>
    /\ snap = NoPage
    /\ age = "fresh"
    /\ acted = "none"
    /\ used = 0
    /\ result = "ok"
    /\ clear = FALSE
    /\ pending = <<>>
    /\ answer = NoCode
    /\ typed = FALSE
    /\ data = {}

\* The runtime and the traces.
FlowBegin ==
    /\ Running("flow")
    /\ trace' = "on"
    /\ frames' = <<scn.steps>>
    /\ pc' = "next"
    /\ UNCHANGED <<scn, gen, n, last, tries, proxy, domains, snap, age, acted, used,
                   result, clear, pending, answer, typed, data>>

FlowNextStep ==
    /\ Running("next")
    /\ frames[1] # <<>>
    /\ n' = n + 1
    /\ clear' = FALSE
    /\ pc' = "try"
    /\ UNCHANGED <<scn, gen, last, tries, proxy, domains, trace, frames, snap, age,
                   acted, used, result, pending, answer, typed, data>>

\* A branch is done: the rules are checked for the if_visible step.
FlowEndBranch ==
    /\ Running("next")
    /\ frames[1] = <<>>
    /\ Len(frames) > 1
    /\ frames' = Tail(frames)
    /\ pc' = "rules"
    /\ UNCHANGED <<scn, gen, n, last, tries, proxy, domains, trace, snap, age,
                   acted, used, result, clear, pending, answer, typed, data>>

FlowOutOfSteps ==
    /\ Running("next")
    /\ frames = <<<<>>>>
    /\ n' = n + 1
    /\ Yield("done", n + 1, FALSE, "unwind")
    /\ UNCHANGED <<scn, tries, proxy, domains, trace, flowVars>>

-----------------------------------------------------------------------------
(* The actions.  Each leaves its result and the cached snapshot; a command  *)
(* that fails may have changed the page all the same.                      *)

\* Not found: nothing was done on the page, and snapshot s stays in the cache.
NotFound(s) == result' = "fail" /\ snap' = s /\ UNCHANGED <<age, acted>>

Click ==
    /\ Step.do = "click"
    /\ UNCHANGED pending
    /\ \E s \in Cached : \E f \in Finds(s) :
          /\ used' = f[2]
          /\ IF f[1] THEN /\ acted' = age
                          /\ \/ result' = "ok" /\ Renews(NoPage)
                             \/ result' = "fail" /\ Outdates(s)
                     ELSE NotFound(s)

Fill ==
    /\ Step.do = "fill"
    /\ UNCHANGED pending
    /\ \E s \in Cached : \E f \in Finds(s) :
          /\ used' = f[2]
          /\ IF f[1] THEN acted' = age /\ result' \in {"ok", "fail"} /\ Outdates(s)
                     ELSE NotFound(s)

\* wait_for polls with snapshots of its own and asks vision once, of the last one.
WaitFor ==
    /\ Step.do = "wait"
    /\ UNCHANGED <<pending, acted>>
    /\ \E s \in Looks :
          /\ Renews(s)
          /\ \/ s \in Step.one \cup Step.many /\ result' = "ok" /\ UNCHANGED used
             \/ /\ s \notin Step.one \cup Step.many
                /\ \E f \in Finds(s) :
                      used' = f[2] /\ result' = IF f[1] THEN "ok" ELSE "fail"

\* wait_for without a target only sleeps.
Sleep ==
    /\ Step.do = "sleep"
    /\ result' = "ok"
    /\ UNCHANGED <<pending, snap, age, acted, used>>

\* Goes to another page, or stays; the cached snapshot is left as it is.
Goes ==
    /\ result' \in {"ok", "fail"}
    /\ Outdates(snap)
    /\ UNCHANGED <<pending, acted, used>>

Goto == Step.do = "goto" /\ Goes

\* A login over HTTP, its cookies, and the return_url.
HttpLogin == Step.do = "http_login" /\ Goes

\* They wait for the page, or for a file, and look nothing up in it.
UploadHtmlSource == Step.do = "upload_html_source" /\ Goes
UploadDownload == Step.do = "upload_download" /\ Goes

\* Changes the page by a script; the snapshot goes when it has worked.
Script ==
    /\ \/ result' = "ok" /\ Renews(NoPage)
       \/ result' = "fail" /\ Outdates(snap)
    /\ UNCHANGED <<pending, acted, used>>

EvalJs == Step.do = "eval_js" /\ Script
Scroll == Step.do = "scroll" /\ Script

\* It fails also where the page has gone and its URL is still the same.
OpenLink ==
    /\ Step.do = "open_link"
    /\ \/ Script
       \/ result' = "fail" /\ Renews(NoPage) /\ UNCHANGED <<pending, acted, used>>

\* The page's own XHR fetches a file, which is uploaded.
FetchToCdn ==
    /\ Step.do = "fetch_to_cdn"
    /\ result' \in {"ok", "fail"}
    /\ UNCHANGED <<pending, snap, age, acted, used>>

\* An LLM reads the cached snapshot.  Without one it asks the browser for snapshot(),
\* which browser_adapter does not have: every retry fails.
ExtractData ==
    /\ Step.do = "extract_data"
    /\ result' \in IF snap = NoPage THEN {"fail"} ELSE {"ok", "fail"}
    /\ UNCHANGED <<pending, snap, age, acted, used>>

\* A file adds its link; extract_data replaces what is there.
DataAfter ==
    CASE Step.do \in {"fetch_to_cdn", "upload_download"} -> data \cup {"link"}
      [] Step.do = "extract_data" -> {"extracted"}
      [] OTHER -> data

AskUser ==
    /\ Step.do = "ask"
    /\ result' = "ask"
    /\ UNCHANGED <<pending, snap, age, acted, used>>

IfVisible ==
    /\ Step.do = "if"
    /\ result' = "ok"
    /\ \E s \in Looks : \E f \in Finds(s) :
          /\ Renews(s)
          /\ used' = f[2]
          /\ pending' = IF f[1] THEN Step.then ELSE Step.else
    /\ UNCHANGED acted

Act ==
    \/ Click \/ Fill \/ WaitFor \/ Sleep \/ Goto \/ HttpLogin \/ EvalJs \/ OpenLink
    \/ Scroll \/ FetchToCdn \/ ExtractData \/ UploadHtmlSource \/ UploadDownload
    \/ AskUser \/ IfVisible

\* An action the registry has no function for: get_action is outside the try.
FlowUnknownAction ==
    /\ Running("try")
    /\ Step.do = "unknown"
    /\ gen' = "raised"
    /\ trace' = "kept"
    /\ Reset
    /\ UNCHANGED <<scn, pc, n, last, tries, flowVars>>

FlowTry ==
    /\ Running("try")
    /\ Act
    /\ data' = IF result' = "ok" THEN DataAfter ELSE data
    /\ tries' = tries + 1
    /\ pc' = "judge"
    /\ UNCHANGED <<scn, gen, n, last, proxy, domains, trace, frames, clear, answer,
                   typed>>

FlowRetryReset ==   \* mutant: a retry starts to count anew
    /\ Running("judge")
    /\ result = "fail"
    /\ tries <= Step.retry
    /\ Renews(NoPage)
    /\ tries' = 0
    /\ acted' = "none"
    /\ pc' = "try"
    /\ UNCHANGED <<scn, gen, n, last, proxy, domains, trace, frames, used, result,
                   clear, pending, answer, typed, data>>

\* A failed attempt invalidates the snapshot, the last one too.
FlowRetry ==
    /\ Running("judge")
    /\ result = "fail"
    /\ tries <= Step.retry
    /\ Renews(NoPage)
    /\ acted' = "none"
    /\ pc' = "try"
    /\ UNCHANGED <<scn, gen, n, last, tries, proxy, domains, trace, frames, used,
                   result, clear, pending, answer, typed, data>>

CaptureUncached ==   \* mutant: the capture does not renew the cached snapshot
    IF result = "fail" THEN Renews(NoPage) ELSE UNCHANGED <<snap, age>>

\* _capture_step_artifacts renews the cached snapshot, if it gets one.
Capture ==
    \/ \E s \in Page : Renews(s)
    \/ IF result = "fail" THEN Renews(NoPage)
       ELSE snap' = snap /\ age' = IF age = "stale" THEN "kept" ELSE age

FlowShow ==
    /\ Running("judge")
    /\ result = "fail" => tries > Step.retry
    /\ Capture
    /\ acted' = "none"
    /\ tries' = 0
    /\ Yield(IF result = "ask" THEN "ask" ELSE "step", n, result = "fail", "shown")
    /\ UNCHANGED <<scn, n, proxy, domains, trace, frames, used, result, clear,
                   pending, answer, typed, data>>

-----------------------------------------------------------------------------
(* After the record of a step. *)

FlowFailed ==
    /\ Running("shown")
    /\ result = "fail"
    /\ Yield("done", n, TRUE, "unwind")
    /\ UNCHANGED <<scn, n, tries, proxy, domains, trace, flowVars>>

FlowGoOn ==
    /\ Running("shown")
    /\ result # "fail"
    /\ IF pending # <<>>
       THEN frames' = <<pending>> \o frames /\ pc' = "next"
       ELSE UNCHANGED frames /\ pc' = "rules"
    /\ pending' = <<>>
    /\ IF result = "ask" /\ scn.captcha
       THEN answer' \in Code \cup {NoCode} /\ typed' = (answer' # NoCode)
       ELSE UNCHANGED <<answer, typed>>
    /\ UNCHANGED <<scn, gen, n, last, tries, proxy, domains, trace, snap, age,
                   acted, used, result, clear, data>>

\* A rule is what its conditions look at.  Each looks at the page of its own moment
\* and counts as not met on an error, so a rule may come out either way, but one
\* without conditions is never met.
CanHold(rule) == rule # {}

\* An element_visible condition takes a snapshot of its own and caches it.
RulesLook(rules) ==
    \/ UNCHANGED <<snap, age>>
    \/ "element" \in UNION rules /\ \E s \in Looks : Renews(s)

FlowRulesSwapped ==   \* mutant: success is looked at before failure
    /\ Running("rules")
    /\ \/ /\ CanHold(scn.success)
          /\ Yield("done", n + 1, FALSE, "unwind")
          /\ n' = n + 1
          /\ UNCHANGED clear
       \/ clear' = TRUE /\ pc' = "success" /\ UNCHANGED <<gen, n, last>>
    /\ RulesLook(Range(scn.failure))
    /\ UNCHANGED <<scn, tries, proxy, domains, trace, frames, acted, used, result,
                   pending, answer, typed, data>>

\* The failure rules come first: the first one met is told under its own code.
FlowFailureRules ==
    /\ Running("rules")
    /\ \/ /\ \E rule \in Range(scn.failure) : CanHold(rule)
          /\ Yield("done", n, TRUE, "unwind")
          /\ UNCHANGED clear
       \/ clear' = TRUE /\ pc' = "success" /\ UNCHANGED <<gen, last>>
    /\ RulesLook(Range(scn.failure))
    /\ UNCHANGED <<scn, n, tries, proxy, domains, trace, frames, acted, used, result,
                   pending, answer, typed, data>>

FlowSuccessRule ==
    /\ Running("success")
    /\ \/ /\ CanHold(scn.success)
          /\ n' = n + 1
          /\ Yield("done", n + 1, FALSE, "unwind")
          /\ UNCHANGED frames
       \/ /\ frames' = <<Tail(frames[1])>> \o Tail(frames)
          /\ pc' = "next"
          /\ UNCHANGED <<gen, n, last>>
    /\ RulesLook({scn.success})
    /\ UNCHANGED <<scn, tries, proxy, domains, trace, acted, used, result, clear,
                   pending, answer, typed, data>>

FlowUnwindOne ==   \* mutant: the enclosing step does not test yielded_terminal
    /\ Running("unwind")
    /\ IF Len(frames) > 1
       THEN /\ frames' = Tail(frames)
            /\ pc' = "rules"
            /\ UNCHANGED <<gen, trace, proxy, domains>>
       ELSE /\ gen' = "returned"
            /\ trace' = "kept"
            /\ Reset
            /\ UNCHANGED <<frames, pc>>
    /\ UNCHANGED <<scn, n, last, tries, snap, age, acted, used, result, clear, pending,
                   answer, typed, data>>

\* yielded_terminal: every level returns, and the artifacts are flushed.
FlowUnwind ==
    /\ Running("unwind")
    /\ gen' = "returned"
    /\ trace' = "kept"
    /\ Reset
    /\ UNCHANGED <<scn, pc, n, last, tries, flowVars>>

FlowNext ==
    \/ FlowBegin \/ FlowNextStep \/ FlowEndBranch \/ FlowOutOfSteps
    \/ FlowUnknownAction \/ FlowTry \/ FlowRetry \/ FlowShow \/ FlowFailed
    \/ FlowGoOn \/ FlowFailureRules \/ FlowSuccessRule \/ FlowUnwind
=============================================================================
