--------------------------- MODULE MCScenarioRun ---------------------------
(***************************************************************************)
(* Scenarios for TLC: a few flows on three pages, with a branch, a branch  *)
(* in a branch, retries, a hint, questions and rules; an agent with and    *)
(* without hooks; a captcha that falls back to the user; and the actions   *)
(* that look nothing up.                                                   *)
(***************************************************************************)
EXTENDS ScenarioRun

Pages == 1..3

On(do, one) == [do |-> do, one |-> one, many |-> {}, hint |-> FALSE, retry |-> 0,
                then |-> <<>>, else |-> <<>>, src |-> TRUE,
                field |-> FALSE, manual |-> FALSE, max |-> 2]

ClickAny  == On("click", Pages)
ClickHint == [On("click", {1}) EXCEPT !.many = {2}, !.hint = TRUE, !.retry = 1]
FillSome  == [On("fill", {1, 3}) EXCEPT !.retry = 1]
Wait2     == On("wait", {2})
Nap       == On("sleep", {})
WaitHint  == [On("wait", {}) EXCEPT !.hint = TRUE]
Go        == [On("goto", {}) EXCEPT !.retry = 1]
Js        == On("eval_js", {})
Login     == On("http_login", {})
Link      == On("open_link", {})
Down      == On("scroll", {})
Fetch     == On("fetch_to_cdn", {})
Extract   == [On("extract_data", {}) EXCEPT !.retry = 1]
Html      == On("upload_html_source", {})
Download  == On("upload_download", {})
Question  == On("ask", {})
Captcha1  == [On("captcha", {2}) EXCEPT !.field = TRUE]
Captcha3  == [Captcha1 EXCEPT !.retry = 1]
Captcha2  == [Captcha1 EXCEPT !.manual = TRUE, !.retry = 1]
CaptchaNo == [On("captcha", {1, 2}) EXCEPT !.src = FALSE, !.max = 1]
Unknown   == On("unknown", {})

If(then, else) == [On("if", {1, 2}) EXCEPT !.then = then, !.else = else]

Flow(steps, failure, success) ==
    [mode |-> "flow", steps |-> steps, failure |-> failure, success |-> success,
     captcha |-> \E i \in DOMAIN steps : steps[i].do = "captcha",
     hooks |-> FALSE, final |-> FALSE, proxy |-> TRUE, domains |-> TRUE]

Agent(hooks, final) ==
    [mode |-> "agent", steps |-> <<>>, failure |-> <<>>, success |-> {},
     captcha |-> FALSE, hooks |-> hooks, final |-> final, proxy |-> TRUE, domains |-> TRUE]

\* What the conditions of the failure rules and of the success rule look at.
Rules == { <<<<>>, {}>>, << <<{"url"}, {"text", "element"}>>, {"element"}>> }

Programs == {
    <<Question, FillSome, Go, Nap, ClickAny>>,
    <<Go, If(<<ClickAny, Question>>, <<>>), FillSome>>,
    <<If(<<If(<<Js>>, <<ClickHint>>)>>, <<FillSome, Question>>), Wait2>>,
    <<ClickHint, WaitHint, ClickHint>>,
    <<Js, If(<<Unknown>>, <<Wait2>>)>>,
    <<Login, Fetch, Extract, Html, FillSome>>,
    <<Link, Download, Down, Extract, Fetch>> }

CaptchaFlows == { Flow(p, <<>>, {}) : p \in
    {<<Captcha1, Captcha2>>, <<Question, Captcha3, Captcha3>>, <<CaptchaNo>>} }

AllScenarios ==
    CaptchaFlows \cup {Flow(p, r[1], r[2]) : p \in Programs, r \in Rules} \cup
        {Agent(FALSE, FALSE), Agent(TRUE, FALSE), Agent(TRUE, TRUE)}

\* The steps of S and those of their branches.
WithBranches(S) == S \cup UNION {Range(s.then) \cup Range(s.else) : s \in S}

\* A branch may hold a branch, and that one no other.
AllSteps == WithBranches(WithBranches(UNION {Range(s.steps) : s \in AllScenarios}))
=============================================================================
