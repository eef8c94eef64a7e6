------------------------------ MODULE Captcha ------------------------------
(***************************************************************************)
(* The action solve_captcha: the image is saved and read, looked at again, *)
(* the code filled in and submitted, and the page judged; a refused code   *)
(* is followed by a new image, and after the last attempt the user is      *)
(* asked.  A later solve_captcha step with the same field submits what the *)
(* user typed.  The site may show another image at any time.               *)
(***************************************************************************)
EXTENDS FlowRun

CONSTANT MaxAttempts   \* bound of max_attempts over the scenarios

VARIABLES
    shown,     \* the image the site shows
    files,     \* the image saved under each name
    src,       \* the image was taken from the element, not from a screenshot
    code,      \* the code read or typed
    manual,    \* the code is the user's
    looked,    \* the image that was extracted last before the submit
    att        \* attempt

capVars == <<shown, files, src, code, manual, looked, att>>

\* captcha_src_{step_count}_{attempt}.png; attempt 0 is the user's image.
SrcPath(a) == a

CapInit ==
    /\ shown = CHOOSE i \in Image : TRUE
    /\ files = [a \in 0..MaxAttempts |-> NoImage]
    /\ src = FALSE
    /\ code = NoCode
    /\ manual = FALSE
    /\ looked = NoImage
    /\ att = 0

\* What these steps leave alone in the generator and the flow.
genKept == <<scn, gen, n, last, proxy, domains, trace>>

Within == UNCHANGED <<genKept, frames, acted, used, clear, pending, typed, data>>

\* The action returns r.
Returns(r) == result' = r /\ tries' = tries + 1 /\ pc' = "judge"

GoesTo(next) == pc' = next /\ UNCHANGED <<result, tries>>

CapStartKept ==   \* mutant: the user's code is not consumed
    /\ Running("try")
    /\ Step.do = "captcha"
    /\ att' = 1
    /\ \/ Returns("fail") /\ UNCHANGED <<code, manual>>
       \/ /\ Step.field /\ answer # NoCode
          /\ code' = answer /\ manual' = TRUE
          /\ GoesTo("cap_fill")
       \/ /\ ~(Step.field /\ answer # NoCode)
          /\ manual' = FALSE
          /\ UNCHANGED code
          /\ IF Step.manual THEN Returns("ok") ELSE GoesTo("cap_look")
    /\ looked' = NoImage
    /\ Within /\ UNCHANGED <<snap, age, answer, shown, files, src>>

CapStart ==
    /\ Running("try")
    /\ Step.do = "captcha"
    /\ att' = 1
    /\ \/ Returns("fail") /\ UNCHANGED <<answer, code, manual>>   \* no vision key
       \/ /\ Step.field /\ answer # NoCode
          /\ code' = answer /\ answer' = NoCode /\ manual' = TRUE
          /\ GoesTo("cap_fill")
       \/ /\ ~(Step.field /\ answer # NoCode)
          /\ manual' = FALSE
          /\ UNCHANGED <<answer, code>>
          /\ IF Step.manual THEN Returns("ok") ELSE GoesTo("cap_look")
    /\ looked' = NoImage
    /\ Within /\ UNCHANGED <<snap, age, shown, files, src>>

\* _extract_img_src, else a screenshot.
CapLook ==
    /\ Running("cap_look")
    /\ \/ Step.src /\ src' = TRUE /\ GoesTo("cap_ocr")
       \/ src' = FALSE /\ GoesTo("cap_ocr")
       \/ src' = FALSE /\ Returns("fail")
    /\ files' = [files EXCEPT ![SrcPath(att)] = shown]
    /\ Within /\ UNCHANGED <<snap, age, answer, shown, code, manual, looked, att>>

\* What the model may read off image i, rightly or not.
Reads(i) == {NoCode, i}

CapOcr ==
    /\ Running("cap_ocr")
    /\ code' \in Reads(files[SrcPath(att)])
    /\ GoesTo(IF code' = NoCode THEN "cap_reroll" ELSE "cap_check")
    /\ Within
    /\ UNCHANGED <<snap, age, answer, shown, files, src, manual, looked, att>>

\* Extracts the image again; a change between the two files is read anew.
CapCheck ==
    /\ Running("cap_check")
    /\ \/ UNCHANGED <<files, looked, code>>       \* a screenshot, or no image
       \/ /\ src
          /\ files' = [files EXCEPT ![SrcPath(att)] = shown]
          /\ looked' = shown
          /\ LET before == SrcPath(att)
                 fresh  == SrcPath(att)
             IN  IF files'[fresh] # files'[before]
                 THEN \E c \in Reads(files'[fresh]) :
                          code' = IF c = NoCode THEN code ELSE c
                 ELSE UNCHANGED code
    /\ GoesTo("cap_fill")
    /\ Within /\ UNCHANGED <<snap, age, answer, shown, src, manual, att>>

\* Fill and submit; whether the submit has found its button is not tested.
CapFill ==
    /\ Running("cap_fill")
    /\ typed' = (typed /\ ~manual)
    /\ \E s \in Cached :
          /\ acted' = IF s \in Step.one \cup Step.many THEN age ELSE acted
          /\ \/ /\ Returns("fail")                        \* no input field
                /\ IF manual THEN Renews(NoPage) ELSE Outdates(s)
                /\ UNCHANGED shown
             \/ GoesTo("cap_verify") /\ Renews(NoPage) /\ shown' \in Image
    /\ UNCHANGED <<genKept, frames, used, clear, pending, data, answer, files, src, code,
                   manual, looked, att>>

\* By the known errors and the declared success texts that are found on the page
\* of that moment, and "unclear" on an exception: the site's own answer is not
\* tied to it.
Verdict == {"yes", "no", "unclear"}

CapVerify ==
    /\ Running("cap_verify")
    /\ \E v \in Verdict :
          IF manual THEN Returns(IF v = "no" THEN "fail" ELSE "ok")
          ELSE IF v = "yes" THEN Returns("ok") ELSE GoesTo("cap_reroll")
    /\ Within /\ UNCHANGED <<snap, age, answer, capVars>>

\* A new image, unless this was the last attempt or the site has no way to; the
\* way tried may have taken a snapshot, and changed the page.
CapReroll ==
    /\ Running("cap_reroll")
    /\ \/ /\ att < Step.max
          /\ att' = att + 1
          /\ shown' \in Image
          /\ Renews(NoPage)
          /\ files' = [files EXCEPT ![SrcPath(att)] = NoImage]
          /\ GoesTo("cap_look")
       \/ /\ IF Step.field THEN Returns("ask") ELSE Returns("fail")
          /\ IF att < Step.max THEN \E s \in {snap} \cup Looks : Outdates(s)
             ELSE UNCHANGED <<snap, age>>
          /\ files' = [files EXCEPT ![SrcPath(0)] = shown]
          /\ UNCHANGED <<att, shown>>
    /\ Within /\ UNCHANGED <<answer, src, code, manual, looked>>

\* The site shows another image by itself: on a timer, or reloaded.
CapRefresh ==
    /\ \/ pc \in {"cap_ocr", "cap_check"}
       \/ gen = "yielded" /\ pc = "shown" /\ result = "ask"
    /\ scn.captcha
    /\ shown' \in Image \ {shown}
    /\ UNCHANGED <<genVars, flowVars, files, src, code, manual, looked, att>>

CapNext ==
    \/ CapStart \/ CapLook \/ CapOcr \/ CapCheck \/ CapFill \/ CapVerify
    \/ CapReroll
=============================================================================
