-------------------------- MODULE WorkerHost_proofs -------------------------
(***************************************************************************)
(* What sessions leave to each other on a host, for every number of        *)
(* workers, sessions and crashes: a browser serves one session with that   *)
(* session's proxy unless it leaked, a report that is published is the     *)
(* session's own unless another has the same run directory, and a session  *)
(* that has its own download does not choose one that was left behind.     *)
(***************************************************************************)
EXTENDS WorkerHost, FiniteSetTheorems, TLAPS

\* Until reset_proxy, and from the start of the browser on.
Driving  == {"open", "launch", "begin", "work", "stable", "upload", "cleanup", "end"}
Browsing == {"launch", "begin", "work", "stable", "upload", "cleanup", "end", "find", "copy",
             "close"}

Place == {"idle"} \cup Driving \cup Browsing

TypeInv ==
    /\ pc \in [Worker -> Place]
    /\ job \in [Worker -> Session \cup {NoSession}]
    /\ override \in [Worker -> BOOLEAN]
    /\ browser \in [Worker -> [proxy : BOOLEAN, used : SUBSET Session, leaked : BOOLEAN]]

\* The process's override is its scenario's until reset_proxy, and then unset.
OverrideInv ==
    \A w \in Worker :
        /\ pc[w] \in {"find", "copy", "close", "idle"} => ~override[w]
        /\ pc[w] \in Driving => (override[w] <=> job[w] \in Proxied)

\* A browser that has not leaked is gone by the time its worker is idle, and
\* so the one a session works in was started for it.
BrowserInv ==
    \A w \in Worker :
        \/ browser[w] = NoBrowser
        \/ browser[w].leaked
        \/ /\ pc[w] \in Browsing
           /\ browser[w].used \subseteq {job[w]}
           /\ browser[w].proxy <=> job[w] \in Proxied

HostInv == TypeInv /\ OverrideInv /\ BrowserInv

-----------------------------------------------------------------------------
\* At the start there is no browser.
LEMMA HostInit == Init => HostInv
  BY HostAssumption
     DEF Init, HostInv, TypeInv, OverrideInv, BrowserInv, Place, NoBrowser, Driving

\* To close browsers, or to fail to, is safe for every worker.
LEMMA ClosingIsSafe ==
    ASSUME TypeInv, NEW W, Closed(W) \/ Leaks(W)
    PROVE  /\ browser' \in [Worker -> [proxy : BOOLEAN, used : SUBSET Session,
                                       leaked : BOOLEAN]]
           /\ \A w \in Worker :
                 \/ browser'[w] = browser[w] /\ (w \in W => browser[w] = NoBrowser)
                 \/ browser'[w] = NoBrowser
                 \/ browser'[w].leaked
<1>1. CASE Closed(W)
  BY <1>1 DEF Closed, NoBrowser, TypeInv
<1>2. CASE Leaks(W)
  BY <1>2 DEF Leaks, NoBrowser, TypeInv
<1> QED
  BY <1>1, <1>2

\* A command that reaches the browser leaves it the session's own.
LEMMA ServingIsOwn ==
    ASSUME HostInv, NEW w \in Worker, job[w] \in Session, pc[w] \in {"launch", "work"}
    PROVE  /\ Served(w) \in [proxy : BOOLEAN, used : SUBSET Session, leaked : BOOLEAN]
           /\ \/ Served(w).leaked
              \/ /\ Served(w).used \subseteq {job[w]}
                 /\ Served(w).proxy <=> job[w] \in Proxied
  BY DEF HostInv, TypeInv, OverrideInv, BrowserInv, Served, NoBrowser, Driving

\* HostInv holds along every run.
LEMMA HostStep == HostInv /\ [Next]_vars => HostInv'
<1> SUFFICES ASSUME HostInv, [Next]_vars PROVE HostInv'
  OBVIOUS
<1> USE HostAssumption DEF HostInv, TypeInv, OverrideInv, BrowserInv, Place, Driving,
                           Browsing, At, GoTo
<1>1. ASSUME NEW w \in Worker, NEW s \in Session, Start(w, s) PROVE HostInv'
  BY <1>1 DEF Start
<1>2. ASSUME NEW w \in Worker, Recycle(w) PROVE HostInv'
  <2>1. \/ UNCHANGED browser
        \/ Closed(Worker) \/ Leaks({w})
    BY <1>2 DEF Recycle
  <2>2. /\ browser' \in [Worker -> [proxy : BOOLEAN, used : SUBSET Session,
                                    leaked : BOOLEAN]]
        /\ \A v \in Worker :
              browser'[v] = browser[v] \/ browser'[v] = NoBrowser \/ browser'[v].leaked
    BY <2>1, ClosingIsSafe
  <2> QED
    BY <1>2, <2>2 DEF Recycle
<1>3. ASSUME NEW w \in Worker, Launch(w) PROVE HostInv'
  <2>1. browser' \in {browser, [browser EXCEPT ![w] = Served(w)]}
    BY <1>3 DEF Launch
  <2>2. /\ pc[w] = "launch" /\ job[w] \in Session
        /\ \E to \in {"begin", "end"} : pc' = [pc EXCEPT ![w] = to]
        /\ UNCHANGED <<job, override>>
    <3>1. pc[w] = "launch" /\ job[w] \in Session /\ UNCHANGED <<job, override>>
      BY <1>3 DEF Launch
    <3>2. \E to \in {"begin", "end"} : pc' = [pc EXCEPT ![w] = to]
      BY ONLY <1>3 DEF Launch, GoTo
    <3> QED
      BY <3>1, <3>2
  <2>3. TypeInv'
    <3>1. pc' \in [Worker -> Place]
      BY <2>2
    <3>2. browser' \in [Worker -> [proxy : BOOLEAN, used : SUBSET Session,
                                   leaked : BOOLEAN]]
      BY <2>1, <2>2, ServingIsOwn
    <3> QED
      BY <2>2, <3>1, <3>2
  <2>4. OverrideInv'
    BY <2>2
  <2>5. BrowserInv'
    BY <2>1, <2>2, ServingIsOwn
  <2> QED
    BY <2>3, <2>4, <2>5
<1>4. ASSUME NEW w \in Worker, Begin(w) PROVE HostInv'
  BY <1>4 DEF Begin
<1>5. ASSUME NEW w \in Worker, Download(w) PROVE HostInv'
  BY <1>5, ServingIsOwn DEF Download, procVars
<1>6. ASSUME NEW w \in Worker, Goto(w) PROVE HostInv'
  <2>1. /\ browser' \in [Worker -> [proxy : BOOLEAN, used : SUBSET Session,
                                    leaked : BOOLEAN]]
        /\ \A v \in Worker :
              browser'[v] = browser[v] \/ browser'[v] = NoBrowser \/ browser'[v].leaked
    BY <1>6, ClosingIsSafe DEF Goto
  <2> QED
    BY <1>6, <2>1 DEF Goto
<1>7. ASSUME NEW w \in Worker, Choose(w) \/ Return(w) \/ Upload(w) \/ Cleanup(w)
      PROVE  HostInv'
  BY <1>7 DEF Choose, Return, Upload, Cleanup
<1>8. ASSUME NEW w \in Worker, End(w) PROVE HostInv'
  <2>1. /\ pc[w] \in {"work", "end"}
        /\ \E to \in {"find", "close"} : pc' = [pc EXCEPT ![w] = to]
        /\ override' = [override EXCEPT ![w] = FALSE]
        /\ UNCHANGED <<job, browser>>
    BY <1>8 DEF End, ResetProxy
  <2>2. TypeInv' /\ OverrideInv'
    BY <2>1
  <2>3. BrowserInv'
    BY <2>1
  <2> QED
    BY <2>2, <2>3
<1>9. ASSUME NEW w \in Worker, FindJson(w) \/ CopyJson(w) PROVE HostInv'
  <2>1. /\ pc[w] \in {"find", "copy"} /\ UNCHANGED <<job, override, browser>>
        /\ \E to \in {"copy", "close"} : pc' = [pc EXCEPT ![w] = to]
    BY <1>9 DEF FindJson, CopyJson
  <2> QED
    BY <2>1
<1>10. ASSUME NEW w \in Worker, CloseBrowser(w) \/ Crash(w) PROVE HostInv'
  <2>1. /\ browser' \in [Worker -> [proxy : BOOLEAN, used : SUBSET Session,
                                    leaked : BOOLEAN]]
        /\ \A v \in Worker :
              \/ browser'[v] = browser[v] /\ (v = w => browser[v] = NoBrowser)
              \/ browser'[v] = NoBrowser
              \/ browser'[v].leaked
    BY <1>10, ClosingIsSafe DEF CloseBrowser, Crash
  <2>2. CASE CloseBrowser(w)
    \* reset_proxy has been called before.
    BY <2>1, <2>2 DEF CloseBrowser
  <2>3. CASE Crash(w)
    BY <2>1, <2>3 DEF Crash
  <2> QED
    BY <1>10, <2>2, <2>3
<1>11. ASSUME NEW i \in DOMAIN files, Complete(i) PROVE HostInv'
  BY <1>11 DEF Complete, procVars
<1>12. CASE UNCHANGED vars
  BY <1>12 DEF vars
<1> QED
  BY <1>1, <1>2, <1>3, <1>4, <1>5, <1>6, <1>7, <1>8, <1>9, <1>10, <1>11, <1>12 DEF Next

\* The browser a session works in has the proxy of its own scenario, unless a
\* close failed or the worker's process died before.
THEOREM ProxyAlwaysOwn == Spec => []ProxyIsOwn
<1>1. HostInv => ProxyIsOwn
  BY DEF HostInv, TypeInv, BrowserInv, ProxyIsOwn, At
<1> QED
  BY <1>1, HostInit, HostStep, PTL DEF Spec

\* No session works in a browser that another has used, with the same exception.
THEOREM NoStateCarriedOver == Spec => []NoForeignState
<1>1. HostInv => NoForeignState
  BY DEF HostInv, TypeInv, BrowserInv, NoForeignState, At, NoBrowser
<1> QED
  BY <1>1, HostInit, HostStep, PTL DEF Spec

-----------------------------------------------------------------------------
(* The reports: a session has one worker and begins once.                    *)

ReportType ==
    /\ dir \in [Session -> Session \cup {NoSession}]
    /\ json \in [Session -> Session \cup {NoSession}]
    /\ copied \in [Session -> Session \cup {NoSession}]
    /\ found \in [Worker -> Session \cup {NoSession}]

SessionInv ==
    /\ todo \subseteq Session
    /\ \A s \in todo : dir[s] = NoSession /\ \A w \in Worker : job[w] # s
    /\ \A v, w \in Worker : v # w /\ job[v] \in Session => job[v] # job[w]
    /\ \A w \in Worker :
          pc[w] \in {"open", "launch", "begin"} /\ job[w] \in Session =>
              dir[job[w]] = NoSession

Shared(s) == \E o \in Session \ {s} : dir[o] = dir[s]

\* A session.json is in the directory of its session, and the one that was matched is
\* copied from the directory that the session has, whoever has written there since.
ReportInv ==
    /\ \A d \in Session : json[d] \in Session => dir[json[d]] = d
    /\ \A w \in Worker :
          pc[w] = "copy" /\ job[w] \in Session =>
              /\ found[w] \in Session /\ dir[job[w]] = found[w]
              /\ json[found[w]] \in Session
    /\ \A s \in Session : copied[s] # NoSession => dir[s] \in Session
    /\ PublishedIsOwn

CopyInv == HostInv /\ ReportType /\ SessionInv /\ ReportInv

\* At the start no session has begun.
LEMMA CopyInit == Init => CopyInv
  BY HostInit, HostAssumption
     DEF Init, CopyInv, ReportType, SessionInv, ReportInv, PublishedIsOwn

\* A run directory is the session's own or one that is there already.
LEMMA BeginDir ==
    ASSUME CopyInv, NEW w \in Worker, Begin(w)
    PROVE  \E d \in Session : dir' = [dir EXCEPT ![job[w]] = d]
<1> DEFINE there == {v \in Worker : job[v] # NoSession}
<1>1. \A v \in there : dir[job[v]] \in Session \cup {NoSession}
  BY DEF CopyInv, HostInv, TypeInv, ReportType
<1>2. {job[w]} \cup ({dir[job[v]] : v \in there} \ {NoSession}) \subseteq Session
  BY <1>1 DEF Begin, At
<1> QED
  BY <1>2 DEF Begin

\* A session is started by one worker, once.
LEMMA SessionStep == CopyInv /\ [Next]_vars => ReportType' /\ SessionInv'
<1> SUFFICES ASSUME CopyInv, [Next]_vars PROVE ReportType' /\ SessionInv'
  OBVIOUS
<1> USE HostAssumption DEF CopyInv, HostInv, TypeInv, ReportType, SessionInv, At, GoTo
<1>1. ASSUME NEW w \in Worker, NEW s \in Session, Start(w, s)
      PROVE  ReportType' /\ SessionInv'
  <2>1. /\ pc' = [pc EXCEPT ![w] = "open"] /\ job' = [job EXCEPT ![w] = s]
        /\ s \in todo /\ todo' = todo \ {s}
        /\ UNCHANGED <<dir, json, found, copied>>
    BY <1>1 DEF Start, diskVars
  <2>2. \A t \in todo' : dir'[t] = NoSession /\ \A v \in Worker : job'[v] # t
    BY <2>1
  <2>3. \A u, v \in Worker : u # v /\ job'[u] \in Session => job'[u] # job'[v]
    BY <2>1
  <2>4. \A v \in Worker :
           pc'[v] \in {"open", "launch", "begin"} /\ job'[v] \in Session =>
               dir'[job'[v]] = NoSession
    BY <2>1
  <2> QED
    BY <2>1, <2>2, <2>3, <2>4
<1>2. ASSUME NEW w \in Worker, Recycle(w) \/ Launch(w) PROVE ReportType' /\ SessionInv'
  <2>1. /\ pc[w] \in {"open", "launch"}
        /\ \E to \in {"launch", "begin", "end"} : pc' = [pc EXCEPT ![w] = to]
        /\ UNCHANGED <<job, todo, dir, json, found, copied>>
    BY <1>2 DEF Recycle, Launch, diskVars
  <2> QED
    BY <2>1
<1>3. ASSUME NEW w \in Worker, Begin(w) PROVE ReportType' /\ SessionInv'
  <2>1. PICK d \in Session :
            /\ dir' = [dir EXCEPT ![job[w]] = d]
            /\ pc[w] = "begin" /\ job[w] \in Session
            /\ pc' = [pc EXCEPT ![w] = "work"]
            /\ UNCHANGED <<job, todo, json, found, copied>>
    BY <1>3, BeginDir DEF Begin
  <2>2. \A t \in todo : dir'[t] = NoSession
    BY <2>1
  <2>3. \A v \in Worker :
           pc'[v] \in {"open", "launch", "begin"} /\ job[v] \in Session =>
               dir'[job[v]] = NoSession
    BY <2>1
  <2> QED
    BY <2>1, <2>2, <2>3
<1>4. ASSUME NEW w \in Worker,
             \/ Download(w) \/ Goto(w) \/ Choose(w) \/ Return(w) \/ Upload(w)
             \/ Cleanup(w)
      PROVE  ReportType' /\ SessionInv'
  <2>1. /\ \E to \in {"work", "stable", "upload", "cleanup"} : pc' = [pc EXCEPT ![w] = to]
        /\ UNCHANGED <<job, todo, dir, json, found, copied>>
    BY <1>4 DEF Download, Goto, Choose, Return, Upload, Cleanup, procVars, diskVars
  <2> QED
    BY <2>1
<1>5. ASSUME NEW w \in Worker, End(w) PROVE ReportType' /\ SessionInv'
  <2>1. /\ \E to \in {"find", "close"} : pc' = [pc EXCEPT ![w] = to]
        /\ json' \in [Session -> Session \cup {NoSession}]
        /\ UNCHANGED <<job, todo, dir, found, copied>>
    BY <1>5 DEF End
  <2> QED
    BY <2>1
<1>6. ASSUME NEW w \in Worker, FindJson(w) \/ CopyJson(w)
      PROVE  ReportType' /\ SessionInv'
  <2>1. /\ \E to \in {"copy", "close"} : pc' = [pc EXCEPT ![w] = to]
        /\ UNCHANGED <<job, todo, dir, json>>
    BY <1>6 DEF FindJson, CopyJson, diskVars
  <2>2. Reports(w) \subseteq Session
    BY DEF Reports
  <2>3. found' \in [Worker -> Session \cup {NoSession}]
    BY <1>6, <2>2 DEF FindJson, CopyJson
  <2>4. copied' \in [Session -> Session \cup {NoSession}]
    <3>1. CASE FindJson(w)
      BY <3>1 DEF FindJson, diskVars
    <3>2. CASE CopyJson(w)
      <4>1. json[found[w]] \in Session
        BY <3>2 DEF CopyJson, ReportInv
      <4> QED
        BY <3>2, <4>1 DEF CopyJson
    <3> QED
      BY <1>6, <3>1, <3>2
  <2> QED
    BY <2>1, <2>3, <2>4
<1>7. ASSUME NEW w \in Worker, CloseBrowser(w) \/ Crash(w) PROVE ReportType' /\ SessionInv'
  <2>1. /\ job' = [job EXCEPT ![w] = NoSession]
        /\ pc' = [pc EXCEPT ![w] = "idle"]
        /\ found' \in {found, [found EXCEPT ![w] = NoSession]}
        /\ UNCHANGED <<todo, dir, json, copied>>
    BY <1>7 DEF CloseBrowser, Crash, diskVars
  <2>2. \A t \in todo : \A v \in Worker : job'[v] # t
    BY <2>1
  <2>4. \A u, v \in Worker : u # v /\ job'[u] \in Session => job'[u] # job'[v]
    BY <2>1
  <2> QED
    BY <2>1, <2>2, <2>4
<1>8. ASSUME NEW i \in DOMAIN files, Complete(i) PROVE ReportType' /\ SessionInv'
  BY <1>8 DEF Complete, procVars, diskVars
<1>9. CASE UNCHANGED vars
  BY <1>9 DEF vars, diskVars
<1> QED
  BY <1>1, <1>2, <1>3, <1>4, <1>5, <1>6, <1>7, <1>8, <1>9 DEF Next

\* A directory that a session has, and what two have in common, stay when another
\* session begins.
LEMMA DirStays ==
    ASSUME CopyInv, NEW w \in Worker, Begin(w)
    PROVE  /\ \A s \in Session : dir[s] \in Session => dir'[s] = dir[s]
           /\ \A s \in Session : dir[s] \in Session /\ Shared(s) => Shared(s)'
<1>1. /\ job[w] \in Session /\ dir[job[w]] = NoSession
      /\ \A s \in Session \ {job[w]} : dir'[s] = dir[s]
  BY BeginDir DEF Begin, At, CopyInv, HostInv, TypeInv, ReportType, SessionInv
<1>2. \A s \in Session : dir[s] \in Session => dir'[s] = dir[s]
  BY <1>1, HostAssumption
<1> QED
  BY <1>2 DEF Shared

\* What is published was copied from the session's own directory.
LEMMA ReportStep == CopyInv /\ [Next]_vars => ReportInv'
<1> SUFFICES ASSUME CopyInv, [Next]_vars PROVE ReportInv'
  OBVIOUS
<1> USE HostAssumption DEF CopyInv, HostInv, TypeInv, ReportType, SessionInv, ReportInv, Shared,
                           PublishedIsOwn, At, GoTo
\* The steps that write neither a directory nor a report.
<1>1. ASSUME NEW w \in Worker, NEW to \in Place \ {"copy"},
             pc' = [pc EXCEPT ![w] = to],
             \A v \in Worker \ {w} : job'[v] = job[v] /\ found'[v] = found[v],
             UNCHANGED <<dir, json, copied>>
      PROVE  ReportInv'
  BY <1>1
<1>2. ASSUME NEW w \in Worker, NEW s \in Session, Start(w, s) PROVE ReportInv'
  BY <1>1, <1>2 DEF Start, diskVars, Place, Driving
<1>3. ASSUME NEW w \in Worker,
             \/ Recycle(w) \/ Launch(w) \/ Choose(w) \/ Return(w) \/ Upload(w)
             \/ Cleanup(w) \/ CloseBrowser(w) \/ Crash(w)
      PROVE  ReportInv'
  <2>1. /\ \E to \in Place \ {"copy"} : pc' = [pc EXCEPT ![w] = to]
        /\ UNCHANGED <<dir, json, copied>>
    BY <1>3 DEF Recycle, Launch, Choose, Return, Upload, Cleanup,
                CloseBrowser, Crash, diskVars, Place, Driving, Browsing
  <2>2. \A v \in Worker \ {w} : job'[v] = job[v] /\ found'[v] = found[v]
    BY <1>3 DEF Recycle, Launch, Choose, Return, Upload, Cleanup, CloseBrowser, Crash
  <2> QED
    BY <1>1, <2>1, <2>2
<1>4. ASSUME NEW w \in Worker, Begin(w) PROVE ReportInv'
  <2>1. /\ pc[w] = "begin" /\ job[w] \in Session /\ pc' = [pc EXCEPT ![w] = "work"]
        /\ UNCHANGED <<job, json, found, copied>>
    BY <1>4 DEF Begin
  <2>2. /\ \A s \in Session : dir[s] \in Session => dir'[s] = dir[s]
        /\ \A s \in Session : dir[s] \in Session /\ Shared(s) => Shared(s)'
    BY <1>4, DirStays
  <2> QED
    BY <2>1, <2>2
<1>5. ASSUME NEW w \in Worker, Download(w) \/ Goto(w) PROVE ReportInv'
  BY <1>5 DEF Download, Goto, procVars, diskVars
<1>6. ASSUME NEW w \in Worker, End(w) PROVE ReportInv'
  <2>1. /\ pc[w] \in {"work", "end"} /\ job[w] \in Session
        /\ \E to \in {"find", "close"} : pc' = [pc EXCEPT ![w] = to]
        /\ \/ /\ dir[job[w]] \in Session
              /\ json' = [json EXCEPT ![dir[job[w]]] = job[w]]
           \/ json' = json
        /\ UNCHANGED <<job, dir, found, copied>>
    BY <1>6 DEF End
  <2>2. \A d \in Session : json'[d] = json[d] \/ (json'[d] = job[w] /\ dir[job[w]] = d)
    BY <2>1
  <2>3. \A d \in Session : json[d] \in Session => json'[d] \in Session
    BY <2>1, <2>2
  <2>4. \A v \in Worker : pc'[v] = "copy" => pc[v] = "copy"
    BY <2>1
  <2> QED
    BY <2>1, <2>2, <2>3, <2>4
<1>7. ASSUME NEW w \in Worker, FindJson(w) PROVE ReportInv'
  <2>1. /\ pc[w] = "find" /\ job[w] \in Session /\ UNCHANGED <<job, dir, json, copied>>
        /\ \/ \E d \in Session : /\ json[d] = job[w] /\ found' = [found EXCEPT ![w] = d]
                                  /\ pc' = [pc EXCEPT ![w] = "copy"]
           \/ found' = found /\ pc' = [pc EXCEPT ![w] = "close"]
    BY <1>7 DEF FindJson, Reports, diskVars
  <2> QED
    BY <2>1
<1>8. ASSUME NEW w \in Worker, CopyJson(w) PROVE ReportInv'
  <2>1. /\ pc[w] = "copy" /\ job[w] \in Session /\ UNCHANGED <<job, dir, json>>
        /\ found' = [found EXCEPT ![w] = NoSession] /\ pc' = [pc EXCEPT ![w] = "close"]
        /\ copied' \in {copied, [copied EXCEPT ![job[w]] = json[found[w]]]}
    BY <1>8 DEF CopyJson
  \* What is read is in the directory of its own session.
  <2>2. /\ json[found[w]] \in Session /\ dir[json[found[w]]] = dir[job[w]]
        /\ dir[job[w]] \in Session
    BY <2>1
  <2>3. \A s \in Session : copied'[s] # NoSession =>
           /\ dir[s] \in Session
           /\ copied'[s] = s \/ \E o \in Session \ {s} : dir[o] = dir[s]
    BY <2>1, <2>2
  <2> QED
    BY <2>1, <2>3
<1>9. ASSUME NEW i \in DOMAIN files, Complete(i) PROVE ReportInv'
  BY <1>9 DEF Complete, procVars, diskVars
<1>10. CASE UNCHANGED vars
  BY <1>10 DEF vars
<1> QED
  BY <1>2, <1>3, <1>4, <1>5, <1>6, <1>7, <1>8, <1>9, <1>10 DEF Next

\* A report published as a session's is its own, unless another session has the same
\* run directory.
THEOREM ReportIsOwn == Spec => []PublishedIsOwn
<1>1. CopyInv /\ [Next]_vars => CopyInv'
  BY HostStep, SessionStep, ReportStep DEF CopyInv
<1>2. CopyInv => PublishedIsOwn
  BY DEF CopyInv, ReportInv
<1> QED
  BY <1>1, <1>2, CopyInit, PTL DEF Spec

-----------------------------------------------------------------------------
(* The downloads directory: the files are in the order of their completion.  *)

File == [of : Session, ext : Ext, by : Worker \cup {NoWorker}, complete : BOOLEAN,
         stray : BOOLEAN]

FileType ==
    /\ files \in Seq(File)
    /\ picked \in [Worker -> Session \cup {NoSession}]
    /\ active \in [Worker -> BOOLEAN]
    /\ crashes \in 0..MaxCrashes
    /\ over \in [Session -> SUBSET Session]

\* A worker is idle exactly when it has no session, and then it has no proxy; it
\* has a path in hand only until the upload, and a report only for its copy.
IdleInv ==
    \A w \in Worker :
        /\ pc[w] = "idle" <=> job[w] = NoSession
        /\ pc[w] = "idle" => ~active[w]
        /\ picked[w] # NoSession => pc[w] \in {"stable", "upload"}
        /\ found[w] # NoSession <=> pc[w] = "copy"

\* A session that was over when another started stays over.
OverInv == \A s \in Session : \A o \in over[s] : Over(o)

\* A session has one file at most and none before it starts; a browser that
\* still writes one is the session's own, or has leaked.
WriterInv ==
    /\ \A i \in DOMAIN files : files[i].of \notin todo
    /\ \A i, j \in DOMAIN files : i # j => files[i].of # files[j].of
    /\ \A i \in DOMAIN files :
          ~files[i].complete /\ files[i].by # NoWorker =>
              /\ browser[files[i].by] # NoBrowser
              /\ browser[files[i].by].leaked \/ job[files[i].by] = files[i].of

\* Of two complete files, the later is not of a session that was over when the
\* session of the earlier one started, unless a leaked browser wrote it.
AgeInv ==
    \A i, j \in DOMAIN files :
        i < j /\ files[i].complete /\ files[j].complete =>
            files[j].of \notin over[files[i].of] \/ files[j].stray

DownloadInv == CopyInv /\ FileType /\ IdleInv /\ OverInv /\ WriterInv /\ AgeInv

\* The fields of a file that only its completion changes.
Same(f, g) == f.of = g.of /\ f.complete = g.complete /\ f.stray = g.stray

\* What is left of the directory, in its order, when files go or lose their writer.
Left(f) ==
    /\ files' \in Seq(File) /\ f \in [DOMAIN files' -> DOMAIN files]
    /\ \A i, j \in DOMAIN files' : i < j => f[i] < f[j]
    /\ \A i \in DOMAIN files' :
          /\ Same(files'[i], files[f[i]])
          /\ files'[i].by \in {files[f[i]].by, NoWorker}

\* A deleted file leaves the others in their order.
LEMMA RemoveAtFacts ==
    ASSUME NEW S, NEW s \in Seq(S), NEW i \in DOMAIN s
    PROVE  /\ RemoveAt(s, i) \in Seq(S) /\ Len(RemoveAt(s, i)) = Len(s) - 1
           /\ \A k \in 1..(Len(s) - 1) :
                 RemoveAt(s, i)[k] = s[IF k < i THEN k ELSE k + 1]
<1>1. i \in 1..Len(s) /\ Len(s) \in Nat
  OBVIOUS
<1>2. /\ SubSeq(s, 1, i - 1) \in Seq(S) /\ SubSeq(s, i + 1, Len(s)) \in Seq(S)
      /\ Len(SubSeq(s, 1, i - 1)) = i - 1 /\ Len(SubSeq(s, i + 1, Len(s))) = Len(s) - i
      /\ \A k \in 1..(i - 1) : SubSeq(s, 1, i - 1)[k] = s[k]
      /\ \A k \in 1..(Len(s) - i) : SubSeq(s, i + 1, Len(s))[k] = s[k + i]
  BY <1>1
<1> DEFINE a == SubSeq(s, 1, i - 1)
           b == SubSeq(s, i + 1, Len(s))
<1>3. RemoveAt(s, i) = a \o b
  BY DEF RemoveAt
<1> HIDE DEF a, b
<1>4. /\ a \in Seq(S) /\ b \in Seq(S) /\ Len(a) = i - 1 /\ Len(b) = Len(s) - i
      /\ \A k \in 1..(i - 1) : a[k] = s[k]
      /\ \A k \in 1..(Len(s) - i) : b[k] = s[k + i]
  BY <1>2 DEF a, b
<1>5. a \o b \in Seq(S) /\ Len(a \o b) = Len(s) - 1
  BY <1>1, <1>4
<1>6. \A k \in 1..(Len(s) - 1) : (a \o b)[k] = IF k < i THEN a[k] ELSE b[k - (i - 1)]
  BY <1>1, <1>4
<1>7. \A k \in 1..(Len(s) - 1) : (a \o b)[k] = s[IF k < i THEN k ELSE k + 1]
  <2> SUFFICES ASSUME NEW k \in 1..(Len(s) - 1)
               PROVE  (a \o b)[k] = s[IF k < i THEN k ELSE k + 1]
    OBVIOUS
  <2>1. CASE k < i
    BY <1>1, <1>4, <1>6, <2>1
  <2>2. CASE ~(k < i)
    <3>1. k - (i - 1) \in 1..(Len(s) - i) /\ (k - (i - 1)) + i = k + 1
      BY <1>1, <2>2
    <3>2. b[k - (i - 1)] = s[k + 1]
      BY <1>4, <3>1
    <3> QED
      BY <1>6, <2>2, <3>2
  <2> QED
    BY <2>1, <2>2
<1> QED
  BY <1>3, <1>5, <1>7

\* One deletion.
LEMMA RemovalLeaves ==
    ASSUME files \in Seq(File), NEW i \in DOMAIN files, files' = RemoveAt(files, i)
    PROVE  \E f : Left(f)
<1> DEFINE f == [k \in DOMAIN files' |-> IF k < i THEN k ELSE k + 1]
<1>1. /\ files' \in Seq(File) /\ Len(files') = Len(files) - 1
      /\ \A k \in 1..(Len(files) - 1) : files'[k] = files[IF k < i THEN k ELSE k + 1]
  BY RemoveAtFacts
<1>2. DOMAIN files' = 1..(Len(files) - 1) /\ Len(files) \in Nat /\ i \in 1..Len(files)
  BY <1>1
<1>3. f \in [DOMAIN files' -> DOMAIN files]
  BY <1>2
<1>4. \A k, l \in DOMAIN files' : k < l => f[k] < f[l]
  BY <1>2
<1>5. \A k \in DOMAIN files' : files'[k] = files[f[k]]
  BY <1>1, <1>2
<1> QED
  BY <1>1, <1>3, <1>4, <1>5 DEF Left, Same

\* What is left is in the order of completion, a file for each session at most.
LEMMA LeftInOrder ==
    ASSUME FileType, WriterInv, AgeInv, NEW f, Left(f),
           UNCHANGED over, todo' \subseteq todo
    PROVE  /\ \A i \in DOMAIN files' : files'[i].of \notin todo'
           /\ \A i, j \in DOMAIN files' : i # j => files'[i].of # files'[j].of
           /\ AgeInv'
<1>1. \A i \in DOMAIN files' : f[i] \in DOMAIN files /\ Same(files'[i], files[f[i]])
  BY DEF Left
<1>2. \A i \in DOMAIN files' : files'[i].of \notin todo'
  BY <1>1 DEF WriterInv, Same
<1>3. \A i, j \in DOMAIN files' : i < j => f[i] < f[j]
  BY DEF Left
<1>4. \A i, j \in DOMAIN files' : i # j => f[i] # f[j]
  <2>1. \A i, j \in DOMAIN files' : i \in Int /\ j \in Int /\ f[i] \in Int /\ f[j] \in Int
    BY DEF Left, FileType
  <2> QED
    BY <1>3, <2>1
<1>5. \A i, j \in DOMAIN files' : i # j => files'[i].of # files'[j].of
  BY <1>1, <1>4 DEF WriterInv, Same
<1>6. AgeInv'
  BY <1>1, <1>3 DEF AgeInv, Same
<1> QED
  BY <1>2, <1>5, <1>6

\* A browser that still writes what is left has it from before.
LEMMA LeftWriters ==
    ASSUME FileType, WriterInv, NEW f, Left(f), UNCHANGED job,
           \A w \in Worker : browser[w] # NoBrowser =>
               browser'[w] # NoBrowser /\ browser'[w].leaked = browser[w].leaked
    PROVE  \A i \in DOMAIN files' :
              ~files'[i].complete /\ files'[i].by # NoWorker =>
                  /\ browser'[files'[i].by] # NoBrowser
                  /\ browser'[files'[i].by].leaked \/ job'[files'[i].by] = files'[i].of
<1> SUFFICES ASSUME NEW i \in DOMAIN files', ~files'[i].complete, files'[i].by # NoWorker
             PROVE  /\ browser'[files'[i].by] # NoBrowser
                    /\ browser'[files'[i].by].leaked \/ job'[files'[i].by] = files'[i].of
  OBVIOUS
<1>1. f[i] \in DOMAIN files /\ Same(files'[i], files[f[i]]) /\ files'[i].by = files[f[i]].by
  BY DEF Left
<1>2. files[f[i]] \in File
  BY <1>1 DEF FileType
<1>3. files[f[i]].by \in Worker /\ ~files[f[i]].complete
  BY <1>1, <1>2 DEF File, Same
<1> QED
  BY <1>1, <1>3 DEF WriterInv, Same

\* So, for the steps of a worker that closes no browser.
LEMMA DeletionIsSafe ==
    ASSUME FileType, WriterInv, AgeInv, NEW f, Left(f), UNCHANGED <<job, over, todo>>,
           \A w \in Worker : browser[w] # NoBrowser =>
               browser'[w] # NoBrowser /\ browser'[w].leaked = browser[w].leaked
    PROVE  WriterInv' /\ AgeInv'
  BY LeftInOrder, LeftWriters, Zenon DEF WriterInv

\* A closed browser writes no file, and one that leaks is not closed: whatever
\* becomes of the sessions of W then, the files have the writers they may have.
LEMMA ClosingFiles ==
    ASSUME TypeInv, FileType, WriterInv, AgeInv, NEW W \in SUBSET Worker,
           Closed(W) \/ Leaks(W), UNCHANGED <<over, todo>>,
           \A v \in Worker \ W : job'[v] = job[v]
    PROVE  files' \in Seq(File) /\ WriterInv' /\ AgeInv'
<1>1. /\ DOMAIN files' = DOMAIN files /\ files' \in Seq(File)
      /\ \A i \in DOMAIN files :
            /\ Same(files'[i], files[i])
            /\ files'[i].by = IF files[i].by \in W /\ Closed(W) THEN NoWorker
                                                               ELSE files[i].by
  <2>1. \A i \in DOMAIN files : files[i] \in File /\ DOMAIN files = 1..Len(files)
    BY DEF FileType
  <2>2. CASE Closed(W)
    <3>1. files' = [i \in DOMAIN files |->
                      IF files[i].by \in W THEN [files[i] EXCEPT !.by = NoWorker]
                                           ELSE files[i]]
      BY <2>2 DEF Closed
    <3>2. \A i \in DOMAIN files : /\ [files[i] EXCEPT !.by = NoWorker] \in File
                                  /\ Same([files[i] EXCEPT !.by = NoWorker], files[i])
                                  /\ Same(files[i], files[i])
                                  /\ [files[i] EXCEPT !.by = NoWorker].by = NoWorker
      BY <2>1 DEF File, Same
    <3>3. \A i \in DOMAIN files : files'[i] \in File
      BY <2>1, <3>1, <3>2
    <3>4. files' \in Seq(File) /\ DOMAIN files' = DOMAIN files
      BY <2>1, <3>1, <3>3 DEF FileType
    <3>5. \A i \in DOMAIN files :
             files'[i] = IF files[i].by \in W THEN [files[i] EXCEPT !.by = NoWorker]
                                              ELSE files[i]
      BY <3>1
    <3>6. \A i \in DOMAIN files :
             /\ Same(files'[i], files[i])
             /\ files'[i].by = IF files[i].by \in W THEN NoWorker ELSE files[i].by
      BY <3>2, <3>5
    <3> QED
      BY <2>2, <3>4, <3>6
  <2>3. CASE Leaks(W) /\ ~Closed(W)
    <3>1. files' = files
      BY <2>3 DEF Leaks
    <3> QED
      BY <2>1, <2>3, <3>1 DEF FileType, Same
  <2> QED
    BY <2>2, <2>3
<1> DEFINE f == [i \in DOMAIN files' |-> i]
<1>2. Left(f)
  BY <1>1 DEF Left, Same
<1>3. /\ \A i \in DOMAIN files' : files'[i].of \notin todo'
      /\ \A i, j \in DOMAIN files' : i # j => files'[i].of # files'[j].of
      /\ AgeInv'
  <2> HIDE DEF f
  <2> QED
    BY <1>2, LeftInOrder
<1>4. ASSUME NEW i \in DOMAIN files', ~files'[i].complete, files'[i].by # NoWorker
      PROVE  /\ browser'[files'[i].by] # NoBrowser
             /\ browser'[files'[i].by].leaked \/ job'[files'[i].by] = files'[i].of
  <2>1. /\ i \in DOMAIN files /\ Same(files'[i], files[i]) /\ files'[i].by = files[i].by
        /\ ~(files[i].by \in W /\ Closed(W))
    BY <1>1, <1>4
  <2>2. files[i].by \in Worker
    <3>1. files[i] \in File
      BY <2>1 DEF FileType
    <3> QED
      BY <1>4, <2>1, <3>1 DEF File
  <2>3. /\ browser[files[i].by] # NoBrowser
        /\ browser[files[i].by].leaked \/ job[files[i].by] = files[i].of
    BY <1>4, <2>1 DEF WriterInv, Same
  <2>4. CASE files[i].by \in W
    <3>1. Leaks(W)
      BY <1>4, <2>1, <2>4
    <3>2. browser'[files[i].by] = [browser[files[i].by] EXCEPT !.leaked = TRUE]
      BY <2>2, <2>3, <2>4, <3>1 DEF Leaks
    <3>3. browser'[files[i].by].leaked /\ browser'[files[i].by] # NoBrowser
      BY <2>2, <3>2 DEF TypeInv, NoBrowser
    <3> QED
      BY <2>1, <3>3
  <2>5. CASE files[i].by \notin W
    BY <2>1, <2>2, <2>3, <2>5 DEF Closed, Leaks, Same
  <2> QED
    BY <2>4, <2>5
<1> QED
  BY <1>1, <1>3, <1>4 DEF WriterInv

\* At the start the directory is empty.
LEMMA DownloadInit == Init => DownloadInv
<1> SUFFICES ASSUME Init PROVE DownloadInv
  OBVIOUS
<1>1. CopyInv
  BY CopyInit
<1>2. FileType
  BY HostAssumption DEF Init, FileType
<1>3. IdleInv /\ OverInv
  BY DEF Init, IdleInv, OverInv
<1>4. WriterInv /\ AgeInv
  BY DEF Init, WriterInv, AgeInv
<1> QED
  BY <1>1, <1>2, <1>3, <1>4 DEF DownloadInv

\* No worker takes a session that is over.
LEMMA OverStays ==
    ASSUME CopyInv, IdleInv, Next, NEW s \in Session, Over(s)
    PROVE  Over(s)'
<1> USE DEF CopyInv, HostInv, TypeInv, Over
<1>1. ASSUME NEW w \in Worker, NEW t \in Session, Start(w, t) PROVE Over(s)'
  BY <1>1 DEF Start
<1>2. ASSUME NEW w \in Worker, CloseBrowser(w) \/ Crash(w) PROVE Over(s)'
  <2>1. job' = [job EXCEPT ![w] = NoSession] /\ todo' = todo
    BY <1>2 DEF CloseBrowser, Crash
  <2> QED
    BY <2>1, HostAssumption
<1>3. CASE UNCHANGED <<job, todo>>
  BY <1>3
<1> QED
  BY <1>1, <1>2, <1>3
     DEF Next, Recycle, Launch, Begin, Download, Goto, Choose, Return, Upload, Cleanup, End,
         FindJson, CopyJson, Complete, procVars

\* A rename puts nothing into the hand of a worker that has nothing there.
LEMMA RenamedFacts ==
    ASSUME FileType, NEW w \in Worker, NEW i \in DOMAIN files, NEW j \in DOMAIN files,
           Renamed(w, i, j)
    PROVE  /\ picked' \in [Worker -> Session \cup {NoSession}]
           /\ \A v \in Worker : picked[v] = NoSession => picked'[v] = NoSession
<1>0. \A f \in File : f.of \in Session /\ f.of # NoSession
  BY HostAssumption DEF File
<1>1. /\ files[i] \in File /\ files[j] \in File
      /\ \A f \in File : f.of \in Session /\ f.of # NoSession
  BY <1>0 DEF FileType
<1> QED
  BY <1>1 DEF Renamed, FileType

\* A worker's place, its proxy and the file it has in hand go together.
LEMMA IdleStep ==
    ASSUME DownloadInv, Next
    PROVE  /\ picked' \in [Worker -> Session \cup {NoSession}] /\ active' \in [Worker -> BOOLEAN]
           /\ crashes' \in 0..MaxCrashes /\ over' \in [Session -> SUBSET Session]
           /\ IdleInv' /\ OverInv'
<1>1. TypeInv /\ FileType /\ IdleInv /\ OverInv /\ SessionInv /\ ReportType
  BY DEF DownloadInv, CopyInv, HostInv
<1>2. \A s \in Session : Over(s) => Over(s)'
  BY OverStays DEF DownloadInv
<1>3. \A f \in File : f.of \in Session /\ f.of # NoSession
  BY HostAssumption DEF File
<1> USE <1>1 DEF FileType, IdleInv, TypeInv, GoTo, At
<1>4. ASSUME NEW w \in Worker, NEW s \in Session, Start(w, s)
      PROVE  /\ IdleInv' /\ OverInv' /\ over' \in [Session -> SUBSET Session]
             /\ UNCHANGED <<picked, found, active, crashes>>
  <2>1. /\ over' = [over EXCEPT ![s] = {o \in Session : Over(o)}]
        /\ pc' = [pc EXCEPT ![w] = "open"] /\ job' = [job EXCEPT ![w] = s]
        /\ pc[w] = "idle" /\ UNCHANGED <<picked, found, active, crashes>>
    BY <1>4 DEF Start
  <2>2. OverInv' /\ over' \in [Session -> SUBSET Session]
    BY <1>2, <2>1 DEF OverInv
  <2>3. IdleInv'
    BY <2>1, HostAssumption
  <2> QED
    BY <2>1, <2>2, <2>3
<1>5. CASE UNCHANGED over
  <2>1. OverInv'
    BY <1>2, <1>5 DEF OverInv
  <2>2. ASSUME NEW w \in Worker, Recycle(w) \/ Launch(w) \/ Begin(w)
        PROVE  IdleInv' /\ active' \in [Worker -> BOOLEAN] /\ UNCHANGED <<picked, found, crashes>>
    <3>1. /\ pc[w] \in {"open", "launch", "begin"}
          /\ \E to \in {"launch", "begin", "end", "work"} : pc' = [pc EXCEPT ![w] = to]
          /\ \E b \in BOOLEAN : active' = [active EXCEPT ![w] = b]
          /\ UNCHANGED <<job, picked, found, crashes>>
      <4>1. active = [active EXCEPT ![w] = active[w]] /\ active[w] \in BOOLEAN
        OBVIOUS
      <4>2. CASE Recycle(w)
        BY <4>1, <4>2 DEF Recycle
      <4>3. CASE Launch(w)
        BY <4>1, <4>3 DEF Launch
      <4>4. CASE Begin(w)
        BY <4>1, <4>4 DEF Begin
      <4> QED
        BY <2>2, <4>2, <4>3, <4>4
    <3> QED
      BY <3>1
  <2>3. ASSUME NEW w \in Worker, Download(w) \/ Goto(w)
        PROVE  IdleInv' /\ active' \in [Worker -> BOOLEAN] /\ UNCHANGED <<picked, found, crashes>>
    <3>1. /\ pc[w] = "work" /\ UNCHANGED <<pc, job, picked, found, crashes>>
          /\ active' = active \/ active' = [active EXCEPT ![w] = override[w]]
      BY <2>3 DEF Download, Goto, procVars
    <3> QED
      BY <3>1
  <2>4. ASSUME NEW w \in Worker, Choose(w)
        PROVE  /\ IdleInv' /\ picked' \in [Worker -> Session \cup {NoSession}]
               /\ UNCHANGED <<active, crashes>>
    <3>1. PICK i \in DOMAIN files : picked' = [picked EXCEPT ![w] = files[i].of]
      BY <2>4 DEF Choose
    <3>2. files[i] \in File
      OBVIOUS
    <3>3. /\ pc[w] = "work" /\ pc' = [pc EXCEPT ![w] = "stable"]
          /\ UNCHANGED <<job, found, active, crashes>>
      BY <2>4 DEF Choose
    <3> QED
      BY <1>3, <3>1, <3>2, <3>3
  <2>5. ASSUME NEW w \in Worker, Return(w) \/ Upload(w) \/ Cleanup(w)
        PROVE  /\ IdleInv' /\ picked' \in [Worker -> Session \cup {NoSession}]
               /\ UNCHANGED <<active, crashes>>
    <3>1. /\ pc[w] \in {"stable", "upload", "cleanup"}
          /\ \E to \in {"work", "upload", "cleanup"} : pc' = [pc EXCEPT ![w] = to]
          /\ pc[w] = "stable" \/ picked'[w] = NoSession
          /\ pc'[w] = "upload" \/ picked'[w] = NoSession
          /\ UNCHANGED <<job, found, active, crashes>>
      BY <2>5, RenamedFacts DEF Return, Upload, Cleanup
    <3>2. /\ picked' \in [Worker -> Session \cup {NoSession}]
          /\ \A v \in Worker : picked[v] = NoSession => picked'[v] = NoSession
      BY <2>5, RenamedFacts DEF Return, Upload, Cleanup, Named
    <3> QED
      BY <3>1, <3>2
  <2>6. ASSUME NEW w \in Worker, End(w) \/ FindJson(w) \/ CopyJson(w)
        PROVE  IdleInv' /\ UNCHANGED <<picked, active, crashes>>
    <3>1. /\ pc[w] \in {"work", "end", "find", "copy"}
          /\ UNCHANGED <<job, picked, active, crashes>>
          /\ \/ /\ \E to \in {"find", "close"} : pc' = [pc EXCEPT ![w] = to]
                /\ found' = [found EXCEPT ![w] = NoSession]
             \/ /\ pc' = [pc EXCEPT ![w] = "copy"]
                /\ \E d \in Session : found' = [found EXCEPT ![w] = d]
      <4>1. pc[w] # "copy" => found = [found EXCEPT ![w] = NoSession]
        BY DEF ReportType
      <4>2. Reports(w) \subseteq Session
        BY DEF Reports
      <4> QED
        BY <2>6, <4>1, <4>2 DEF End, FindJson, CopyJson
    <3> QED
      BY <3>1, HostAssumption DEF ReportType
  <2>7. ASSUME NEW w \in Worker, CloseBrowser(w) \/ Crash(w)
        PROVE  /\ IdleInv' /\ picked' \in [Worker -> Session \cup {NoSession}]
               /\ active' \in [Worker -> BOOLEAN] /\ crashes' \in 0..MaxCrashes
    <3>1. /\ pc' = [pc EXCEPT ![w] = "idle"] /\ job' = [job EXCEPT ![w] = NoSession]
          /\ active' = [active EXCEPT ![w] = FALSE]
          /\ \/ picked' = picked /\ pc[w] = "close"
             \/ picked' = [picked EXCEPT ![w] = NoSession]
          /\ \/ found' = found /\ pc[w] = "close"
             \/ found' = [found EXCEPT ![w] = NoSession]
          /\ crashes' = crashes \/ (crashes < MaxCrashes /\ crashes' = crashes + 1)
      <4>1. CASE CloseBrowser(w)
        BY <4>1 DEF CloseBrowser
      <4>2. CASE Crash(w)
        BY <4>2 DEF Crash
      <4> QED
        BY <2>7, <4>1, <4>2
    <3>2. IdleInv'
      BY <3>1 DEF ReportType
    <3>3. crashes' \in 0..MaxCrashes
      BY <3>1, HostAssumption
    <3> QED
      BY <3>1, <3>2, <3>3
  <2>8. ASSUME NEW i \in DOMAIN files, Complete(i)
        PROVE  IdleInv' /\ UNCHANGED <<picked, found, active, crashes>>
    BY <2>8 DEF Complete, procVars
  <2> QED
    BY <1>4, <1>5, <2>1, <2>2, <2>3, <2>4, <2>5, <2>6, <2>7, <2>8 DEF Next
<1> QED
  BY <1>4, <1>5
     DEF Next, Recycle, Launch, Begin, Download, Goto, Choose, Return, Upload, Cleanup, End,
         FindJson, CopyJson, CloseBrowser, Crash, Complete, procVars

\* The directory's two invariants over the steps that leave it, thin it out or
\* close browsers.
LEMMA DirectoryStays ==
    ASSUME FileType, WriterInv, AgeInv, UNCHANGED <<files, job, over, todo>>,
           \A w \in Worker : browser[w] # NoBrowser =>
               browser'[w] # NoBrowser /\ browser'[w].leaked = browser[w].leaked
    PROVE  WriterInv' /\ AgeInv'
<1> DEFINE f == [i \in DOMAIN files' |-> i]
<1>1. Left(f)
  BY DEF Left, Same, FileType
<1> HIDE DEF f
<1> QED
  BY <1>1, DeletionIsSafe

\* A command leaves a browser that is there, and whether it leaked.
LEMMA ServedFacts ==
    ASSUME TypeInv, NEW w \in Worker, job[w] \in Session, NEW v \in Worker,
           browser' \in {browser, [browser EXCEPT ![w] = Served(w)]}, browser[v] # NoBrowser
    PROVE  browser'[v] # NoBrowser /\ browser'[v].leaked = browser[v].leaked
  BY DEF TypeInv, Served, NoBrowser

\* A session starts: it has no file, nor have those that are over then anything
\* to do with the files of others.
LEMMA DirectoryStart ==
    ASSUME DownloadInv, NEW w \in Worker, NEW s \in Session, Start(w, s)
    PROVE  files' \in Seq(File) /\ WriterInv' /\ AgeInv'
<1> USE DEF DownloadInv, CopyInv, HostInv, TypeInv, FileType
<1>1. /\ s \in todo /\ todo' = todo \ {s} /\ pc[w] = "idle"
      /\ job' = [job EXCEPT ![w] = s]
      /\ over' = [over EXCEPT ![s] = {o \in Session : Over(o)}]
      /\ UNCHANGED <<files, browser>>
  BY DEF Start
<1>2. \A i \in DOMAIN files : files[i] \in File
  OBVIOUS
<1>3. \A i \in DOMAIN files : files[i].of \in Session /\ files[i].of # s
                              /\ files[i].by \in Worker \cup {NoWorker}
  BY <1>1, <1>2 DEF WriterInv, File
<1>4. job[w] = NoSession
  BY <1>1 DEF IdleInv
<1>5. WriterInv'
  <2>1. ASSUME NEW i \in DOMAIN files, ~files[i].complete, files[i].by # NoWorker
        PROVE  /\ browser[files[i].by] # NoBrowser
               /\ browser[files[i].by].leaked \/ job'[files[i].by] = files[i].of
    <3>1. /\ browser[files[i].by] # NoBrowser
          /\ browser[files[i].by].leaked \/ job[files[i].by] = files[i].of
      BY <2>1 DEF WriterInv
    <3>2. files[i].by = w => browser[files[i].by].leaked
      BY <1>3, <1>4, <3>1, HostAssumption
    <3> QED
      BY <1>1, <1>3, <2>1, <3>1, <3>2
  <2> QED
    BY <1>1, <2>1 DEF WriterInv
<1>6. AgeInv'
  BY <1>1, <1>3 DEF AgeInv
<1> QED
  BY <1>1, <1>5, <1>6

\* A download starts: the file is the only one of its session.
LEMMA DirectoryDownload ==
    ASSUME DownloadInv, NEW w \in Worker, Download(w)
    PROVE  files' \in Seq(File) /\ WriterInv' /\ AgeInv'
<1> USE DEF DownloadInv, CopyInv, HostInv, TypeInv, FileType
<1>0. PICK e \in Ext :
         files' = Append(files, [of |-> job[w], ext |-> e, by |-> w,
                                 complete |-> FALSE, stray |-> FALSE])
  BY DEF Download
<1> DEFINE new == [of |-> job[w], ext |-> e, by |-> w, complete |-> FALSE, stray |-> FALSE]
<1>1. /\ job[w] \in Session /\ \A i \in DOMAIN files : files[i].of # job[w]
      /\ browser' = [browser EXCEPT ![w] = Served(w)]
      /\ files' = Append(files, new)
      /\ UNCHANGED <<job, todo, over>>
  BY <1>0 DEF Download, At, procVars
<1>2. new \in File /\ new.of = job[w] /\ new.by = w /\ ~new.complete
  BY <1>1 DEF File
<1> HIDE DEF new
<1>3. /\ files' \in Seq(File)
      /\ \A i \in DOMAIN files' : \/ i \in DOMAIN files /\ files'[i] = files[i]
                                  \/ i = Len(files) + 1 /\ files'[i] = new
  BY <1>1, <1>2
<1>4. \A i \in DOMAIN files : i < Len(files) + 1 /\ files[i] \in File
  OBVIOUS
<1>5. job[w] \notin todo
  BY <1>1 DEF SessionInv
<1>6. browser'[w] # NoBrowser /\ \A v \in Worker : browser[v] # NoBrowser =>
            browser'[v] # NoBrowser /\ browser'[v].leaked = browser[v].leaked
  <2>1. browser'[w] # NoBrowser
    BY <1>1 DEF Served, NoBrowser
  <2> QED
    BY <1>1, <2>1, ServedFacts
<1>7. WriterInv'
  <2>1. \A i \in DOMAIN files' : files'[i].of \notin todo'
    BY <1>1, <1>2, <1>3, <1>5 DEF WriterInv
  <2>2. \A i, j \in DOMAIN files' : i # j => files'[i].of # files'[j].of
    BY <1>1, <1>2, <1>3 DEF WriterInv
  <2>3. ASSUME NEW i \in DOMAIN files', ~files'[i].complete, files'[i].by # NoWorker
        PROVE  /\ browser'[files'[i].by] # NoBrowser
               /\ browser'[files'[i].by].leaked \/ job'[files'[i].by] = files'[i].of
    <3>1. CASE files'[i] = new
      BY <1>1, <1>2, <1>6, <3>1
    <3>2. CASE i \in DOMAIN files /\ files'[i] = files[i]
      <4>1. files[i].by \in Worker
        BY <1>4, <2>3, <3>2 DEF File
      <4> QED
        BY <1>1, <1>6, <2>3, <3>2, <4>1 DEF WriterInv
    <3> QED
      BY <1>3, <3>1, <3>2
  <2> QED
    BY <2>1, <2>2, <2>3 DEF WriterInv
<1>8. AgeInv'
  BY <1>1, <1>2, <1>3, <1>4 DEF AgeInv
<1> QED
  BY <1>3, <1>7, <1>8

\* A download is complete: its file becomes the newest, and if its session was
\* over before that of an older one started, its browser had leaked.
LEMMA DirectoryComplete ==
    ASSUME DownloadInv, NEW c \in DOMAIN files, Complete(c)
    PROVE  files' \in Seq(File) /\ WriterInv' /\ AgeInv'
<1> USE DEF DownloadInv, CopyInv, HostInv, TypeInv, FileType
<1> DEFINE new == [files[c] EXCEPT !.by = NoWorker, !.complete = TRUE,
                                   !.stray = browser[files[c].by].leaked]
           rest == RemoveAt(files, c)
           f == [k \in 1..(Len(files) - 1) |-> IF k < c THEN k ELSE k + 1]
<1>1. /\ ~files[c].complete /\ files[c].by # NoWorker
      /\ files' = Append(rest, new)
      /\ UNCHANGED <<job, todo, over, browser>>
  BY DEF Complete, procVars
<1>2. files[c] \in File /\ files[c].by \in Worker /\ c \in 1..Len(files) /\ Len(files) \in Nat
  <2>1. files[c] \in File /\ c \in 1..Len(files) /\ Len(files) \in Nat
    OBVIOUS
  <2> QED
    BY ONLY <1>1, <2>1 DEF File
<1>3. /\ new \in File /\ new.of = files[c].of /\ new.by = NoWorker /\ new.complete
      /\ new.stray = browser[files[c].by].leaked
  <2>1. browser[files[c].by].leaked \in BOOLEAN
    BY <1>2
  <2> QED
    BY <1>2, <2>1 DEF File
<1>4. /\ rest \in Seq(File) /\ Len(rest) = Len(files) - 1
      /\ \A k \in 1..(Len(files) - 1) : rest[k] = files[f[k]]
  BY <1>2, RemoveAtFacts
<1>5. \A k \in 1..(Len(files) - 1) : f[k] \in DOMAIN files /\ f[k] # c
  BY <1>2
<1>6. \A k, l \in 1..(Len(files) - 1) : (k < l => f[k] < f[l]) /\ (k # l => f[k] # f[l])
  BY <1>2
<1> HIDE DEF new, rest, f
<1>7. /\ files' \in Seq(File) /\ DOMAIN files' = 1..Len(files)
      /\ \A i \in 1..(Len(files) - 1) : files'[i] = files[f[i]]
      /\ files'[Len(files)] = new
  BY <1>1, <1>2, <1>3, <1>4
<1>8. \A i \in 1..Len(files) : i \in 1..(Len(files) - 1) \/ i = Len(files)
  BY <1>2
<1>9. \A i \in DOMAIN files : files[i] \in File
  OBVIOUS
<1>10. WriterInv'
  <2> DEFINE g(i) == IF i = Len(files) THEN c ELSE f[i]
  <2>4. \A i \in DOMAIN files' : g(i) \in DOMAIN files /\ files'[i].of = files[g(i)].of
    BY <1>3, <1>5, <1>7, <1>8
  <2>5. \A i, j \in DOMAIN files' : i # j => g(i) # g(j)
    BY <1>5, <1>6, <1>7, <1>8
  <2> HIDE DEF g
  <2>1. \A i \in DOMAIN files' : files'[i].of \notin todo'
    BY <1>1, <2>4 DEF WriterInv
  <2>2. \A i, j \in DOMAIN files' : i # j => files'[i].of # files'[j].of
    BY <2>4, <2>5 DEF WriterInv
  <2>3. ASSUME NEW i \in DOMAIN files', ~files'[i].complete, files'[i].by # NoWorker
        PROVE  /\ browser'[files'[i].by] # NoBrowser
               /\ browser'[files'[i].by].leaked \/ job'[files'[i].by] = files'[i].of
    <3>1. i \in 1..(Len(files) - 1) /\ f[i] \in DOMAIN files /\ files'[i] = files[f[i]]
      BY <1>3, <1>5, <1>7, <1>8, <2>3
    <3> QED
      BY <1>1, <2>3, <3>1 DEF WriterInv
  <2> QED
    BY <2>1, <2>2, <2>3 DEF WriterInv
<1>11. AgeInv'
  <2>1. ASSUME NEW i \in 1..(Len(files) - 1), files'[i].complete, new.of \in over[files'[i].of]
        PROVE  new.stray
    <3>1. f[i] \in DOMAIN files /\ files'[i] = files[f[i]]
      BY <1>5, <1>7
    <3>2. files'[i].of \in Session
      BY <1>9, <3>1 DEF File
    <3>3. Over(files[c].of)
      BY <1>3, <2>1, <3>2 DEF OverInv
    <3>4. job[files[c].by] # files[c].of
      BY <1>2, <3>3 DEF Over
    <3> QED
      BY <1>1, <1>2, <1>3, <3>4 DEF WriterInv
  <2>2. ASSUME NEW i \in 1..(Len(files) - 1), NEW j \in 1..(Len(files) - 1), i < j,
               files'[i].complete, files'[j].complete
        PROVE  files'[j].of \notin over[files'[i].of] \/ files'[j].stray
    BY <1>5, <1>6, <1>7, <2>2 DEF AgeInv
  <2>3. \A i, j \in 1..Len(files) : i < j => i \in 1..(Len(files) - 1)
    BY <1>2
  <2> QED
    BY <1>1, <1>7, <1>8, <2>1, <2>2, <2>3 DEF AgeInv
<1> QED
  BY <1>7, <1>10, <1>11

\* The directory over every step.
LEMMA DirectoryStep ==
    ASSUME DownloadInv, Next
    PROVE  files' \in Seq(File) /\ WriterInv' /\ AgeInv'
<1>1. TypeInv /\ FileType /\ WriterInv /\ AgeInv
  BY DEF DownloadInv, CopyInv, HostInv
<1>2. ASSUME NEW w \in Worker, Recycle(w) \/ Goto(w) \/ CloseBrowser(w) \/ Crash(w)
      PROVE  files' \in Seq(File) /\ WriterInv' /\ AgeInv'
  <2>1. UNCHANGED <<over, todo>> /\ \A v \in Worker \ {w} : job'[v] = job[v]
    BY <1>1, <1>2 DEF Recycle, Goto, CloseBrowser, Crash, TypeInv
  <2>2. CASE Closed(Worker) /\ UNCHANGED job
    BY <1>1, <2>1, <2>2, ClosingFiles
  <2>3. CASE Closed({w}) \/ Leaks({w})
    BY <1>1, <2>1, <2>3, ClosingFiles
  <2>4. CASE UNCHANGED <<browser, files, job>>
    BY <1>1, <2>1, <2>4, DirectoryStays DEF FileType
  <2> QED
    BY <1>2, <2>2, <2>3, <2>4 DEF Recycle, Goto, CloseBrowser, Crash
<1>3. ASSUME NEW w \in Worker, Launch(w)
      PROVE  files' \in Seq(File) /\ WriterInv' /\ AgeInv'
  <2>1. /\ job[w] \in Session /\ UNCHANGED <<files, job, over, todo>>
        /\ browser' \in {browser, [browser EXCEPT ![w] = Served(w)]}
    BY <1>3 DEF Launch, At
  <2>2. \A v \in Worker : browser[v] # NoBrowser =>
            browser'[v] # NoBrowser /\ browser'[v].leaked = browser[v].leaked
    BY <1>1, <2>1, ServedFacts
  <2> QED
    BY <1>1, <2>1, <2>2, DirectoryStays DEF FileType
<1>4. CASE UNCHANGED <<files, job, over, todo, browser>>
  BY <1>1, <1>4, DirectoryStays DEF FileType
<1>5. ASSUME NEW w \in Worker, Return(w) \/ Upload(w) \/ Cleanup(w)
      PROVE  files' \in Seq(File) /\ WriterInv' /\ AgeInv'
  <2>1. /\ UNCHANGED <<browser, job, over, todo>>
        /\ files' = files \/ \E i \in DOMAIN files : files' = RemoveAt(files, i)
    BY <1>5 DEF Return, Upload, Cleanup, Named
  <2>2. CASE files' # files
    <3>1. PICK f : Left(f)
      BY <1>1, <2>1, <2>2, RemovalLeaves DEF FileType
    <3>2. WriterInv' /\ AgeInv'
      BY <1>1, <2>1, <3>1, DeletionIsSafe
    <3> QED
      BY <3>1, <3>2 DEF Left
  <2> QED
    BY <1>4, <2>1, <2>2
<1> QED
  BY <1>2, <1>3, <1>4, <1>5, DirectoryStart, DirectoryDownload, DirectoryComplete
     DEF Next, Begin, Choose, End, FindJson, CopyJson

\* DownloadInv holds along every run.
LEMMA DownloadStep == DownloadInv /\ [Next]_vars => DownloadInv'
<1> SUFFICES ASSUME DownloadInv, [Next]_vars PROVE DownloadInv'
  OBVIOUS
<1>1. CopyInv'
  BY HostStep, SessionStep, ReportStep DEF DownloadInv, CopyInv
<1>2. CASE Next
  BY <1>1, <1>2, IdleStep, DirectoryStep DEF DownloadInv, FileType
<1>3. CASE UNCHANGED vars
  BY <1>1, <1>3
     DEF DownloadInv, FileType, IdleInv, OverInv, WriterInv, AgeInv, Over, vars
<1> QED
  BY <1>2, <1>3

\* Type correctness; the directory never holds more files than there are sessions,
\* and a worker that is idle has no proxy left.
THEOREM HostStaysInRange == Spec => []TypeOK
<1>1. ASSUME DownloadInv PROVE TypeOK
  <2> USE <1>1 DEF DownloadInv, CopyInv, HostInv
  <2>1. Len(files) <= Cardinality(Session)
    <3> DEFINE g == [i \in 1..Len(files) |-> files[i].of]
    <3>1. Len(files) \in Nat /\ \A i \in 1..Len(files) : files[i] \in File
      BY DEF FileType
    <3>2. g \in [1..Len(files) -> Session]
      BY <3>1 DEF File
    <3>3. \A i, j \in 1..Len(files) : g[i] = g[j] => i = j
      BY DEF WriterInv, FileType
    <3>4. g \in Injection(1..Len(files), Session)
      BY <3>2, <3>3 DEF Injection, IsInjective
    <3>5. Cardinality(1..Len(files)) <= Cardinality(Session)
      <4> HIDE DEF g
      <4>1. IsFiniteSet(Session)
        BY HostAssumption
      <4> QED
        BY <3>4, <4>1, FS_Injection
    <3>6. Cardinality(1..Len(files)) = Len(files)
      <4>1. 1 \in Int /\ Len(files) \in Int
        BY <3>1
      <4>2. Cardinality(1..Len(files)) = IF 1 > Len(files) THEN 0 ELSE Len(files) - 1 + 1
        BY <4>1, FS_Interval
      <4> QED
        BY <3>1, <4>2
    <3> QED
      BY <3>5, <3>6
  <2>2. \A w \in Worker : browser[w].used \subseteq Session
    BY DEF TypeInv
  <2>3. pc \in [Worker -> {"idle", "open", "launch", "begin", "work", "stable", "upload",
                           "cleanup", "end", "find", "copy", "close"}]
    BY DEF TypeInv, Place, Driving, Browsing
  <2> QED
    BY <2>1, <2>2, <2>3 DEF TypeOK, TypeInv, FileType, IdleInv, OverrideInv, SessionInv
<1> QED
  BY <1>1, DownloadInit, DownloadStep, PTL DEF Spec

\* With a complete file of its own that it could choose, a session chooses none that a
\* session over before its start left behind, unless a leaked browser wrote it.
THEOREM OwnDownloadIsNewer == Spec => OwnDownloadWins
<1>1. ASSUME DownloadInv, [Next]_vars
      PROVE  [\A w \in Worker :
                 /\ pc[w] = "work" /\ pc'[w] = "stable"
                 /\ \E i \in Candidates(w, 0) : files[i].of = job[w]
                 => \A k \in DOMAIN files :
                       files[k].of = picked'[w] =>
                          files[k].of \notin over[job[w]] \/ files[k].stray]_vars
  <2> USE <1>1 DEF DownloadInv, CopyInv, HostInv, TypeInv
  <2>1. SUFFICES ASSUME Next, NEW w \in Worker, pc[w] = "work", pc'[w] = "stable",
                        NEW i \in Candidates(w, 0), files[i].of = job[w],
                        NEW k \in DOMAIN files, files[k].of = picked'[w]
                 PROVE  files[k].of \notin over[job[w]] \/ files[k].stray
    OBVIOUS
  <2>2. Choose(w)
    <3>1. ASSUME NEW v \in Worker, NEW to \in Place \ {"stable"},
                 pc' = [pc EXCEPT ![v] = to]
          PROVE  FALSE
      BY <2>1, <3>1
    <3>2. ASSUME NEW v \in Worker, Choose(v) PROVE v = w
      BY <2>1, <3>2 DEF Choose, GoTo
    <3>3. pc' # pc
      BY <2>1
    <3>4. ASSUME NEW v \in Worker,
                 \/ \E s \in Session : Start(v, s)
                 \/ Recycle(v) \/ Launch(v) \/ Begin(v) \/ Download(v) \/ Goto(v)
          PROVE  FALSE
      BY <3>1, <3>3, <3>4 DEF Start, Recycle, Launch, Begin, Download, Goto, GoTo, procVars,
                              Place, Driving, Browsing
    <3>5. ASSUME NEW v \in Worker, Return(v) \/ Upload(v) \/ Cleanup(v) PROVE FALSE
      BY <3>1, <3>3, <3>5 DEF Return, Upload, Cleanup, GoTo, Place, Driving, Browsing
    <3>6. ASSUME NEW v \in Worker,
                 End(v) \/ FindJson(v) \/ CopyJson(v) \/ CloseBrowser(v) \/ Crash(v)
          PROVE  FALSE
      BY <3>1, <3>6 DEF End, FindJson, CopyJson, CloseBrowser, Crash, GoTo, Place, Driving,
                        Browsing
    <3>7. ~ \E c \in DOMAIN files : Complete(c)
      BY <3>3 DEF Complete, procVars
    <3> QED
      BY <2>1, <3>2, <3>4, <3>5, <3>6, <3>7 DEF Next
  <2>3. PICK since \in 0..Len(files), m \in DOMAIN files :
           NewestCandidate(w, since, m) /\ picked' = [picked EXCEPT ![w] = files[m].of]
    BY <2>2 DEF Choose
  <2>4. m = k
    BY <2>1, <2>3 DEF FileType, WriterInv
  \* The threshold may leave out the own file, but then only for later ones.
  <2>5. files[k].complete /\ i <= k
    <3>1. i \in Nat /\ k \in Nat /\ since \in Nat /\ files[k].complete /\ since < k
      BY <2>1, <2>3, <2>4 DEF FileType, NewestCandidate, Candidates
    <3>2. i > since => i \in Candidates(w, since)
      BY <2>1 DEF Candidates
    <3> QED
      BY <2>3, <2>4, <3>1, <3>2 DEF NewestCandidate
  <2>6. i \in DOMAIN files /\ files[i].complete /\ job[w] \in Session
    BY <2>1, <2>2 DEF Candidates, Choose, At
  <2>7. CASE i = k
    BY <2>1, <2>5, <2>6, <2>7 DEF OverInv, Over
  <2>8. CASE i < k
    BY <2>1, <2>5, <2>6, <2>8 DEF AgeInv
  <2> QED
    BY <2>5, <2>6, <2>7, <2>8 DEF FileType
<1> QED
  BY <1>1, DownloadInit, DownloadStep, PTL DEF Spec, OwnDownloadWins
=============================================================================
