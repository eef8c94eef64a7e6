----------------------------- MODULE WorkerHost -----------------------------
(***************************************************************************)
(* What the worker processes of one host (start_worker.sh N) share and     *)
(* leave behind from session to session: a Chromium per worker id, which   *)
(* outlives the process, the adapter's settings in the process, the        *)
(* downloads directory and the run directories of the host.                *)
(*                                                                         *)
(* A session has at most one file there.  The files are in the order of    *)
(* their mtime; one that is not complete has no mtime that counts.  A path  *)
(* is named by the session whose file is there.                            *)
(***************************************************************************)
EXTENDS Integers, Sequences, SequencesExt, FiniteSets

CONSTANTS
    Worker, Session,
    Proxied,       \* the sessions whose scenario has a proxy
    Ext,           \* the extensions of files
    Asked,         \* those that a session's upload_download asks for, {}: any
    MaxCrashes     \* bound on crashes of worker processes

NoSession == "no session"
NoWorker == "no worker"

ASSUME HostAssumption ==
    /\ IsFiniteSet(Session) /\ NoSession \notin Session
    /\ Proxied \subseteq Session
    /\ Asked \in [Session -> SUBSET Ext]
    /\ MaxCrashes \in Nat

NoBrowser == [proxy |-> FALSE, used |-> {}, leaked |-> FALSE]
VARIABLES
    pc,         \* where each worker process is
    job,        \* its session
    override,   \* _PROXY_OVERRIDE is set
    active,     \* _ACTIVE_PROXY is set
    browser,    \* the Chromium of the worker id: its proxy, the sessions it
                \* has served, and whether a close failed or its worker died
    files,      \* the downloads directory, oldest first
    picked,     \* the path upload_download has chosen, NoSession: none, or
                \* there is no file there any more
    todo,       \* the sessions not yet started
    over,       \* for each session, the sessions that were over at its start
    dir,        \* its run directory, by the session that made it
    json,       \* whose session.json is in a run directory
    found,      \* the run directory whose session.json a worker is to copy
    copied,     \* whose session.json was uploaded for a session
    crashes

vars == <<pc, job, override, active, browser, files, picked, todo, over, dir, json,
          found, copied, crashes>>

procVars == <<pc, job, override, active, picked, found>>
diskVars == <<dir, json, copied>>

At(w, at) == pc[w] = at /\ job[w] \in Session
GoTo(w, at) == pc' = [pc EXCEPT ![w] = at]

-----------------------------------------------------------------------------
Init ==
    /\ pc = [w \in Worker |-> "idle"]
    /\ job = [w \in Worker |-> NoSession]
    /\ override = [w \in Worker |-> FALSE]
    /\ active = [w \in Worker |-> FALSE]
    /\ browser = [w \in Worker |-> NoBrowser]
    /\ files = <<>>
    /\ picked = [w \in Worker |-> NoSession]
    /\ todo = Session
    /\ over = [s \in Session |-> {}]
    /\ dir = [s \in Session |-> NoSession]
    /\ json = [s \in Session |-> NoSession]
    /\ found = [w \in Worker |-> NoSession]
    /\ copied = [s \in Session |-> NoSession]
    /\ crashes = 0

\* A session that no worker has any more; its browser may have leaked.
Over(s) == s \notin todo /\ \A w \in Worker : job[w] # s

\* set_proxy, if the scenario has one.
Start(w, s) ==
    /\ pc[w] = "idle"
    /\ s \in todo
    /\ todo' = todo \ {s}
    /\ job' = [job EXCEPT ![w] = s]
    /\ over' = [over EXCEPT ![s] = {o \in Session : Over(o)}]
    /\ override' = [override EXCEPT ![w] = @ \/ s \in Proxied]
    /\ GoTo(w, "open")
    /\ UNCHANGED <<active, browser, files, picked, found, diskVars, crashes>>

\* The browsers of W are closed: what they were downloading stays incomplete.
Closed(W) ==
    /\ browser' = [w \in Worker |-> IF w \in W THEN NoBrowser ELSE browser[w]]
    /\ files' = [i \in DOMAIN files |->
                   IF files[i].by \in W THEN [files[i] EXCEPT !.by = NoWorker]
                                        ELSE files[i]]

Leaks(W) ==
    /\ browser' = [w \in Worker |->
                     IF w \in W /\ browser[w] # NoBrowser
                     THEN [browser[w] EXCEPT !.leaked = TRUE] ELSE browser[w]]
    /\ UNCHANGED files

\* open_url closes the browsers of the host (close --all) when the proxy of its
\* own is not the one wanted.
Recycle(w) ==
    /\ At(w, "open")
    /\ IF active[w] # override[w]
       THEN Closed(Worker) \/ Leaks({w})
       ELSE UNCHANGED <<browser, files>>
    /\ active' = [active EXCEPT ![w] = @ /\ override[w]]
    /\ GoTo(w, "launch")
    /\ UNCHANGED <<job, override, picked, found, todo, over, diskVars, crashes>>

\* A command goes to the browser of the worker id, which is launched if there
\* is none, with the proxy of the environment then.
Served(w) ==
    IF browser[w] = NoBrowser
    THEN [proxy |-> override[w], used |-> {job[w]}, leaked |-> FALSE]
    ELSE [browser[w] EXCEPT !.used = @ \cup {job[w]}]

\* open; a failed one may have launched the browser, and ends an agent.
Launch(w) ==
    /\ At(w, "launch")
    /\ \/ /\ browser' = [browser EXCEPT ![w] = Served(w)]
          /\ active' = [active EXCEPT ![w] = override[w]]
          /\ GoTo(w, "begin")
       \/ /\ browser' \in {browser, [browser EXCEPT ![w] = Served(w)]}
          /\ \E next \in {"begin", "end"} : GoTo(w, next)
          /\ UNCHANGED active
    /\ UNCHANGED <<job, override, files, picked, found, todo, over, diskVars, crashes>>

\* The run directory is named by the second: two sessions may get the same.
Begin(w) ==
    /\ At(w, "begin")
    /\ \E d \in {job[w]} \cup ({dir[job[v]] : v \in {v \in Worker : job[v] # NoSession}}
                               \ {NoSession}) :
          dir' = [dir EXCEPT ![job[w]] = d]
    /\ GoTo(w, "work")
    /\ UNCHANGED <<job, override, active, browser, files, picked, found, todo, over,
                   json, copied, crashes>>

\* A click that starts a download, also when the browser was closed meanwhile.
Download(w) ==
    /\ At(w, "work")
    /\ \A i \in DOMAIN files : files[i].of # job[w]
    /\ browser' = [browser EXCEPT ![w] = Served(w)]
    /\ \E e \in Ext :
          files' = Append(files, [of |-> job[w], ext |-> e, by |-> w,
                                  complete |-> FALSE, stray |-> FALSE])
    /\ UNCHANGED <<procVars, todo, over, diskVars, crashes>>

\* goto opens a url like the start of the session.
Goto(w) ==
    /\ At(w, "work")
    /\ active[w] # override[w]
    /\ Closed(Worker) \/ Leaks({w})
    /\ active' = [active EXCEPT ![w] = override[w]]
    /\ UNCHANGED <<pc, job, override, picked, found, todo, over, diskVars, crashes>>

\* A browser finishes a download: the file becomes the newest.  One that should
\* have been closed leaves a stray file.
Complete(i) ==
    /\ ~files[i].complete
    /\ files[i].by # NoWorker
    /\ files' = Append(RemoveAt(files, i),
                       [files[i] EXCEPT !.by = NoWorker, !.complete = TRUE,
                                        !.stray = browser[files[i].by].leaked])
    /\ UNCHANGED <<procVars, browser, todo, over, diskVars, crashes>>

\* The complete files with an extension that the step asks for, and with an mtime
\* after since: 300 s before the action was called.
Candidates(w, since) ==
    {i \in DOMAIN files :
        /\ i > since /\ files[i].complete
        /\ Asked[job[w]] = {} \/ files[i].ext \in Asked[job[w]]}

OldestCandidate(w, since, i) ==   \* mutant: the first match of the directory
    i \in Candidates(w, since) /\ \A j \in Candidates(w, since) : j >= i

\* _pick_candidate: the newest of them.
NewestCandidate(w, since, i) ==
    i \in Candidates(w, since) /\ \A j \in Candidates(w, since) : j <= i

\* _wait_for_new_file has a candidate, whose size _is_stable now looks at twice.
Choose(w) ==
    /\ At(w, "work")
    /\ \E since \in 0..Len(files) : \E i \in DOMAIN files :
          NewestCandidate(w, since, i) /\ picked' = [picked EXCEPT ![w] = files[i].of]
    /\ GoTo(w, "stable")
    /\ UNCHANGED <<job, override, active, browser, files, found, todo, over, diskVars,
                   crashes>>

\* What is at the path that w has chosen.
Named(w) == {i \in DOMAIN files : files[i].complete /\ files[i].of = picked[w]}

\* File i goes to a path of its own, where nothing was, or file j, which is lost.
\* A worker that has chosen i's old path finds nothing there any more.
Renamed(w, i, j) ==
    picked' = [v \in Worker |->
                 IF v # w /\ picked[v] = files[i].of THEN NoSession
                 ELSE IF picked[v] = files[j].of THEN files[i].of ELSE picked[v]]

\* A second later its size is the same, and _sanitize_download_name may rename the
\* file, which replaces one of the same name; or it is gone, empty or growing, and
\* the poll goes on or times out.
Return(w) ==
    /\ At(w, "stable")
    /\ \/ /\ \E i \in Named(w) :
                \/ UNCHANGED <<files, picked>>
                \/ UNCHANGED files /\ Renamed(w, i, i)
                \/ \E j \in DOMAIN files \ {i} :
                      /\ files[j].complete /\ files[j].ext = files[i].ext
                      /\ files' = RemoveAt(files, j)
                      /\ Renamed(w, i, j)
          /\ GoTo(w, "upload")
       \/ /\ picked' = [picked EXCEPT ![w] = NoSession]
          /\ GoTo(w, "work")
          /\ UNCHANGED files
    /\ UNCHANGED <<job, override, active, browser, found, todo, over, diskVars, crashes>>

\* The upload, and the local file is deleted if it can be; another worker may
\* have done so, and then the upload fails.
Upload(w) ==
    /\ At(w, "upload")
    /\ picked' = [picked EXCEPT ![w] = NoSession]
    /\ \/ /\ \E i \in Named(w) : files' \in {files, RemoveAt(files, i)}
          /\ GoTo(w, "cleanup")
       \/ GoTo(w, "work") /\ UNCHANGED files
    /\ UNCHANGED <<job, override, active, browser, found, todo, over, diskVars, crashes>>

\* _cleanup_stale_files: one complete file after the other with an extension that was
\* asked for, but those that cannot be deleted.
Cleanup(w) ==
    /\ At(w, "cleanup")
    /\ \/ /\ \E i \in DOMAIN files :
                /\ files[i].complete /\ files[i].ext \in Asked[job[w]]
                /\ files' = RemoveAt(files, i)
          /\ UNCHANGED pc
       \/ GoTo(w, "work") /\ UNCHANGED files
    /\ UNCHANGED <<job, override, active, browser, picked, found, todo, over, diskVars,
                   crashes>>

KeepProxy(w) ==   \* mutant: the proxy is not reset at the end
    UNCHANGED override

ResetProxy(w) == override' = [override EXCEPT ![w] = FALSE]

\* The generator ends or is closed: its session.json (a flow's) and reset_proxy.
End(w) ==
    /\ pc[w] \in {"work", "end"} /\ job[w] \in Session
    /\ \/ /\ dir[job[w]] # NoSession
          /\ json' = [json EXCEPT ![dir[job[w]]] = job[w]]
          /\ GoTo(w, "find")
       \/ GoTo(w, "close") /\ UNCHANGED json   \* none to find
    /\ ResetProxy(w)
    /\ UNCHANGED <<job, active, browser, files, picked, found, todo, over, dir, copied,
                   crashes>>

NewestReport(w) ==   \* mutant: the newest session.json is taken as it is
    {d \in Session : json[d] # NoSession}

\* The run directories whose session.json names this session.
Reports(w) == {d \in Session : json[d] = job[w]}

\* Reads the newest session.json files until one matches; there may be none, and the
\* persisting before it may have failed.
FindJson(w) ==
    /\ At(w, "find")
    /\ \/ \E d \in Reports(w) : found' = [found EXCEPT ![w] = d] /\ GoTo(w, "copy")
       \/ GoTo(w, "close") /\ UNCHANGED found
    /\ UNCHANGED <<job, override, active, browser, files, picked, todo, over, diskVars,
                   crashes>>

\* The file is read again for the copy, which is uploaded; any error is swallowed.
CopyJson(w) ==
    /\ At(w, "copy")
    /\ \/ copied' = [copied EXCEPT ![job[w]] = json[found[w]]]
       \/ UNCHANGED copied
    /\ found' = [found EXCEPT ![w] = NoSession]
    /\ GoTo(w, "close")
    /\ UNCHANGED <<job, override, active, browser, files, picked, todo, over, dir,
                   json, crashes>>

CloseSkipped(w) ==   \* mutant: the browser is kept for the next session
    /\ At(w, "close")
    /\ job' = [job EXCEPT ![w] = NoSession]
    /\ GoTo(w, "idle")
    /\ UNCHANGED <<override, active, browser, files, picked, found, todo, over, diskVars,
                   crashes>>

\* close_browser, which forgets the proxy even if the close fails.
CloseBrowser(w) ==
    /\ At(w, "close")
    /\ Closed({w}) \/ Leaks({w})
    /\ active' = [active EXCEPT ![w] = FALSE]
    /\ job' = [job EXCEPT ![w] = NoSession]
    /\ GoTo(w, "idle")
    /\ UNCHANGED <<override, picked, found, todo, over, diskVars, crashes>>

\* The process dies, its browser does not; the manager starts it again.
Crash(w) ==
    /\ job[w] \in Session
    /\ crashes < MaxCrashes
    /\ crashes' = crashes + 1
    /\ job' = [job EXCEPT ![w] = NoSession]
    /\ override' = [override EXCEPT ![w] = FALSE]
    /\ active' = [active EXCEPT ![w] = FALSE]
    /\ picked' = [picked EXCEPT ![w] = NoSession]
    /\ found' = [found EXCEPT ![w] = NoSession]
    /\ Leaks({w})
    /\ GoTo(w, "idle")
    /\ UNCHANGED <<todo, over, diskVars>>

Next ==
    \/ \E w \in Worker :
          \/ \E s \in Session : Start(w, s)
          \/ Recycle(w) \/ Launch(w) \/ Begin(w) \/ Download(w) \/ Goto(w)
          \/ Choose(w) \/ Return(w) \/ Upload(w) \/ Cleanup(w) \/ End(w)
          \/ FindJson(w) \/ CopyJson(w) \/ CloseBrowser(w) \/ Crash(w)
    \/ \E i \in DOMAIN files : Complete(i)

Spec == Init /\ [][Next]_vars
-----------------------------------------------------------------------------
\* The ranges of the variables.
TypeOK ==
    /\ pc \in [Worker -> {"idle", "open", "launch", "begin", "work", "stable", "upload",
                          "cleanup", "end", "find", "copy", "close"}]
    /\ job \in [Worker -> Session \cup {NoSession}]
    /\ override \in [Worker -> BOOLEAN] /\ active \in [Worker -> BOOLEAN]
    /\ \A w \in Worker : browser[w].used \subseteq Session
    /\ Len(files) <= Cardinality(Session)
    /\ \A w \in Worker : picked[w] # NoSession => pc[w] \in {"stable", "upload"}
    /\ \A w \in Worker : found[w] # NoSession <=> pc[w] = "copy"
    /\ \A w \in Worker : pc[w] = "idle" => ~override[w] /\ ~active[w]
    /\ todo \subseteq Session
    /\ crashes \in 0..MaxCrashes

\* While a session works, the browser it works in has its scenario's proxy,
\* whatever the sessions before it and the other workers' recycling did, except
\* after a close that failed or a crash.
ProxyIsOwn ==
    \A w \in Worker :
        At(w, "work") /\ browser[w] # NoBrowser =>
            browser[w].leaked \/ browser[w].proxy = (job[w] \in Proxied)

\* "clear cookies/SSO state": no session works in a browser that another one
\* has used, with the same exception.
NoForeignState ==
    \A w \in Worker :
        At(w, "work") => browser[w].leaked \/ browser[w].used \subseteq {job[w]}

\* With a complete file of its own that has an extension it asks for, a session never
\* chooses one left over by a session that was over before it started, unless a leaked
\* browser wrote it.  Another worker may still replace the chosen file by another one
\* before it is uploaded.
OwnDownloadWins ==
    [][\A w \in Worker :
          /\ pc[w] = "work" /\ pc'[w] = "stable"
          /\ \E i \in Candidates(w, 0) : files[i].of = job[w]
          => \A k \in DOMAIN files :
                files[k].of = picked'[w] => files[k].of \notin over[job[w]] \/ files[k].stray]_vars

\* If a report is published as a session's, it is that session's own, unless another
\* session has the same run directory and wrote over it, be it between the match and
\* the copy.
PublishedIsOwn ==
    \A s \in Session :
        \/ copied[s] \in {NoSession, s}
        \/ \E o \in Session \ {s} : dir[o] = dir[s]
=============================================================================
