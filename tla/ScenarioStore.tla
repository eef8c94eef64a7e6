--------------------------- MODULE ScenarioStore ---------------------------
(***************************************************************************)
(* The scenarios of the users: UserScenarioService over a repository, the  *)
(* seeding of the builtin one at the start of an API process, and the copy *)
(* in Redis that sessions are created from.                                *)
(*                                                                         *)
(* The repository is SQLite, where all requests of the process share one   *)
(* connection and so one transaction, or MySQL, where requests may be of   *)
(* different API processes.  A request's statements interleave with those  *)
(* of the others; only append_revision takes the lock of its process.      *)
(***************************************************************************)
EXTENDS Integers, Sequences, FiniteSets

CONSTANTS
    Request, User, Admin, Name, Yaml,
    Broken,        \* the YAML that parses but fails validation
    MaxScenarios,  \* MAX_SCENARIOS_PER_USER
    MaxRevs,       \* bound on revisions
    MaxCrashes     \* bound on crashes of API processes

ASSUME StoreAssumption ==
    /\ Admin \subseteq User /\ Broken \subseteq Yaml /\ Yaml # Broken
    /\ MaxScenarios \in Nat /\ MaxRevs \in Nat /\ MaxCrashes \in Nat

Builtin == <<"builtin", "builtin">>
Id == User \X Name \cup {Builtin}   \* _user_scenario_id
NoDef == [kind |-> "none", archived |-> FALSE, published |-> 0]
BuiltinYaml == CHOOSE y \in Yaml : y \notin Broken

VARIABLES
    repo,      \* "sqlite", or "mysql" with an API process per request
    defs,      \* scenario_definitions, as the requests read it
    revs,      \* scenario_revisions in the order of their ids, likewise
    disk,      \* both, as a crash leaves them
    tx,        \* SQLite: the connection is in a transaction
    lock,      \* the requests that hold the lock of their process
    cache,     \* the revision in Redis: -1 the builtin file's, 0 none
    pc, req,   \* where each request is, its arguments and what it has read
    crashes

vars == <<repo, defs, revs, disk, tx, lock, cache, pc, req, crashes>>
dbVars == <<defs, revs, disk, tx, lock>>

NoReq == [op |-> "none", user |-> "none", id |-> Builtin, yaml |-> BuiltinYaml,
          link |-> 0, ver |-> 0]

\* The requests that one API process serves, with p.
Peers(p) == IF repo = "mysql" THEN {p} ELSE Request

GoTo(p, at) == pc' = [pc EXCEPT ![p] = at]

\* The answer, a refusal or an error; after seeding the process serves.
Ends(p) ==
    /\ pc' = [q \in Request |->
                IF q = p \/ (req[p].op = "seed" /\ q \in Peers(p)) THEN "idle" ELSE pc[q]]
    /\ req' = [req EXCEPT ![p] = NoReq]

Stored(d, r) == [defs |-> d, revs |-> r]

Revisions(id) == {r \in DOMAIN revs : revs[r].of = id}
Versions(id) == {revs[r].version : r \in Revisions(id)}
Top(id) == IF Versions(id) = {} THEN 0
           ELSE CHOOSE v \in Versions(id) : \A u \in Versions(id) : u <= v
Latest(id) == IF Versions(id) = {} THEN 0
              ELSE CHOOSE r \in Revisions(id) : revs[r].version = Top(id)

Exists(id) == defs[id].kind # "none"
Owned(u) == {id \in Id : Exists(id) /\ id[1] = u /\ ~defs[id].archived}
-----------------------------------------------------------------------------
Init ==
    /\ repo \in {"sqlite", "mysql"}
    /\ defs = [id \in Id |-> NoDef]
    /\ revs = <<>>
    /\ disk = Stored(defs, revs)
    /\ tx = FALSE
    /\ lock = {}
    /\ cache = [id \in Id |-> 0]
    /\ pc = [p \in Request |-> "boot"]
    /\ req = [p \in Request |-> NoReq]
    /\ crashes = 0

\* A process starts: the builtin file goes to Redis if nothing is there, and to
\* the repository if count_builtin is 0.
Boot(p) ==
    /\ \A q \in Peers(p) : pc[q] = "boot"
    /\ cache' = [cache EXCEPT ![Builtin] = IF @ = 0 THEN -1 ELSE @]
    /\ IF Exists(Builtin)
       THEN /\ pc' = [q \in Request |-> IF q \in Peers(p) THEN "idle" ELSE pc[q]]
            /\ UNCHANGED req
       ELSE /\ GoTo(p, "unique")
            /\ req' = [req EXCEPT ![p] = [NoReq EXCEPT !.op = "seed"]]
    /\ UNCHANGED <<repo, dbVars, crashes>>

Asks(p, op, u, id, y) ==
    /\ pc[p] = "idle"
    /\ req' = [req EXCEPT ![p] = [NoReq EXCEPT !.op = op, !.user = u, !.id = id,
                                               !.yaml = y]]

\* create and clone are of an id of the user's.
Create(p, u, n, y) ==
    /\ Asks(p, "create", u, <<u, n>>, y)
    /\ Len(revs) < MaxRevs
    /\ GoTo(p, "count")
    /\ UNCHANGED <<repo, dbVars, cache, crashes>>

MayClone(u, id) ==
    /\ Exists(id) /\ ~defs[id].archived
    /\ defs[id].kind = "user" => id[1] = u \/ u \in Admin
    /\ Revisions(id) # {}

\* Its source is the published revision, else the latest.
Clone(p, u, n, from) ==
    LET source == IF defs[from].published # 0 THEN defs[from].published
                                              ELSE Latest(from)
    IN  /\ MayClone(u, from)
        /\ Len(revs) < MaxRevs
        /\ pc[p] = "idle"
        /\ req' = [req EXCEPT ![p] =
                     [NoReq EXCEPT !.op = "clone", !.user = u, !.id = <<u, n>>,
                                   !.yaml = revs[source].yaml]]
        /\ GoTo(p, "count")
        /\ UNCHANGED <<repo, dbVars, cache, crashes>>

MayWrite(u, id) == u \in Admin \/ id[1] = u   \* the builtin one has no owner

Update(p, u, id, y) ==
    /\ Exists(id) /\ MayWrite(u, id)
    /\ Len(revs) < MaxRevs
    /\ Asks(p, "update", u, id, y)
    /\ GoTo(p, "latest")
    /\ UNCHANGED <<repo, dbVars, cache, crashes>>

Archive(p, u, id) ==
    /\ Exists(id) /\ id # Builtin /\ MayWrite(u, id)
    /\ Asks(p, "archive", u, id, BuiltinYaml)
    /\ GoTo(p, "archive")
    /\ UNCHANGED <<repo, dbVars, cache, crashes>>

\* publish_revision: the revision must be of the scenario; whether it is valid
\* is not looked at.
Publish(p, u, r) ==
    /\ u \in Admin
    /\ pc[p] = "idle"
    /\ r \in DOMAIN revs
    /\ req' = [req EXCEPT ![p] = [NoReq EXCEPT !.op = "publish", !.user = u,
                                               !.id = revs[r].of, !.link = r]]
    /\ GoTo(p, "publish")
    /\ UNCHANGED <<repo, dbVars, cache, crashes>>

UnderQuota(p) == Cardinality(Owned(req[p].user)) < MaxScenarios

\* count_by_owner: QuotaExceeded ends the request.
Count(p) ==
    /\ pc[p] = "count"
    /\ IF UnderQuota(p) THEN GoTo(p, "unique") /\ UNCHANGED req ELSE Ends(p)
    /\ UNCHANGED <<repo, dbVars, cache, crashes>>

\* get_definition: ID_CONFLICT, or a builtin one that is already there.
Unique(p) ==
    /\ pc[p] = "unique"
    /\ IF Exists(req[p].id) THEN Ends(p) ELSE GoTo(p, "define") /\ UNCHANGED req
    /\ UNCHANGED <<repo, dbVars, cache, crashes>>

\* NO_CHANGE if the latest revision is of the same YAML.
ReadLatest(p) ==
    LET r == Latest(req[p].id)
    IN  /\ pc[p] = "latest"
        /\ IF r # 0 /\ revs[r].yaml = req[p].yaml
           THEN Ends(p)
           ELSE GoTo(p, "append") /\ req' = [req EXCEPT ![p].link = r]
        /\ UNCHANGED <<repo, dbVars, cache, crashes>>

-----------------------------------------------------------------------------
\* A statement is written at once, or with the transaction it happens to be in.
Write(d, r) ==
    /\ defs' = d
    /\ revs' = r
    /\ disk' = IF tx THEN disk ELSE Stored(d, r)

AfterCommit(p, at) ==
    CASE at = "defined"   -> "append"
      [] at = "archived"  -> "ok"
      [] at = "published" -> IF req[p].op = "seed" THEN "ok" ELSE "sync"

\* MySQL commits each statement by itself.
Autocommits(p, at) == GoTo(p, IF repo = "sqlite" THEN at ELSE AfterCommit(p, at))

\* create_definition: the primary key refuses a second one of the same id.
Define(p) ==
    LET id == req[p].id
        kind == CASE req[p].op = "create" -> "user"
                  [] req[p].op = "clone"  -> "cloned"
                  [] req[p].op = "seed"   -> "builtin"
    IN  /\ pc[p] = "define"
        /\ IF Exists(id)
           THEN Ends(p) /\ UNCHANGED <<defs, revs, disk>>
           ELSE /\ Write([defs EXCEPT ![id] = [NoDef EXCEPT !.kind = kind]], revs)
                /\ Autocommits(p, "defined")
                /\ UNCHANGED req
        /\ UNCHANGED <<repo, tx, lock, cache, crashes>>

\* archive_definition
SetArchived(p) ==
    /\ pc[p] = "archive"
    /\ Write([defs EXCEPT ![req[p].id].archived = TRUE], revs)
    /\ Autocommits(p, "archived")
    /\ UNCHANGED <<repo, tx, lock, cache, req, crashes>>

\* set_published_revision
SetPublished(p) ==
    /\ pc[p] = "publish"
    /\ Write([defs EXCEPT ![req[p].id].published = req[p].link], revs)
    /\ Autocommits(p, "published")
    /\ UNCHANGED <<repo, tx, lock, cache, req, crashes>>

\* Of the connection's transaction, whoever began it.
CommitAll == tx' = FALSE /\ disk' = Stored(defs, revs)

CommitNothing ==   \* mutant: db.commit() left out
    UNCHANGED <<disk, tx>>

DbCommit == CommitAll

Commit(p) ==
    /\ pc[p] \in {"defined", "archived", "published"}
    /\ DbCommit
    /\ GoTo(p, AfterCommit(p, pc[p]))
    /\ UNCHANGED <<repo, defs, revs, lock, cache, req, crashes>>

-----------------------------------------------------------------------------
LockFree(p) == lock \cap Peers(p) = {}

\* append_revision: BEGIN and MAX(version_no), under the lock of the process.
Begin(p) ==
    /\ pc[p] = "append"
    /\ LockFree(p)
    /\ lock' = lock \cup {p}
    /\ tx' = (repo = "sqlite")
    /\ req' = [req EXCEPT ![p].ver = Top(req[p].id) + 1]
    /\ GoTo(p, "insert")
    /\ UNCHANGED <<repo, defs, revs, disk, cache, crashes>>

Row(p) == [of |-> req[p].id, version |-> req[p].ver, yaml |-> req[p].yaml,
           ok |-> req[p].yaml \notin Broken,
           parent |-> IF req[p].op = "update" THEN req[p].link ELSE 0]

NeverTaken(p) ==   \* mutant: no UNIQUE(scenario_id, version_no)
    FALSE

Taken(p) == req[p].ver \in Versions(req[p].id)

\* Another transaction that has inserted the same version holds up a second one.
Blocked(p) ==
    \E q \in Request \ {p} :
        pc[q] = "commit" /\ req[q].id = req[p].id /\ req[q].ver = req[p].ver

\* INSERT: a version that is taken fails, with ROLLBACK.  SQLite's row is seen by
\* all at once, and is written for good if the transaction has been ended.
Insert(p) ==
    /\ pc[p] = "insert"
    /\ ~Blocked(p)
    /\ IF Taken(p)
       THEN /\ Ends(p)
            /\ lock' = lock \ {p}
            /\ UNCHANGED <<defs, revs, disk>>
       ELSE /\ IF repo = "sqlite" THEN Write(defs, Append(revs, Row(p)))
                                  ELSE UNCHANGED <<defs, revs, disk>>
            /\ GoTo(p, "commit")
            /\ UNCHANGED <<lock, req>>
    /\ UNCHANGED <<repo, tx, cache, crashes>>

\* COMMIT: without a transaction SQLite fails, and so does the ROLLBACK.
EndTx(p) ==
    /\ pc[p] = "commit"
    /\ lock' = lock \ {p}
    /\ CASE repo # "sqlite" ->
              /\ revs' = Append(revs, Row(p))
              /\ disk' = Stored(defs, revs')
              /\ GoTo(p, IF req[p].op = "seed" THEN "publish" ELSE "ok")
              /\ req' = [req EXCEPT ![p].link = IF req[p].op = "seed"
                                                THEN Len(revs') ELSE @]
              /\ UNCHANGED tx
         [] repo = "sqlite" /\ tx ->
              /\ CommitAll
              /\ GoTo(p, IF req[p].op = "seed" THEN "publish" ELSE "ok")
              /\ req' = [req EXCEPT ![p].link = IF req[p].op = "seed"
                                                THEN Len(revs) ELSE @]
              /\ UNCHANGED revs
         [] OTHER ->
              Ends(p) /\ UNCHANGED <<disk, tx, revs>>
    /\ UNCHANGED <<repo, defs, cache, crashes>>

SyncUnchecked(r) ==   \* mutant: the spec is saved without validation
    TRUE

Valid(r) == revs[r].ok

\* The route saves the revision in Redis after the service has published it; one
\* that is not valid fails the request here.
Sync(p) ==
    /\ pc[p] = "sync"
    /\ IF Valid(req[p].link)
       THEN /\ cache' = [cache EXCEPT ![req[p].id] = req[p].link]
            /\ GoTo(p, "ok")
            /\ UNCHANGED req
       ELSE Ends(p) /\ UNCHANGED cache
    /\ UNCHANGED <<repo, dbVars, crashes>>

Answer(p) ==
    /\ pc[p] = "ok"
    /\ Ends(p)
    /\ UNCHANGED <<repo, dbVars, cache, crashes>>

\* The API process of p dies with all it serves.
Crash(p) ==
    /\ crashes < MaxCrashes
    /\ pc[p] \notin {"idle", "boot"}
    /\ crashes' = crashes + 1
    /\ pc' = [q \in Request |-> IF q \in Peers(p) THEN "boot" ELSE pc[q]]
    /\ req' = [q \in Request |-> IF q \in Peers(p) THEN NoReq ELSE req[q]]
    /\ lock' = lock \ Peers(p)
    /\ tx' = FALSE
    /\ defs' = disk.defs
    /\ revs' = disk.revs
    /\ UNCHANGED <<repo, disk, cache>>

Next ==
    \E p \in Request :
        \/ Boot(p)
        \/ \E u \in User :
              \/ \E n \in Name :
                    \/ \E y \in Yaml : Create(p, u, n, y)
                    \/ \E id \in Id : Clone(p, u, n, id)
              \/ \E id \in Id :
                    \/ \E y \in Yaml : Update(p, u, id, y)
                    \/ Archive(p, u, id)
              \/ \E r \in DOMAIN revs : Publish(p, u, r)
        \/ Count(p) \/ Unique(p) \/ ReadLatest(p)
        \/ Define(p) \/ SetArchived(p) \/ SetPublished(p) \/ Commit(p)
        \/ Begin(p) \/ Insert(p) \/ EndTx(p)
        \/ Sync(p) \/ Answer(p) \/ Crash(p)

Spec == Init /\ [][Next]_vars
-----------------------------------------------------------------------------
\* The ranges of the variables; a transaction is open only under the lock.
TypeOK ==
    /\ defs \in [Id -> [kind : {"none", "user", "cloned", "builtin"},
                        archived : BOOLEAN, published : 0..Len(revs)]]
    /\ \A r \in DOMAIN revs : revs[r].of \in Id /\ revs[r].yaml \in Yaml
    /\ tx => lock # {}
    /\ lock \subseteq Request
    /\ \A id \in Id : cache[id] \in -1..Len(revs)

\* "version_no = max+1", "2 request đồng thời phải tuần tự": the revisions of a
\* scenario are numbered 1, 2, ... without a gap or a double, also with several
\* API processes whose locks know nothing of each other, and a parent is an
\* earlier revision of the same scenario.
VersionsAreDense ==
    \A id \in Id :
        /\ Versions(id) = 1..Cardinality(Revisions(id))
        /\ \A r \in Revisions(id) : revs[r].parent # 0 =>
              /\ revs[revs[r].parent].of = id
              /\ revs[revs[r].parent].version < revs[r].version

\* What a request was told is done survives a crash of the process, whichever
\* transaction of whom its statements ended up in.
ToldIsDurable ==
    \A p \in Request : pc[p] = "ok" =>
        CASE req[p].op \in {"create", "clone", "update"} ->
                /\ disk.defs[req[p].id].kind # "none"
                /\ \E r \in DOMAIN disk.revs : disk.revs[r] = Row(p)
          [] req[p].op = "archive" -> disk.defs[req[p].id].archived
          [] OTHER -> TRUE

\* Sessions are created from a revision that passed validation, of the scenario
\* they name, and that a crash does not take back.
CacheIsDurable ==
    \A id \in Id : cache[id] > 0 =>
        /\ cache[id] \in DOMAIN disk.revs
        /\ disk.revs[cache[id]].of = id /\ disk.revs[cache[id]].ok

\* sqlite_scenario_repo.py: "Dùng asyncio.Lock để serialize BEGIN...COMMIT
\* cross-coroutine (aiosqlite single-conn không atomic nếu không lock)": a
\* transaction that fails to commit has saved nothing.
FailedIsUnsaved ==
    [][\A p \in Request : pc[p] = "commit" /\ pc'[p] = "idle" =>
          \A r \in DOMAIN disk'.revs : disk'.revs[r] # Row(p)]_vars
=============================================================================
