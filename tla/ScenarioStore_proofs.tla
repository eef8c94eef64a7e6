------------------------ MODULE ScenarioStore_proofs ------------------------
(***************************************************************************)
(* The scenarios of any number of users, requests, API processes, crashes  *)
(* and revisions, on SQLite and on MySQL: the versions have no gap and no  *)
(* double, what a request was told is done is on disk, and Redis holds     *)
(* only valid revisions that a crash does not take back.                   *)
(***************************************************************************)
EXTENDS ScenarioStore, FiniteSetTheorems, TLAPS

Rev   == [of : Id, version : Nat, yaml : Yaml, ok : BOOLEAN, parent : Nat]
Def   == [kind : {"none", "user", "cloned", "builtin"}, archived : BOOLEAN,
          published : Nat]
Op    == {"none", "create", "clone", "update", "archive", "publish", "seed"}
Req   == [op : Op, user : User \cup {"none"}, id : Id, yaml : Yaml, link : Nat,
          ver : Nat]
Place == {"boot", "idle", "count", "unique", "define", "defined", "latest",
          "append", "insert", "commit", "archive", "archived", "publish",
          "published", "sync", "ok"}

RowsOf(R, id) == {r \in DOMAIN R : R[r].of = id}
Size(R, id) == Cardinality(RowsOf(R, id))

Dense(R) ==
    \A id \in Id :
        /\ {R[r].version : r \in RowsOf(R, id)} = 1..Size(R, id)
        /\ \A r \in RowsOf(R, id) : R[r].parent # 0 =>
              /\ R[r].parent \in RowsOf(R, id)
              /\ R[R[r].parent].version < R[r].version

\* R has what T has, and D what E has.
Extends(R, T) == Len(T) <= Len(R) /\ \A r \in 1..Len(T) : R[r] = T[r]
Keeps(D, E) == \A id \in Id : /\ E[id].kind # "none" => D[id].kind # "none"
                              /\ E[id].archived => D[id].archived

Sound(D, R) ==
    /\ D \in [Id -> Def] /\ R \in Seq(Rev) /\ Dense(R)
    /\ \A id \in Id : /\ D[id].archived => D[id].kind # "none"
                      /\ D[id].published # 0 => D[id].published \in DOMAIN R

-----------------------------------------------------------------------------
\* The rows of a scenario are finitely many.
LEMMA RowsFinite ==
    ASSUME NEW R \in Seq(Rev), NEW id
    PROVE  IsFiniteSet(RowsOf(R, id)) /\ Size(R, id) \in Nat
<1>1. DOMAIN R = 1..Len(R) /\ Len(R) \in Nat
  OBVIOUS
<1>2. IsFiniteSet(1..Len(R))
  BY <1>1, FS_Interval
<1>3. RowsOf(R, id) \in SUBSET (1..Len(R))
  BY <1>1 DEF RowsOf
<1> QED
  BY <1>2, <1>3, FS_Subset, FS_CardinalityType DEF Size

\* No row is taken back: there are as many as there were, or more.
LEMMA SizeGrows ==
    ASSUME NEW R \in Seq(Rev), NEW T \in Seq(Rev), Extends(R, T), NEW id
    PROVE  /\ RowsOf(T, id) \in SUBSET RowsOf(R, id)
           /\ Size(T, id) <= Size(R, id)
<1>1. RowsOf(T, id) \in SUBSET RowsOf(R, id)
  BY DEF RowsOf, Extends
<1>2. IsFiniteSet(RowsOf(R, id))
  BY RowsFinite
<1> QED
  BY <1>1, <1>2, FS_Subset DEF Size

\* The next version of a scenario, with a parent of its own, keeps them dense.
LEMMA DenseAppend ==
    ASSUME NEW R \in Seq(Rev), Dense(R), NEW row \in Rev,
           row.version = Size(R, row.of) + 1,
           row.parent # 0 => row.parent \in RowsOf(R, row.of)
    PROVE  /\ Append(R, row) \in Seq(Rev) /\ Dense(Append(R, row))
           /\ Extends(Append(R, row), R) /\ Append(R, row)[Len(R) + 1] = row
           /\ Len(Append(R, row)) = Len(R) + 1
           /\ \A id \in Id : id # row.of => RowsOf(Append(R, row), id) = RowsOf(R, id)
<1> DEFINE A == Append(R, row)
           n == Len(R) + 1
<1>1. /\ A \in Seq(Rev) /\ Len(A) = n /\ A[n] = row /\ Len(R) \in Nat
      /\ \A r \in 1..Len(R) : A[r] = R[r]
      /\ DOMAIN A = 1..n /\ DOMAIN R = 1..Len(R)
  OBVIOUS
<1> HIDE DEF A
<1>2. Extends(A, R)
  BY <1>1 DEF Extends
<1>3. \A id \in Id : id # row.of => RowsOf(A, id) = RowsOf(R, id)
  BY <1>1 DEF RowsOf
<1>4. RowsOf(A, row.of) = RowsOf(R, row.of) \cup {n} /\ n \notin RowsOf(R, row.of)
  BY <1>1 DEF RowsOf
<1>5. Size(A, row.of) = Size(R, row.of) + 1 /\ Size(R, row.of) \in Nat
  <2>1. IsFiniteSet(RowsOf(R, row.of)) /\ Size(R, row.of) \in Nat
    BY RowsFinite
  <2>2. Cardinality(RowsOf(R, row.of) \cup {n}) = Cardinality(RowsOf(R, row.of)) + 1
    BY <1>4, <2>1, FS_AddElement
  <2> QED
    BY <1>4, <2>1, <2>2 DEF Size
<1>6. ASSUME NEW id \in Id
      PROVE  /\ {A[r].version : r \in RowsOf(A, id)} = 1..Size(A, id)
             /\ \A r \in RowsOf(A, id) : A[r].parent # 0 =>
                   /\ A[r].parent \in RowsOf(A, id)
                   /\ A[A[r].parent].version < A[r].version
  <2>1. /\ {R[r].version : r \in RowsOf(R, id)} = 1..Size(R, id)
        /\ \A r \in RowsOf(R, id) : R[r].parent # 0 =>
              /\ R[r].parent \in RowsOf(R, id)
              /\ R[R[r].parent].version < R[r].version
    BY DEF Dense
  <2>2. \A r \in RowsOf(R, id) : A[r] = R[r]
    BY <1>1 DEF RowsOf
  <2>3. CASE id # row.of
    BY <1>3, <2>1, <2>2, <2>3 DEF Size
  <2>4. CASE id = row.of
    <3>1. {A[r].version : r \in RowsOf(A, id)} =
             {R[r].version : r \in RowsOf(R, id)} \cup {row.version}
      BY <1>1, <1>4, <2>2, <2>4
    <3>2. {A[r].version : r \in RowsOf(A, id)} = 1..Size(A, id)
      <4>1. /\ {R[r].version : r \in RowsOf(R, id)} = 1..Size(R, id)
            /\ row.version = Size(R, id) + 1 /\ Size(A, id) = Size(R, id) + 1
            /\ Size(R, id) \in Nat
        BY <1>5, <2>1, <2>4
      <4>2. \A m \in Nat : (1..m) \cup {m + 1} = 1..(m + 1)
        OBVIOUS
      <4> QED
        BY <3>1, <4>1, <4>2
    <3>3. \A r \in RowsOf(R, id) : R[r].version \in 1..Size(R, id)
      BY <2>1
    <3>4. row.parent # 0 => /\ row.parent \in RowsOf(A, id)
                            /\ A[row.parent].version < row.version
      BY <1>4, <1>5, <2>2, <2>4, <3>3
    <3>5. \A r \in RowsOf(R, id) : A[r].parent # 0 =>
             A[r].parent \in RowsOf(A, id) /\ A[A[r].parent].version < A[r].version
      BY <1>4, <2>1, <2>2, <2>4
    <3> QED
      BY <1>1, <1>4, <2>4, <3>2, <3>4, <3>5
  <2> QED
    BY <2>3, <2>4
<1>7. Dense(A)
  BY <1>6 DEF Dense
<1> QED
  BY <1>1, <1>2, <1>3, <1>7 DEF A

\* Of dense rows MAX(version_no) is their number, and the latest is one of them.
LEMMA TopOfDense ==
    ASSUME revs \in Seq(Rev), Dense(revs), NEW id \in Id
    PROVE  /\ Top(id) = Size(revs, id) /\ Size(revs, id) \in Nat
           /\ Latest(id) = 0 \/ Latest(id) \in RowsOf(revs, id)
           /\ Revisions(id) # {} => Latest(id) \in RowsOf(revs, id)
           /\ Revisions(id) = RowsOf(revs, id)
<1> DEFINE n == Size(revs, id)
<1>1. Revisions(id) = RowsOf(revs, id) /\ n \in Nat
  BY RowsFinite DEF Revisions, RowsOf
<1>2. Versions(id) = 1..n
  BY <1>1 DEF Versions, Dense
<1> HIDE DEF n
<1>3. Top(id) = n
  <2>1. CASE n = 0
    BY <1>2, <2>1 DEF Top
  <2>2. CASE n # 0
    <3>1. n \in Versions(id) /\ \A u \in Versions(id) : u <= n
      BY <1>1, <1>2, <2>2
    <3>2. \A v \in Versions(id) : (\A u \in Versions(id) : u <= v) => v = n
      BY <1>1, <1>2, <3>1
    <3> QED
      BY <3>1, <3>2 DEF Top
  <2> QED
    BY <2>1, <2>2
<1>4. Versions(id) # {} => Latest(id) \in Revisions(id)
  <2> HAVE Versions(id) # {}
  <2>1. n \in Versions(id)
    BY <1>1, <1>2
  <2>2. \E r \in Revisions(id) : revs[r].version = Top(id)
    BY <1>3, <2>1 DEF Versions
  <2> QED
    BY <2>2 DEF Latest
<1>5. Versions(id) = {} <=> Revisions(id) = {}
  BY DEF Versions
<1>6. Versions(id) = {} => Latest(id) = 0
  BY DEF Latest
<1> QED
  BY <1>1, <1>3, <1>4, <1>5, <1>6 DEF n

-----------------------------------------------------------------------------
(* The inductive invariant.  The disk has an earlier state of what the      *)
(* requests read, the same one unless SQLite's transaction is open.  A      *)
(* request finds what it has checked still there, since nothing is deleted; *)
(* only a version may have been taken meanwhile, and then the INSERT fails. *)

DbInv ==
    /\ repo \in {"sqlite", "mysql"} /\ tx \in BOOLEAN /\ (tx => repo = "sqlite")
    /\ disk = [defs |-> disk.defs, revs |-> disk.revs]
    /\ Sound(defs, revs) /\ Sound(disk.defs, disk.revs)
    /\ Extends(revs, disk.revs) /\ Keeps(defs, disk.defs)
    /\ ~tx => disk.defs = defs /\ disk.revs = revs

CacheInv == cache \in [Id -> Int] /\ CacheIsDurable

\* What a request does where.
PlaceInv(p) ==
    /\ req[p].op = "none" <=> pc[p] \in {"boot", "idle"}
    /\ pc[p] = "define" => req[p].op \in {"create", "clone", "seed"}
    /\ req[p].op \in {"create", "clone"} =>
          pc[p] \in {"count", "unique", "define", "defined", "append", "insert",
                     "commit", "ok"}
    /\ req[p].op = "seed" =>
          pc[p] \in {"unique", "define", "defined", "append", "insert", "commit",
                     "publish", "published", "ok"}
    /\ req[p].op = "update" => pc[p] \in {"latest", "append", "insert", "commit", "ok"}
    /\ req[p].op = "archive" => pc[p] \in {"archive", "archived", "ok"}
    /\ req[p].op = "publish" => pc[p] \in {"publish", "published", "sync", "ok"}

\* What it has checked or written.
FoundInv(p) ==
    LET q == req[p] IN
    /\ pc[p] \in {"latest", "defined", "append", "insert", "commit", "archive",
                  "archived"} => Exists(q.id)
    /\ pc[p] = "archived" => defs[q.id].archived
    /\ pc[p] \in {"append", "insert", "commit"} /\ q.op = "update" =>
          q.link = 0 \/ q.link \in RowsOf(revs, q.id)
    /\ pc[p] = "insert" => q.ver \in 1..(Size(revs, q.id) + 1)
    /\ pc[p] = "commit" /\ repo = "mysql" => q.ver = Size(revs, q.id) + 1
    /\ pc[p] = "commit" /\ repo = "sqlite" => \E r \in DOMAIN revs : revs[r] = Row(p)
    /\ pc[p] \in {"publish", "published"} =>
          /\ q.link \in DOMAIN revs
          /\ q.op = "publish" => revs[q.link].of = q.id
    /\ pc[p] = "sync" => q.link \in DOMAIN disk.revs /\ disk.revs[q.link].of = q.id

Told(p) ==
    pc[p] = "ok" =>
       /\ req[p].op \in {"create", "clone", "update"} =>
             /\ disk.defs[req[p].id].kind # "none"
             /\ \E r \in DOMAIN disk.revs : disk.revs[r] = Row(p)
       /\ req[p].op = "archive" => disk.defs[req[p].id].archived

RequestInv(p) == PlaceInv(p) /\ FoundInv(p) /\ Told(p)

\* Two transactions of MySQL are never about to commit rows of one scenario; a
\* process serves when it has seeded.
PairInv ==
    /\ \A p, q \in Request : p # q /\ repo = "mysql" /\ pc[p] = "commit"
                             /\ pc[q] = "commit" => req[p].id # req[q].id
    /\ \A p \in Request : req[p].op = "seed" =>
          \A q \in Peers(p) \ {p} : pc[q] = "boot"

StoreInv ==
    /\ DbInv /\ CacheInv
    /\ pc \in [Request -> Place] /\ req \in [Request -> Req]
    /\ \A p \in Request : RequestInv(p)
    /\ PairInv

-----------------------------------------------------------------------------
(* What the statements do to the tables. *)

\* Nothing that was written is taken back.
Grown ==
    /\ repo' = repo
    /\ Extends(revs', revs) /\ Extends(disk'.revs, disk.revs)
    /\ Keeps(defs', defs) /\ Keeps(disk'.defs, disk.defs)

\* A state extends itself, and what it extends.
LEMMA Extending ==
    /\ \A R \in Seq(Rev) : Extends(R, R)
    /\ \A R, S, T \in Seq(Rev) : Extends(R, S) /\ Extends(S, T) => Extends(R, T)
    /\ \A D : Keeps(D, D)
    /\ \A C, D, E : Keeps(C, D) /\ Keeps(D, E) => Keeps(C, E)
  BY DEF Extends, Keeps

\* A statement that writes d and r.
LEMMA WriteFacts ==
    ASSUME DbInv, NEW d, NEW r, Write(d, r), Sound(d, r), Extends(r, revs),
           Keeps(d, defs), tx' = tx, repo' = repo
    PROVE  DbInv' /\ Grown /\ (~tx => disk'.defs = d /\ disk'.revs = r)
<1>1. defs' = d /\ revs' = r /\ disk' = IF tx THEN disk ELSE Stored(d, r)
  BY DEF Write
<1>2. revs \in Seq(Rev) /\ disk.revs \in Seq(Rev) /\ r \in Seq(Rev)
  BY DEF DbInv, Sound
<1>3. CASE tx
  BY <1>1, <1>2, <1>3, Extending DEF DbInv, Grown
<1>4. CASE ~tx
  <2>1. disk'.defs = d /\ disk'.revs = r /\ disk' = [defs |-> d, revs |-> r]
    BY <1>1, <1>4 DEF Stored
  <2> QED
    BY <1>1, <1>2, <1>4, <2>1, Extending DEF DbInv, Grown
<1> QED
  BY <1>3, <1>4

\* The end of the connection's transaction.
LEMMA CommitFacts ==
    ASSUME DbInv, CommitAll, UNCHANGED <<repo, defs, revs>>
    PROVE  DbInv' /\ Grown /\ disk'.defs = defs /\ disk'.revs = revs
<1>1. disk' = [defs |-> defs, revs |-> revs] /\ tx' = FALSE
  BY DEF CommitAll, Stored
<1>2. disk'.defs = defs /\ disk'.revs = revs
  BY <1>1
<1>3. revs \in Seq(Rev) /\ disk.revs \in Seq(Rev)
  BY DEF DbInv, Sound
<1> QED
  BY <1>1, <1>2, <1>3, Extending DEF DbInv, Grown

\* Statements that write nothing; BEGIN may be one.
LEMMA ReadFacts ==
    ASSUME DbInv, UNCHANGED <<repo, defs, revs, disk>>,
           tx' \in BOOLEAN, tx' => repo = "sqlite", tx => tx'
    PROVE  DbInv' /\ Grown
<1>1. revs \in Seq(Rev) /\ disk.revs \in Seq(Rev)
  BY DEF DbInv, Sound
<1> QED
  BY <1>1, Extending DEF DbInv, Grown

\* Redis is not behind the disk if nothing is taken back.
LEMMA CacheStays ==
    ASSUME CacheInv, DbInv, DbInv', Grown, cache' = cache
    PROVE  CacheInv'
<1> SUFFICES ASSUME NEW id \in Id, cache[id] > 0
             PROVE  /\ cache[id] \in DOMAIN disk'.revs
                    /\ disk'.revs[cache[id]].of = id /\ disk'.revs[cache[id]].ok
  BY DEF CacheInv, CacheIsDurable
<1>1. cache[id] \in DOMAIN disk.revs /\ disk.revs[cache[id]].of = id
      /\ disk.revs[cache[id]].ok
  BY DEF CacheInv, CacheIsDurable
<1>2. /\ disk.revs \in Seq(Rev) /\ disk'.revs \in Seq(Rev)
      /\ Extends(disk'.revs, disk.revs)
  BY DEF DbInv, Sound, Grown
<1> QED
  BY <1>1, <1>2 DEF Extends

\* A request that waits finds what it had found.
LEMMA RequestWaits ==
    ASSUME StoreInv, DbInv', Grown, NEW p \in Request, req'[p] = req[p],
           \/ pc'[p] = pc[p]
           \/ pc[p] = "boot" /\ pc'[p] = "idle",
           pc[p] = "commit" /\ repo = "mysql" =>
              RowsOf(revs', req[p].id) = RowsOf(revs, req[p].id)
    PROVE  RequestInv(p)'
<1>0. /\ PlaceInv(p) /\ FoundInv(p) /\ Told(p) /\ repo' = repo /\ DbInv
      /\ req[p] \in Req
  BY DEF StoreInv, RequestInv, Grown
<1>1. /\ revs \in Seq(Rev) /\ revs' \in Seq(Rev) /\ Extends(revs', revs)
      /\ disk.revs \in Seq(Rev) /\ disk'.revs \in Seq(Rev)
      /\ Extends(disk'.revs, disk.revs) /\ Keeps(defs', defs)
      /\ Keeps(disk'.defs, disk.defs)
  BY <1>0 DEF DbInv, Sound, Grown
<1>2. PlaceInv(p)'
  BY <1>0 DEF PlaceInv
<1>3. Row(p)' = Row(p) /\ req[p].id \in Id /\ req[p].ver \in Nat
  BY <1>0 DEF Row, Req
<1>4. \A r \in DOMAIN revs : r \in DOMAIN revs' /\ revs'[r] = revs[r]
  <2>1. /\ DOMAIN revs = 1..Len(revs) /\ DOMAIN revs' = 1..Len(revs')
        /\ Len(revs) \in Nat /\ Len(revs') \in Nat
    BY <1>1
  <2>2. Len(revs) <= Len(revs') /\ \A r \in 1..Len(revs) : revs'[r] = revs[r]
    BY <1>1 DEF Extends
  <2> QED
    BY <2>1, <2>2
<1>5. \A r \in DOMAIN disk.revs :
         r \in DOMAIN disk'.revs /\ disk'.revs[r] = disk.revs[r]
  <2> DEFINE T == disk.revs
             R == disk'.revs
  <2>1. /\ T \in Seq(Rev) /\ R \in Seq(Rev) /\ Len(T) <= Len(R)
        /\ \A r \in 1..Len(T) : R[r] = T[r]
    BY <1>1 DEF Extends
  <2> HIDE DEF T, R
  <2>2. \A r \in DOMAIN T : r \in DOMAIN R /\ R[r] = T[r]
    BY <2>1
  <2> QED
    BY <2>2 DEF T, R
<1>6. /\ Size(revs, req[p].id) \in Nat /\ Size(revs', req[p].id) \in Nat
      /\ Size(revs, req[p].id) <= Size(revs', req[p].id)
      /\ RowsOf(revs, req[p].id) \in SUBSET RowsOf(revs', req[p].id)
  BY <1>1, RowsFinite, SizeGrows
<1>7. FoundInv(p)'
  <2>1. CASE pc'[p] = pc[p]
    <3> DEFINE q == req[p]
    <3>1. req'[p] = q /\ pc'[p] = pc[p] /\ repo' = repo /\ q.id \in Id
      BY <1>0, <1>3, <2>1
    <3>2. /\ Exists(q.id) => Exists(q.id)'
          /\ defs[q.id].archived => defs'[q.id].archived
      BY <1>1, <3>1 DEF Exists, Keeps
    <3>3. /\ pc[p] \in {"latest", "defined", "append", "insert", "commit", "archive",
                        "archived"} => Exists(q.id)'
          /\ pc[p] = "archived" => defs'[q.id].archived
      BY <1>0, <3>2 DEF FoundInv
    <3>4. /\ pc[p] \in {"append", "insert", "commit"} /\ q.op = "update" =>
                q.link = 0 \/ q.link \in RowsOf(revs', q.id)
          /\ pc[p] = "insert" => q.ver \in 1..(Size(revs', q.id) + 1)
      BY <1>0, <1>3, <1>6 DEF FoundInv
    <3>5. pc[p] = "commit" /\ repo = "mysql" => q.ver = Size(revs', q.id) + 1
      BY <1>0 DEF FoundInv, Size
    <3>6. pc[p] = "commit" /\ repo = "sqlite" =>
             \E r \in DOMAIN revs' : revs'[r] = Row(p)'
      BY <1>0, <1>3, <1>4 DEF FoundInv
    <3>7. pc[p] \in {"publish", "published"} =>
             /\ q.link \in DOMAIN revs'
             /\ q.op = "publish" => revs'[q.link].of = q.id
      BY <1>0, <1>4 DEF FoundInv
    <3>8. pc[p] = "sync" =>
             q.link \in DOMAIN disk'.revs /\ disk'.revs[q.link].of = q.id
      BY <1>0, <1>5 DEF FoundInv
    <3> HIDE DEF q
    <3> QED
      BY <3>1, <3>3, <3>4, <3>5, <3>6, <3>7, <3>8 DEF FoundInv, q
  <2>2. CASE pc'[p] = "idle"
    BY <2>2 DEF FoundInv
  <2> QED
    BY <2>1, <2>2
<1>8. Told(p)'
  BY <1>0, <1>1, <1>3, <1>5 DEF Told, Keeps
<1> QED
  BY <1>2, <1>7, <1>8 DEF RequestInv

-----------------------------------------------------------------------------
(* The moves of a request. *)

\* Where p is and what it holds, after a move of its own.
Moves(p, at, r) == pc' = [pc EXCEPT ![p] = at] /\ req' = [req EXCEPT ![p] = r]

\* A move changes nobody else's place.
LEMMA MoveFacts ==
    ASSUME StoreInv, NEW p \in Request, NEW at \in Place \ {"boot"}, NEW r \in Req,
           Moves(p, at, r), pc[p] # "boot", UNCHANGED repo,
           r.op = "seed" => req[p].op = "seed",
           at = "commit" /\ repo = "mysql" =>
              \A q \in Request \ {p} : pc[q] = "commit" => req[q].id # r.id
    PROVE  /\ pc' \in [Request -> Place] /\ req' \in [Request -> Req]
           /\ pc'[p] = at /\ req'[p] = r /\ PairInv'
           /\ \A q \in Request \ {p} : pc'[q] = pc[q] /\ req'[q] = req[q]
<1>1. pc \in [Request -> Place] /\ req \in [Request -> Req] /\ PairInv
  BY DEF StoreInv
<1>2. /\ pc' \in [Request -> Place] /\ req' \in [Request -> Req]
      /\ pc'[p] = at /\ req'[p] = r
      /\ \A q \in Request \ {p} : pc'[q] = pc[q] /\ req'[q] = req[q]
  BY <1>1 DEF Moves
<1>3. \A q \in Request : Peers(q)' = Peers(q) /\ Peers(q) \in SUBSET Request
  BY DEF Peers
<1>4. ASSUME NEW q \in Request, req'[q].op = "seed", NEW s \in Peers(q)' \ {q}
      PROVE  pc'[s] = "boot"
  <2>1. s \in Request /\ s \in Peers(q) \ {q} /\ req[q].op = "seed"
    BY <1>2, <1>3, <1>4
  <2>2. pc[s] = "boot"
    BY <1>1, <2>1 DEF PairInv
  <2> QED
    BY <1>2, <2>1, <2>2
<1>5. ASSUME NEW q \in Request, NEW s \in Request, q # s, repo = "mysql",
             pc'[q] = "commit", pc'[s] = "commit"
      PROVE  req'[q].id # req'[s].id
  BY <1>1, <1>2, <1>5 DEF PairInv
<1> QED
  BY <1>2, <1>4, <1>5 DEF PairInv

\* An answer ends the request; that of seeding lets the process serve.
LEMMA EndsFacts ==
    ASSUME StoreInv, NEW p \in Request, Ends(p), pc[p] # "boot", UNCHANGED repo
    PROVE  /\ pc' \in [Request -> Place] /\ req' \in [Request -> Req]
           /\ pc'[p] = "idle" /\ req'[p] = NoReq /\ PairInv' /\ RequestInv(p)'
           /\ \A q \in Request \ {p} :
                 /\ req'[q] = req[q]
                 /\ \/ pc'[q] = pc[q]
                    \/ pc[q] = "boot" /\ pc'[q] = "idle"
<1>0. NoReq \in Req /\ NoReq.op = "none"
  <2>1. BuiltinYaml \in Yaml
    BY StoreAssumption DEF BuiltinYaml
  <2> QED
    BY <2>1 DEF NoReq, Req, Op, Id
<1>1. pc \in [Request -> Place] /\ req \in [Request -> Req] /\ PairInv
  BY DEF StoreInv
<1>2. /\ req' = [req EXCEPT ![p] = NoReq]
      /\ pc' = [q \in Request |-> IF q = p \/ (req[p].op = "seed" /\ q \in Peers(p))
                                  THEN "idle" ELSE pc[q]]
  BY DEF Ends
<1>3. /\ req' \in [Request -> Req] /\ req'[p] = NoReq /\ pc'[p] = "idle"
      /\ \A q \in Request \ {p} : req'[q] = req[q]
  BY <1>0, <1>1, <1>2
<1>4. pc' \in [Request -> Place]
  BY <1>1, <1>2 DEF Place
<1>5. \A q \in Request \ {p} : \/ pc'[q] = pc[q]
                               \/ pc[q] = "boot" /\ pc'[q] = "idle"
  BY <1>1, <1>2 DEF PairInv
<1>6. \A q \in Request : Peers(q)' = Peers(q) /\ Peers(q) \in SUBSET Request
  BY DEF Peers
<1>7. ASSUME NEW q \in Request, req'[q].op = "seed", NEW s \in Peers(q)' \ {q}
      PROVE  pc'[s] = "boot"
  <2>1. q # p /\ req[q].op = "seed" /\ s \in Peers(q) \ {q} /\ s \in Request
    BY <1>0, <1>3, <1>6, <1>7
  <2>2. pc[s] = "boot"
    BY <1>1, <2>1 DEF PairInv
  <2>3. pc[q] # "boot"
    BY <2>1 DEF StoreInv, RequestInv, PlaceInv
  <2>4. CASE req[p].op = "seed" /\ s \in Peers(p)
    <3>1. s # p
      BY <2>2
    <3>2. repo # "mysql"
      BY <2>1, <2>4, <3>1 DEF Peers
    <3>3. q \in Peers(p) \ {p}
      BY <2>1, <3>2 DEF Peers
    <3> QED
      BY <1>1, <2>3, <2>4, <3>3 DEF PairInv
  <2>5. CASE ~(req[p].op = "seed" /\ s \in Peers(p))
    BY <1>2, <2>1, <2>2, <2>5
  <2> QED
    BY <2>4, <2>5
<1>8. ASSUME NEW q \in Request, NEW s \in Request, q # s, repo = "mysql",
             pc'[q] = "commit", pc'[s] = "commit"
      PROVE  req'[q].id # req'[s].id
  <2>1. q # p /\ s # p /\ pc[q] = "commit" /\ pc[s] = "commit"
    BY <1>3, <1>5, <1>8
  <2> QED
    BY <1>1, <1>3, <1>8, <2>1 DEF PairInv
<1>9. RequestInv(p)'
  BY <1>0, <1>3 DEF RequestInv, PlaceInv, FoundInv, Told
<1> QED
  BY <1>3, <1>4, <1>5, <1>7, <1>8, <1>9 DEF PairInv

-----------------------------------------------------------------------------
(* A step of a request, of which the tables' part is known. *)

\* The request goes on.
LEMMA DbStep ==
    ASSUME StoreInv, NEW p \in Request, NEW at \in Place \ {"boot"}, NEW r \in Req,
           Moves(p, at, r), pc[p] # "boot", r.op = "seed" => req[p].op = "seed",
           at = "commit" /\ repo = "mysql" =>
              \A q \in Request \ {p} : pc[q] = "commit" => req[q].id # r.id,
           DbInv', Grown, CacheInv', RequestInv(p)',
           \A q \in Request \ {p} : pc[q] = "commit" /\ repo = "mysql" =>
              RowsOf(revs', req[q].id) = RowsOf(revs, req[q].id)
    PROVE  StoreInv'
<1>1. UNCHANGED repo
  BY DEF Grown
<1>2. /\ pc' \in [Request -> Place] /\ req' \in [Request -> Req] /\ PairInv'
      /\ \A q \in Request \ {p} : pc'[q] = pc[q] /\ req'[q] = req[q]
  BY <1>1, MoveFacts
<1>3. \A q \in Request \ {p} : RequestInv(q)'
  BY <1>2, RequestWaits
<1> QED
  BY <1>2, <1>3 DEF StoreInv

\* A step that leaves the tables and Redis alone and ends the request.
LEMMA EndStep ==
    ASSUME StoreInv, NEW p \in Request, Ends(p), pc[p] # "boot",
           UNCHANGED <<repo, defs, revs, disk, tx, cache>>
    PROVE  StoreInv'
<1>0. tx' \in BOOLEAN /\ (tx' => repo = "sqlite") /\ (tx => tx') /\ DbInv /\ CacheInv
  BY DEF StoreInv, DbInv
<1>1. DbInv' /\ Grown /\ DbInv /\ CacheInv
  BY <1>0, ReadFacts
<1>2. CacheInv'
  BY <1>1, CacheStays
<1>3. /\ pc' \in [Request -> Place] /\ req' \in [Request -> Req]
      /\ PairInv' /\ RequestInv(p)'
      /\ \A q \in Request \ {p} : /\ req'[q] = req[q]
                                  /\ \/ pc'[q] = pc[q]
                                     \/ pc[q] = "boot" /\ pc'[q] = "idle"
  BY EndsFacts
<1>4. \A q \in Request \ {p} : RequestInv(q)'
  BY <1>1, <1>3, RequestWaits
<1> QED
  BY <1>1, <1>2, <1>3, <1>4 DEF StoreInv

\* A step that leaves the tables and Redis alone and goes on.
LEMMA ReadStep ==
    ASSUME StoreInv, NEW p \in Request, NEW at \in Place \ {"boot", "commit"},
           NEW r \in Req, Moves(p, at, r), pc[p] # "boot",
           r.op = "seed" => req[p].op = "seed",
           UNCHANGED <<repo, defs, revs, disk, cache>>,
           tx' \in BOOLEAN, tx' => repo = "sqlite", tx => tx',
           RequestInv(p)'
    PROVE  StoreInv'
<1>1. DbInv' /\ Grown /\ DbInv /\ CacheInv
  BY ReadFacts DEF StoreInv
<1>2. CacheInv'
  BY <1>1, CacheStays
<1>3. /\ pc' \in [Request -> Place] /\ req' \in [Request -> Req] /\ PairInv'
      /\ \A q \in Request \ {p} : pc'[q] = pc[q] /\ req'[q] = req[q]
  BY MoveFacts
<1>4. \A q \in Request \ {p} : RequestInv(q)'
  BY <1>1, <1>3, RequestWaits
<1> QED
  BY <1>1, <1>2, <1>3, <1>4 DEF StoreInv

-----------------------------------------------------------------------------
(* The steps. *)

\* What StoreInv says of p's arguments and of the tables.
LEMMA InvFacts ==
    ASSUME StoreInv, NEW p \in Request
    PROVE  /\ pc[p] \in Place /\ req[p] \in Req /\ req[p].id \in Id
           /\ req[p].yaml \in Yaml /\ req[p].link \in Nat /\ req[p].ver \in Nat
           /\ req[p].user \in User \cup {"none"} /\ req[p].op \in Op
           /\ PlaceInv(p) /\ FoundInv(p) /\ Told(p)
           /\ defs \in [Id -> Def] /\ revs \in Seq(Rev) /\ Dense(revs)
           /\ repo \in {"sqlite", "mysql"} /\ DbInv /\ CacheInv
           /\ tx \in BOOLEAN /\ (tx => repo = "sqlite")
  BY DEF StoreInv, RequestInv, DbInv, Sound, Req

\* A process starts.
LEMMA StepBoot == ASSUME StoreInv, NEW p \in Request, Boot(p) PROVE StoreInv'
<1> USE DEF dbVars
<1>1. /\ UNCHANGED <<repo, defs, revs, disk, tx>>
      /\ cache' = [cache EXCEPT ![Builtin] = IF cache[Builtin] = 0 THEN -1
                                                                  ELSE cache[Builtin]]
      /\ \A q \in Peers(p) : pc[q] = "boot"
      /\ p \in Peers(p) /\ Peers(p) \in SUBSET Request
  BY DEF Boot, Peers
<1>2. DbInv' /\ Grown /\ DbInv /\ CacheInv
  BY <1>1, ReadFacts, InvFacts
<1>3. CacheInv'
  <2>1. /\ cache' \in [Id -> Int]
        /\ \A id \in Id : cache'[id] > 0 => cache'[id] = cache[id]
    <3>1. cache \in [Id -> Int] /\ Builtin \in Id
      BY <1>2 DEF CacheInv, Id
    <3>2. \E v \in {cache[Builtin], -1} : cache' = [cache EXCEPT ![Builtin] = v]
      BY <1>1
    <3> QED
      BY <3>1, <3>2
  <2> QED
    BY <1>1, <1>2, <2>1 DEF CacheInv, CacheIsDurable
<1>4. /\ pc \in [Request -> Place] /\ req \in [Request -> Req] /\ PairInv
      /\ \A q \in Request : RequestInv(q)
  BY DEF StoreInv
<1>5. CASE Exists(Builtin)
  <2>1. /\ pc' = [q \in Request |-> IF q \in Peers(p) THEN "idle" ELSE pc[q]]
        /\ req' = req
    BY <1>5 DEF Boot
  <2>2. /\ pc' \in [Request -> Place]
        /\ \A q \in Request : \/ pc'[q] = pc[q]
                              \/ pc[q] = "boot" /\ pc'[q] = "idle"
    BY <1>1, <1>4, <2>1 DEF Place
  <2>3. \A q \in Request : RequestInv(q)'
    BY <1>1, <1>2, <2>1, <2>2, RequestWaits
  <2>4. PairInv'
    <3>1. ASSUME NEW q \in Request, req[q].op = "seed", NEW s \in Peers(q) \ {q}
          PROVE  pc'[s] = "boot"
      <4>1. pc[s] = "boot" /\ s \in Request
        BY <1>4, <3>1 DEF PairInv, Peers
      <4>2. s \in Peers(p) => q \in Peers(p)
        BY <3>1 DEF Peers
      <4>3. pc[q] # "boot"
        BY <1>4, <3>1 DEF RequestInv, PlaceInv
      <4> QED
        BY <1>1, <2>1, <4>1, <4>2, <4>3
    <3>2. ASSUME NEW q \in Request, NEW s \in Request, pc'[q] = "commit", pc'[s] = "commit"
          PROVE  pc[q] = "commit" /\ pc[s] = "commit"
      BY <2>2, <3>2
    <3>3. \A q \in Request : Peers(q)' = Peers(q)
      BY <1>1 DEF Peers
    <3> QED
      BY <1>1, <1>4, <2>1, <3>1, <3>2, <3>3 DEF PairInv
  <2> QED
    BY <1>2, <1>3, <1>4, <2>1, <2>2, <2>3, <2>4 DEF StoreInv
<1>6. CASE ~Exists(Builtin)
  <2> DEFINE r == [NoReq EXCEPT !.op = "seed"]
  <2>1. pc' = [pc EXCEPT ![p] = "unique"] /\ req' = [req EXCEPT ![p] = r]
    BY <1>6 DEF Boot, GoTo
  <2>2. r \in Req /\ r.op = "seed"
    <3>1. BuiltinYaml \in Yaml
      BY StoreAssumption DEF BuiltinYaml
    <3> QED
      BY <3>1 DEF NoReq, Req, Op, Id
  <2> HIDE DEF r
  <2>3. /\ pc' \in [Request -> Place] /\ req' \in [Request -> Req]
        /\ pc'[p] = "unique" /\ req'[p] = r
        /\ \A q \in Request \ {p} : pc'[q] = pc[q] /\ req'[q] = req[q]
    BY <1>4, <2>1, <2>2 DEF Place
  <2>4. RequestInv(p)'
    BY <2>2, <2>3 DEF RequestInv, PlaceInv, FoundInv, Told
  <2>5. \A q \in Request \ {p} : RequestInv(q)'
    BY <1>1, <1>2, <2>3, RequestWaits
  <2>6. PairInv'
    <3>1. ASSUME NEW q \in Request, req'[q].op = "seed", NEW s \in Peers(q) \ {q}
          PROVE  pc'[s] = "boot"
      <4>1. CASE q = p
        BY <1>1, <2>3, <3>1, <4>1
      <4>2. CASE q # p
        <5>1. req[q].op = "seed" /\ pc[s] = "boot" /\ pc[q] # "boot" /\ s \in Request
          BY <1>4, <2>3, <3>1, <4>2 DEF PairInv, RequestInv, PlaceInv, Peers
        <5>2. s # p
          BY <1>1, <3>1, <5>1 DEF Peers
        <5> QED
          BY <2>3, <5>1, <5>2
      <4> QED
        BY <4>1, <4>2
    <3>2. ASSUME NEW q \in Request, NEW s \in Request, pc'[q] = "commit", pc'[s] = "commit"
          PROVE  /\ pc[q] = "commit" /\ pc[s] = "commit"
                 /\ req'[q] = req[q] /\ req'[s] = req[s]
      BY <2>3, <3>2
    <3> QED
      BY <1>1, <1>4, <3>1, <3>2 DEF PairInv, Peers
  <2> QED
    BY <1>2, <1>3, <2>3, <2>4, <2>5, <2>6 DEF StoreInv
<1> QED
  BY <1>5, <1>6

\* A request arrives.
LEMMA StepArrive ==
    ASSUME StoreInv, NEW p \in Request, NEW u \in User,
           \/ \E n \in Name, y \in Yaml : Create(p, u, n, y)
           \/ \E n \in Name, id \in Id : Clone(p, u, n, id)
           \/ \E id \in Id, y \in Yaml : Update(p, u, id, y)
           \/ \E id \in Id : Archive(p, u, id)
           \/ \E r \in DOMAIN revs : Publish(p, u, r)
    PROVE  StoreInv'
<1>1. /\ UNCHANGED <<repo, defs, revs, disk, tx, cache>> /\ pc[p] = "idle"
  BY DEF Create, Clone, Update, Archive, Publish, Asks, dbVars
<1>0. /\ BuiltinYaml \in Yaml /\ pc[p] # "boot" /\ revs \in Seq(Rev)
      /\ tx' \in BOOLEAN /\ (tx' => repo = "sqlite") /\ (tx => tx')
  BY <1>1, StoreAssumption, InvFacts DEF BuiltinYaml
<1>2. PICK at \in {"count", "latest", "archive", "publish"}, r \in Req :
        /\ Moves(p, at, r) /\ r.op # "seed" /\ r.op # "none"
        /\ at = "count" => r.op \in {"create", "clone"}
        /\ at = "latest" => r.op = "update" /\ Exists(r.id)
        /\ at = "archive" => r.op = "archive" /\ Exists(r.id)
        /\ at = "publish" => /\ r.op = "publish" /\ r.link \in DOMAIN revs
                             /\ revs[r.link].of = r.id
  <2>1. ASSUME NEW n \in Name, NEW y \in Yaml, Create(p, u, n, y)
        PROVE  \E r \in Req : Moves(p, "count", r) /\ r.op = "create"
    <3> DEFINE r == [NoReq EXCEPT !.op = "create", !.user = u, !.id = <<u, n>>,
                                  !.yaml = y]
    <3>1. r \in Req /\ r.op = "create"
      BY DEF NoReq, Req, Op, Id
    <3>2. Moves(p, "count", r)
      BY <2>1 DEF Create, Asks, Moves, GoTo
    <3> QED
      BY <3>1, <3>2
  <2>2. ASSUME NEW n \in Name, NEW from \in Id, Clone(p, u, n, from)
        PROVE  \E r \in Req : Moves(p, "count", r) /\ r.op = "clone"
    <3> DEFINE src == IF defs[from].published # 0 THEN defs[from].published
                                                  ELSE Latest(from)
               r == [NoReq EXCEPT !.op = "clone", !.user = u, !.id = <<u, n>>,
                                  !.yaml = revs[src].yaml]
    <3>1. src \in DOMAIN revs
      <4>1. Revisions(from) # {}
        BY <2>2 DEF Clone, MayClone
      <4>2. Latest(from) \in DOMAIN revs
        BY <4>1, InvFacts, TopOfDense DEF RowsOf
      <4>3. defs[from].published # 0 => defs[from].published \in DOMAIN revs
        BY DEF StoreInv, DbInv, Sound
      <4> QED
        BY <4>2, <4>3
    <3>2. revs[src].yaml \in Yaml
      <4>1. revs[src] \in Rev
        BY <1>0, <3>1
      <4> QED
        BY <4>1 DEF Rev
    <3>3. Moves(p, "count", r)
      BY <2>2 DEF Clone, Moves, GoTo
    <3> HIDE DEF src
    <3>4. r \in Req /\ r.op = "clone"
      BY <3>2 DEF NoReq, Req, Op, Id
    <3> QED
      BY <3>3, <3>4
  <2>3. ASSUME NEW id \in Id, NEW y \in Yaml, Update(p, u, id, y)
        PROVE  \E r \in Req : Moves(p, "latest", r) /\ r.op = "update" /\ Exists(r.id)
    <3> DEFINE r == [NoReq EXCEPT !.op = "update", !.user = u, !.id = id, !.yaml = y]
    <3>1. r \in Req /\ r.op = "update" /\ r.id = id
      BY DEF NoReq, Req, Op
    <3>2. Moves(p, "latest", r) /\ Exists(id)
      BY <2>3 DEF Update, Asks, Moves, GoTo
    <3> QED
      BY <3>1, <3>2
  <2>4. ASSUME NEW id \in Id, Archive(p, u, id)
        PROVE  \E r \in Req : Moves(p, "archive", r) /\ r.op = "archive" /\ Exists(r.id)
    <3> DEFINE r == [NoReq EXCEPT !.op = "archive", !.user = u, !.id = id,
                                  !.yaml = BuiltinYaml]
    <3>1. r \in Req /\ r.op = "archive" /\ r.id = id
      BY <1>0 DEF NoReq, Req, Op
    <3>2. Moves(p, "archive", r) /\ Exists(id)
      BY <2>4 DEF Archive, Asks, Moves, GoTo
    <3> QED
      BY <3>1, <3>2
  <2>5. ASSUME NEW v \in DOMAIN revs, Publish(p, u, v)
        PROVE  \E r \in Req : /\ Moves(p, "publish", r) /\ r.op = "publish"
                              /\ r.link \in DOMAIN revs /\ revs[r.link].of = r.id
    <3> DEFINE r == [NoReq EXCEPT !.op = "publish", !.user = u, !.id = revs[v].of,
                                  !.link = v]
    <3>1. revs[v] \in Rev /\ v \in Nat
      BY <1>0
    <3>2. r \in Req /\ r.op = "publish" /\ r.link = v /\ r.id = revs[v].of
      BY <1>0, <3>1 DEF NoReq, Req, Op, Rev
    <3>3. Moves(p, "publish", r)
      BY <2>5 DEF Publish, Moves, GoTo
    <3> QED
      BY <3>2, <3>3
  <2> QED
    BY <2>1, <2>2, <2>3, <2>4, <2>5
<1>3. pc'[p] = at /\ req'[p] = r
  BY <1>2 DEF StoreInv, Moves
<1>4. RequestInv(p)'
  <2>1. PlaceInv(p)' /\ Told(p)'
    BY <1>2, <1>3 DEF PlaceInv, Told
  <2>2. FoundInv(p)'
    BY <1>1, <1>2, <1>3 DEF FoundInv, Exists
  <2> QED
    BY <2>1, <2>2 DEF RequestInv
<1>5. at \in Place \ {"boot", "commit"}
  BY <1>2 DEF Place
<1> QED
  BY <1>0, <1>1, <1>2, <1>4, <1>5, ReadStep

\* The reads before a write.
LEMMA StepRead ==
    ASSUME StoreInv, NEW p \in Request,
           Count(p) \/ Unique(p) \/ ReadLatest(p) \/ Answer(p)
    PROVE  StoreInv'
<1> USE DEF dbVars
<1>1. UNCHANGED <<repo, defs, revs, disk, tx, cache>> /\ pc[p] # "boot"
  BY DEF Count, Unique, ReadLatest, Answer
<1>2. CASE Ends(p)
  BY <1>1, <1>2, EndStep
<1>3. CASE ~Ends(p)
  <2>1. /\ pc[p] \in Place /\ req[p] \in Req /\ PlaceInv(p) /\ FoundInv(p)
        /\ req[p].id \in Id /\ tx \in BOOLEAN /\ (tx => repo = "sqlite")
        /\ req \in [Request -> Req] /\ pc \in [Request -> Place]
    BY InvFacts DEF StoreInv
  <2>2. PICK at \in {"unique", "define", "append"}, r \in Req :
          /\ Moves(p, at, r) /\ r.op = req[p].op /\ r.id = req[p].id
          /\ at = "unique" => pc[p] = "count"
          /\ at = "define" => pc[p] = "unique"
          /\ at = "append" => /\ pc[p] = "latest"
                              /\ r.link = 0 \/ r.link \in RowsOf(revs, r.id)
    <3>1. CASE Count(p) \/ Unique(p)
      <4>1. req' = [req EXCEPT ![p] = req[p]]
        BY <1>3, <2>1, <3>1 DEF Count, Unique
      <4> QED
        BY <1>3, <2>1, <3>1, <4>1 DEF Count, Unique, Moves, GoTo
    <3>2. CASE ReadLatest(p)
      <4> DEFINE r == [req[p] EXCEPT !.link = Latest(req[p].id)]
      <4>1. /\ Latest(req[p].id) = 0 \/ Latest(req[p].id) \in RowsOf(revs, req[p].id)
            /\ revs \in Seq(Rev)
        BY InvFacts, TopOfDense
      <4>2. Latest(req[p].id) \in Nat
        BY <4>1 DEF RowsOf
      <4>3. Moves(p, "append", r) /\ pc[p] = "latest"
        BY <1>3, <3>2 DEF ReadLatest, Moves, GoTo
      <4>4. /\ r \in Req /\ r.op = req[p].op /\ r.id = req[p].id
            /\ r.link = Latest(req[p].id)
        BY <2>1, <4>2 DEF Req
      <4> HIDE DEF r
      <4> QED
        BY <4>1, <4>3, <4>4
    <3>3. ~Answer(p)
      BY <1>3 DEF Answer
    <3> QED
      BY <3>1, <3>2, <3>3
  <2>3. pc'[p] = at /\ req'[p] = r
    BY <2>1, <2>2 DEF Moves
  <2>4. RequestInv(p)'
    <3>1. PlaceInv(p)' /\ Told(p)'
      BY <2>1, <2>2, <2>3 DEF PlaceInv, Told, Req, Op
    <3>2. FoundInv(p)'
      BY <1>1, <2>1, <2>2, <2>3 DEF FoundInv, Exists
    <3> QED
      BY <3>1, <3>2 DEF RequestInv
  <2>5. at \in Place \ {"boot", "commit"} /\ (r.op = "seed" => req[p].op = "seed")
    BY <2>2 DEF Place
  <2> QED
    BY <1>1, <2>1, <2>2, <2>4, <2>5, ReadStep
<1> QED
  BY <1>2, <1>3

\* create_definition.
LEMMA StepDefine == ASSUME StoreInv, NEW p \in Request, Define(p) PROVE StoreInv'
<1> DEFINE id == req[p].id
<1>1. pc[p] = "define" /\ UNCHANGED <<repo, tx, cache>>
  BY DEF Define
<1>2. /\ pc \in [Request -> Place] /\ req \in [Request -> Req] /\ req[p] \in Req
      /\ id \in Id /\ PlaceInv(p) /\ DbInv /\ CacheInv /\ Sound(defs, revs)
      /\ defs \in [Id -> Def] /\ revs \in Seq(Rev) /\ repo \in {"sqlite", "mysql"}
  BY InvFacts DEF StoreInv, DbInv
<1>3. CASE Exists(id)
  BY <1>1, <1>3, EndStep DEF Define
<1>4. CASE ~Exists(id)
  <2>1. PICK k \in {"user", "cloned", "builtin"} :
          Write([defs EXCEPT ![id] = [NoDef EXCEPT !.kind = k]], revs)
    <3>1. req[p].op \in {"create", "clone", "seed"}
      BY <1>1, <1>2 DEF PlaceInv
    <3> QED
      BY <1>4, <3>1 DEF Define
  <2> DEFINE d == [defs EXCEPT ![id] = [NoDef EXCEPT !.kind = k]]
  <2>2. /\ d \in [Id -> Def] /\ d[id].kind = k /\ ~d[id].archived
        /\ d[id].published = 0 /\ \A i \in Id \ {id} : d[i] = defs[i]
    BY <1>2 DEF NoDef, Def
  <2> HIDE DEF d
  <2>3. Sound(d, revs) /\ Keeps(d, defs)
    BY <1>2, <1>4, <2>2 DEF Sound, Keeps, Exists
  <2>4. DbInv' /\ Grown /\ defs' = d /\ revs' = revs
    BY <1>1, <1>2, <2>1, <2>3, Extending, WriteFacts DEF d, Write
  <2>5. PICK at \in {"defined", "append"} : Moves(p, at, req[p])
    <3>1. req' = [req EXCEPT ![p] = req[p]] /\ Autocommits(p, "defined")
      BY <1>2, <1>4 DEF Define
    <3> QED
      BY <3>1 DEF Autocommits, AfterCommit, GoTo, Moves
  <2>6. pc'[p] = at /\ req'[p] = req[p]
    BY <1>2, <2>5 DEF Moves
  <2>7. RequestInv(p)'
    <3>1. PlaceInv(p)' /\ Told(p)'
      BY <1>1, <1>2, <2>5, <2>6 DEF PlaceInv, Told
    <3>2. req[p].op # "update"
      BY <1>1, <1>2 DEF PlaceInv
    <3>3. FoundInv(p)'
      BY <2>2, <2>4, <2>5, <2>6, <3>2 DEF FoundInv, Exists
    <3> QED
      BY <3>1, <3>3 DEF RequestInv
  <2>8. CacheInv'
    BY <1>1, <1>2, <2>4, CacheStays
  <2>9. at \in Place \ {"boot"} /\ at # "commit" /\ pc[p] # "boot"
    BY <1>1, <2>5 DEF Place
  <2> QED
    BY <1>2, <2>4, <2>5, <2>7, <2>8, <2>9, DbStep
<1> QED
  BY <1>3, <1>4

\* archive_definition and set_published_revision.
LEMMA StepSet ==
    ASSUME StoreInv, NEW p \in Request, SetArchived(p) \/ SetPublished(p)
    PROVE  StoreInv'
<1> DEFINE id == req[p].id
<1>1. pc[p] \in {"archive", "publish"} /\ UNCHANGED <<repo, tx, cache, req>>
  BY DEF SetArchived, SetPublished
<1>2. /\ pc \in [Request -> Place] /\ req \in [Request -> Req] /\ req[p] \in Req
      /\ id \in Id /\ PlaceInv(p) /\ FoundInv(p) /\ DbInv /\ CacheInv
      /\ Sound(defs, revs) /\ req[p].link \in Nat /\ req[p].op \in Op
      /\ defs \in [Id -> Def] /\ revs \in Seq(Rev) /\ repo \in {"sqlite", "mysql"}
      /\ tx => repo = "sqlite"
  BY InvFacts DEF StoreInv, DbInv
<1>3. req' = [req EXCEPT ![p] = req[p]]
  BY <1>1, <1>2
<1>4. CASE SetArchived(p)
  <2> DEFINE d == [defs EXCEPT ![id].archived = TRUE]
  <2>1. Write(d, revs) /\ pc[p] = "archive" /\ Autocommits(p, "archived")
    BY <1>4 DEF SetArchived
  <2>2. Exists(id) /\ req[p].op = "archive"
    BY <1>2, <2>1 DEF FoundInv, PlaceInv, Op
  <2>3. /\ d \in [Id -> Def] /\ d[id].kind = defs[id].kind /\ d[id].archived
        /\ d[id].published = defs[id].published
        /\ \A i \in Id \ {id} : d[i] = defs[i]
    BY <1>2 DEF Def
  <2> HIDE DEF d
  <2>4. Sound(d, revs) /\ Keeps(d, defs)
    BY <1>2, <2>2, <2>3 DEF Sound, Keeps, Exists
  <2>5. /\ DbInv' /\ Grown /\ defs' = d /\ revs' = revs
        /\ repo = "mysql" => disk'.defs = d
    BY <1>1, <1>2, <2>1, <2>4, Extending, WriteFacts DEF Write
  <2>6. PICK at \in {"archived", "ok"} :
          Moves(p, at, req[p]) /\ (at = "ok" => repo = "mysql")
    BY <1>2, <1>3, <2>1 DEF Autocommits, AfterCommit, GoTo, Moves
  <2>7. pc'[p] = at /\ req'[p] = req[p]
    BY <1>2, <2>6 DEF Moves
  <2>8. RequestInv(p)'
    <3>1. PlaceInv(p)'
      BY <2>2, <2>6, <2>7 DEF PlaceInv
    <3>2. FoundInv(p)'
      BY <2>2, <2>3, <2>5, <2>6, <2>7 DEF FoundInv, Exists
    <3>3. Told(p)'
      BY <2>2, <2>3, <2>5, <2>6, <2>7 DEF Told
    <3> QED
      BY <3>1, <3>2, <3>3 DEF RequestInv
  <2>9. CacheInv' /\ at \in Place \ {"boot"} /\ at # "commit" /\ pc[p] # "boot"
    BY <1>1, <1>2, <2>5, <2>6, CacheStays DEF Place
  <2> QED
    BY <1>2, <2>5, <2>6, <2>8, <2>9, DbStep
<1>5. CASE SetPublished(p)
  <2> DEFINE d == [defs EXCEPT ![id].published = req[p].link]
  <2>1. Write(d, revs) /\ pc[p] = "publish" /\ Autocommits(p, "published")
    BY <1>5 DEF SetPublished
  <2>2. /\ req[p].link \in DOMAIN revs /\ req[p].op \in {"publish", "seed"}
        /\ req[p].op = "publish" => revs[req[p].link].of = id
    BY <1>2, <2>1 DEF FoundInv, PlaceInv, Op
  <2>3. /\ d \in [Id -> Def] /\ d[id].kind = defs[id].kind
        /\ d[id].archived = defs[id].archived
        /\ d[id].published = req[p].link
        /\ \A i \in Id \ {id} : d[i] = defs[i]
    BY <1>2 DEF Def
  <2> HIDE DEF d
  <2>4. Sound(d, revs) /\ Keeps(d, defs)
    BY <1>2, <2>2, <2>3 DEF Sound, Keeps
  <2>5. /\ DbInv' /\ Grown /\ defs' = d /\ revs' = revs
        /\ repo = "mysql" => disk'.revs = revs
    BY <1>1, <1>2, <2>1, <2>4, Extending, WriteFacts DEF Write
  <2>6. PICK at \in {"published", "ok", "sync"} :
          /\ Moves(p, at, req[p])
          /\ at = "sync" => repo = "mysql" /\ req[p].op # "seed"
          /\ at = "ok" => req[p].op = "seed"
    BY <1>2, <1>3, <2>1 DEF Autocommits, AfterCommit, GoTo, Moves
  <2>7. pc'[p] = at /\ req'[p] = req[p]
    BY <1>2, <2>6 DEF Moves
  <2>8. RequestInv(p)'
    <3>1. PlaceInv(p)'
      BY <2>2, <2>6, <2>7 DEF PlaceInv
    <3>2. FoundInv(p)'
      BY <2>2, <2>5, <2>6, <2>7 DEF FoundInv
    <3>3. Told(p)'
      BY <2>2, <2>6, <2>7 DEF Told
    <3> QED
      BY <3>1, <3>2, <3>3 DEF RequestInv
  <2>9. CacheInv' /\ at \in Place \ {"boot"} /\ at # "commit" /\ pc[p] # "boot"
    BY <1>1, <1>2, <2>5, <2>6, CacheStays DEF Place
  <2> QED
    BY <1>2, <2>5, <2>6, <2>8, <2>9, DbStep
<1> QED
  BY <1>4, <1>5

\* SQLite's commit of whatever the connection's transaction has.
LEMMA StepCommit == ASSUME StoreInv, NEW p \in Request, Commit(p) PROVE StoreInv'
<1> DEFINE id == req[p].id
<1>1. /\ pc[p] \in {"defined", "archived", "published"} /\ CommitAll
      /\ UNCHANGED <<repo, defs, revs, cache, req>>
      /\ pc' = [pc EXCEPT ![p] = AfterCommit(p, pc[p])]
  BY DEF Commit, DbCommit, GoTo
<1>2. /\ pc \in [Request -> Place] /\ req \in [Request -> Req] /\ req[p] \in Req
      /\ PlaceInv(p) /\ FoundInv(p) /\ DbInv /\ CacheInv /\ req[p].op \in Op
  BY InvFacts DEF StoreInv
<1>3. DbInv' /\ Grown /\ disk'.defs = defs /\ disk'.revs = revs
  BY <1>1, <1>2, CommitFacts
<1>4. PICK at \in {"append", "ok", "sync"} :
        /\ Moves(p, at, req[p])
        /\ at = "append" => pc[p] = "defined"
        /\ at = "ok" => pc[p] = "archived" \/ req[p].op = "seed"
        /\ at = "sync" => pc[p] = "published" /\ req[p].op # "seed"
  <2>1. req' = [req EXCEPT ![p] = req[p]]
    BY <1>1, <1>2
  <2> QED
    BY <1>1, <2>1 DEF AfterCommit, Moves
<1>5. pc'[p] = at /\ req'[p] = req[p]
  BY <1>2, <1>4 DEF Moves
<1>6. RequestInv(p)'
  <2>1. PlaceInv(p)'
    BY <1>1, <1>2, <1>4, <1>5 DEF PlaceInv, Op
  <2>2. FoundInv(p)'
    BY <1>1, <1>2, <1>3, <1>4, <1>5 DEF FoundInv, PlaceInv, Exists, Op
  <2>3. Told(p)'
    BY <1>1, <1>2, <1>3, <1>4, <1>5 DEF Told, FoundInv, PlaceInv, Op
  <2> QED
    BY <2>1, <2>2, <2>3 DEF RequestInv
<1>7. CacheInv' /\ at \in Place \ {"boot"} /\ at # "commit" /\ pc[p] # "boot"
  BY <1>1, <1>2, <1>3, <1>4, CacheStays DEF Place
<1> QED
  BY <1>1, <1>2, <1>3, <1>4, <1>6, <1>7, DbStep

\* BEGIN and MAX(version_no).
LEMMA StepBegin == ASSUME StoreInv, NEW p \in Request, Begin(p) PROVE StoreInv'
<1> DEFINE id == req[p].id
           n == Top(id) + 1
           r == [req[p] EXCEPT !.ver = n]
<1>1. /\ pc[p] = "append" /\ UNCHANGED <<repo, defs, revs, disk, cache>>
      /\ tx' = (repo = "sqlite") /\ Moves(p, "insert", r)
  BY DEF Begin, Moves, GoTo
<1>2. /\ pc \in [Request -> Place] /\ req \in [Request -> Req] /\ req[p] \in Req
      /\ id \in Id /\ PlaceInv(p) /\ FoundInv(p) /\ tx \in BOOLEAN
      /\ (tx => repo = "sqlite") /\ revs \in Seq(Rev)
  BY InvFacts DEF StoreInv
<1>3. n = Size(revs, id) + 1 /\ n \in Nat /\ n \in 1..(Size(revs, id) + 1)
  <2>1. Top(id) = Size(revs, id) /\ Size(revs, id) \in Nat
    BY <1>2, InvFacts, TopOfDense
  <2> QED
    BY <2>1
<1> HIDE DEF n
<1>4. /\ r \in Req /\ r.ver = n /\ r.op = req[p].op /\ r.id = id
      /\ r.link = req[p].link
  BY <1>2, <1>3 DEF Req
<1> HIDE DEF r
<1>5. pc'[p] = "insert" /\ req'[p] = r
  BY <1>1, <1>2 DEF Moves
<1>6. RequestInv(p)'
  <2>1. PlaceInv(p)' /\ Told(p)'
    BY <1>1, <1>2, <1>4, <1>5 DEF PlaceInv, Told
  <2>2. FoundInv(p)'
    BY <1>1, <1>2, <1>3, <1>4, <1>5 DEF FoundInv, Exists
  <2> QED
    BY <2>1, <2>2 DEF RequestInv
<1>7. tx' \in BOOLEAN /\ (tx' => repo = "sqlite") /\ (tx => tx')
  BY <1>1, <1>2
<1>8. "insert" \in Place \ {"boot", "commit"} /\ pc[p] # "boot"
  BY <1>1 DEF Place
<1> QED
  BY <1>1, <1>4, <1>6, <1>7, <1>8, ReadStep

\* A row that is not Taken is the next one of its scenario.
LEMMA RowFacts ==
    ASSUME StoreInv, NEW p \in Request,
           \/ pc[p] = "insert" /\ ~Taken(p)
           \/ pc[p] = "commit" /\ repo = "mysql"
    PROVE  LET R == Append(revs, Row(p)) IN
           /\ req[p].ver = Size(revs, req[p].id) + 1
           /\ Sound(defs, R) /\ Extends(R, revs)
           /\ Len(R) \in DOMAIN R /\ R[Len(R)] = Row(p)
           /\ \A id \in Id : id # req[p].id => RowsOf(R, id) = RowsOf(revs, id)
           /\ Size(R, req[p].id) = Size(revs, req[p].id) + 1
<1> DEFINE id == req[p].id
           R == Append(revs, Row(p))
<1>1. /\ req[p] \in Req /\ id \in Id /\ PlaceInv(p) /\ FoundInv(p) /\ revs \in Seq(Rev)
      /\ Dense(revs) /\ Sound(defs, revs) /\ req[p].ver \in Nat /\ req[p].link \in Nat
      /\ req[p].yaml \in Yaml /\ Size(revs, id) \in Nat
      /\ Revisions(id) = RowsOf(revs, id)
  BY InvFacts, TopOfDense DEF StoreInv, DbInv
<1>2. req[p].ver = Size(revs, id) + 1
  <2>1. CASE pc[p] = "insert" /\ ~Taken(p)
    <3>1. Versions(id) = 1..Size(revs, id)
      BY <1>1 DEF Versions, Dense
    <3> QED
      BY <1>1, <2>1, <3>1 DEF Taken, FoundInv
  <2>2. CASE pc[p] = "commit" /\ repo = "mysql"
    BY <1>1, <2>2 DEF FoundInv
  <2> QED
    BY <2>1, <2>2
<1>3. /\ Row(p) \in Rev /\ Row(p).of = id /\ Row(p).version = Size(revs, id) + 1
      /\ Row(p).parent # 0 => Row(p).parent \in RowsOf(revs, id)
  <2>1. req[p].op = "update" => req[p].link = 0 \/ req[p].link \in RowsOf(revs, id)
    BY <1>1 DEF FoundInv
  <2> QED
    BY <1>1, <1>2, <2>1 DEF Row, Rev
<1>4. /\ R \in Seq(Rev) /\ Dense(R) /\ Extends(R, revs)
      /\ R[Len(revs) + 1] = Row(p) /\ Len(R) = Len(revs) + 1
      /\ \A i \in Id : i # id => RowsOf(R, i) = RowsOf(revs, i)
  BY <1>1, <1>3, DenseAppend
<1>5. Len(R) \in DOMAIN R /\ R[Len(R)] = Row(p)
  BY <1>1, <1>4
<1>6. DOMAIN revs \in SUBSET DOMAIN R
  <2>1. DOMAIN revs = 1..Len(revs) /\ Len(revs) \in Nat /\ DOMAIN R = 1..Len(R)
    BY <1>1, <1>4
  <2> QED
    BY <1>4, <2>1
<1>7. RowsOf(R, id) = RowsOf(revs, id) \cup {Len(R)} /\ Len(R) \notin RowsOf(revs, id)
  <2>1. DOMAIN revs = 1..Len(revs) /\ DOMAIN R = 1..(Len(revs) + 1) /\ Len(revs) \in Nat
    BY <1>1, <1>4
  <2>2. \A v \in 1..Len(revs) : R[v] = revs[v]
    BY <1>4 DEF Extends
  <2> HIDE DEF R
  <2> QED
    BY <1>3, <1>4, <1>5, <2>1, <2>2 DEF RowsOf
<1>8. Size(R, id) = Size(revs, id) + 1
  <2>1. IsFiniteSet(RowsOf(revs, id))
    BY <1>1, RowsFinite
  <2> QED
    BY <1>7, <2>1, FS_AddElement DEF Size
<1> HIDE DEF R
<1>9. Sound(defs, R)
  BY <1>1, <1>4, <1>6 DEF Sound
<1> QED
  BY <1>2, <1>4, <1>5, <1>8, <1>9 DEF R

\* INSERT.
LEMMA StepInsert == ASSUME StoreInv, NEW p \in Request, Insert(p) PROVE StoreInv'
<1> DEFINE id == req[p].id
           R == Append(revs, Row(p))
<1>1. pc[p] = "insert" /\ ~Blocked(p) /\ UNCHANGED <<repo, tx, cache>>
  BY DEF Insert
<1>2. /\ pc \in [Request -> Place] /\ req \in [Request -> Req] /\ req[p] \in Req
      /\ id \in Id /\ PlaceInv(p) /\ FoundInv(p) /\ DbInv /\ CacheInv
      /\ tx \in BOOLEAN /\ (tx => repo = "sqlite") /\ repo \in {"sqlite", "mysql"}
      /\ revs \in Seq(Rev) /\ \A q \in Request : FoundInv(q)
  BY InvFacts DEF StoreInv
<1>3. CASE Taken(p)
  BY <1>1, <1>3, EndStep DEF Insert
<1>4. CASE ~Taken(p)
  <2>1. /\ req[p].ver = Size(revs, id) + 1 /\ Sound(defs, R) /\ Extends(R, revs)
        /\ Len(R) \in DOMAIN R /\ R[Len(R)] = Row(p)
    BY <1>1, <1>4, RowFacts
  <2>2. Moves(p, "commit", req[p]) /\ req' = req
    <3>1. UNCHANGED req /\ GoTo(p, "commit")
      BY <1>4 DEF Insert
    <3>2. req' = [req EXCEPT ![p] = req[p]]
      BY <1>2, <3>1
    <3> QED
      BY <3>1, <3>2 DEF Moves, GoTo
  <2>3. pc'[p] = "commit" /\ req'[p] = req[p] /\ Row(p)' = Row(p)
    BY <1>2, <2>2 DEF Moves, Row
  <2>4. PlaceInv(p)' /\ Told(p)'
    BY <1>1, <1>2, <2>3 DEF PlaceInv, Told
  <2>5. "commit" \in Place \ {"boot"} /\ pc[p] # "boot"
    BY <1>1 DEF Place
  <2>6. CASE repo = "sqlite"
    <3>1. Write(defs, R)
      BY <1>4, <2>6 DEF Insert
    <3>2. DbInv' /\ Grown /\ defs' = defs /\ revs' = R
      BY <1>1, <1>2, <2>1, <3>1, Extending, WriteFacts DEF Write
    <3>3. RowsOf(revs, id) \in SUBSET RowsOf(revs', id)
      BY <1>2, <2>1, <3>2, SizeGrows DEF Sound
    <3>4. FoundInv(p)'
      BY <1>1, <1>2, <2>1, <2>3, <2>6, <3>2, <3>3 DEF FoundInv, Exists
    <3>5. CacheInv'
      BY <1>1, <1>2, <3>2, CacheStays
    <3>6. RequestInv(p)'
      BY <2>4, <3>4 DEF RequestInv
    <3> QED
      BY <1>2, <2>2, <2>5, <2>6, <3>2, <3>5, <3>6, DbStep
  <2>7. CASE repo = "mysql"
    <3>1. UNCHANGED <<defs, revs, disk>>
      BY <1>4, <2>7 DEF Insert
    <3>2. DbInv' /\ Grown
      BY <1>1, <1>2, <3>1, ReadFacts
    <3>3. FoundInv(p)'
      BY <1>1, <1>2, <2>1, <2>3, <2>7, <3>1 DEF FoundInv, Exists
    <3>4. CacheInv'
      BY <1>1, <1>2, <3>2, CacheStays
    <3>5. \A q \in Request \ {p} : pc[q] = "commit" => req[q].id # id
      BY <1>1, <1>2, <2>1, <2>7 DEF Blocked, FoundInv
    <3>6. RequestInv(p)'
      BY <2>4, <3>3 DEF RequestInv
    <3> QED
      BY <1>2, <2>2, <2>5, <3>1, <3>2, <3>4, <3>5, <3>6, DbStep
  <2> QED
    BY <1>2, <2>6, <2>7
<1> QED
  BY <1>3, <1>4

\* COMMIT of append_revision.
LEMMA StepEndTx == ASSUME StoreInv, NEW p \in Request, EndTx(p) PROVE StoreInv'
<1> DEFINE id == req[p].id
           R == Append(revs, Row(p))
<1>1. pc[p] = "commit" /\ UNCHANGED <<repo, defs, cache>>
  BY DEF EndTx
<1>2. /\ pc \in [Request -> Place] /\ req \in [Request -> Req] /\ req[p] \in Req
      /\ id \in Id /\ PlaceInv(p) /\ FoundInv(p) /\ DbInv /\ CacheInv
      /\ tx \in BOOLEAN /\ (tx => repo = "sqlite") /\ repo \in {"sqlite", "mysql"}
      /\ revs \in Seq(Rev) /\ req[p].op \in Op /\ PairInv /\ Exists(id)
      /\ \A q \in Request : req[q].id \in Id
  BY <1>1, InvFacts DEF StoreInv, FoundInv
<1>3. CASE ~(repo # "sqlite" \/ tx)
  BY <1>1, <1>3, EndStep DEF EndTx
<1>4. ASSUME repo # "sqlite" \/ tx
      PROVE  /\ DbInv' /\ Grown /\ disk'.revs = revs' /\ disk'.defs = defs
             /\ \E r \in DOMAIN revs' : revs'[r] = Row(p)
             /\ Len(revs') \in DOMAIN revs'
             /\ \A q \in Request \ {p} : pc[q] = "commit" /\ repo = "mysql" =>
                   RowsOf(revs', req[q].id) = RowsOf(revs, req[q].id)
             /\ \E at \in {"publish", "ok"} :
                   /\ at = "publish" <=> req[p].op = "seed"
                   /\ Moves(p, at, [req[p] EXCEPT !.link = IF req[p].op = "seed"
                                                           THEN Len(revs') ELSE req[p].link])
  <2>1. CASE repo # "sqlite"
    <3>1. /\ Sound(defs, R) /\ Extends(R, revs)
          /\ Len(R) \in DOMAIN R /\ R[Len(R)] = Row(p)
          /\ \A i \in Id : i # id => RowsOf(R, i) = RowsOf(revs, i)
      BY <1>1, <1>2, <2>1, RowFacts
    <3>2. Write(defs, R) /\ tx' = tx /\ ~tx
      BY <1>1, <1>2, <2>1 DEF EndTx, Write
    <3>3. DbInv' /\ Grown /\ revs' = R /\ disk'.revs = R /\ disk'.defs = defs
      <4> HIDE DEF R
      <4>1. Keeps(defs, defs) /\ repo' = repo /\ DbInv
        BY <1>1, <1>2, Extending
      <4>2. DbInv' /\ Grown /\ (~tx => disk'.defs = defs /\ disk'.revs = R)
        BY <3>1, <3>2, <4>1, WriteFacts
      <4>3. revs' = R
        BY <3>2 DEF Write
      <4> QED
        BY <3>2, <4>2, <4>3
    <3>4. \A q \in Request \ {p} : pc[q] = "commit" => req[q].id # id
      BY <1>1, <1>2, <2>1 DEF PairInv
    <3>5. \E at \in {"publish", "ok"} :
             /\ at = "publish" <=> req[p].op = "seed"
             /\ Moves(p, at, [req[p] EXCEPT !.link = IF req[p].op = "seed"
                                                     THEN Len(revs') ELSE req[p].link])
      BY <1>2, <2>1 DEF EndTx, Moves, GoTo
    <3> HIDE DEF R
    <3> QED
      BY <1>2, <3>1, <3>3, <3>4, <3>5
  <2>2. CASE repo = "sqlite" /\ tx
    <3>1. CommitAll /\ UNCHANGED revs
      BY <2>2 DEF EndTx
    <3>2. DbInv' /\ Grown /\ disk'.revs = revs /\ disk'.defs = defs
      BY <1>1, <1>2, <3>1, CommitFacts
    <3>3. PICK r \in DOMAIN revs : revs[r] = Row(p)
      BY <1>1, <1>2, <2>2 DEF FoundInv
    <3>4. Len(revs) \in DOMAIN revs
      BY <1>2, <3>3
    <3>5. \E at \in {"publish", "ok"} :
             /\ at = "publish" <=> req[p].op = "seed"
             /\ Moves(p, at, [req[p] EXCEPT !.link = IF req[p].op = "seed"
                                                     THEN Len(revs) ELSE req[p].link])
      BY <1>2, <2>2 DEF EndTx, Moves, GoTo
    <3> QED
      BY <2>2, <3>1, <3>2, <3>3, <3>4, <3>5
  <2> QED
    BY <1>4, <2>1, <2>2
<1>5. CASE repo # "sqlite" \/ tx
  <2>1. PICK at \in {"publish", "ok"} :
          /\ at = "publish" <=> req[p].op = "seed"
          /\ Moves(p, at, [req[p] EXCEPT !.link = IF req[p].op = "seed"
                                                  THEN Len(revs') ELSE req[p].link])
    BY <1>4, <1>5
  <2> DEFINE l == IF req[p].op = "seed" THEN Len(revs') ELSE req[p].link
             r == [req[p] EXCEPT !.link = l]
  <2>2. revs' \in Seq(Rev) /\ l \in Nat
    <3>1. revs' \in Seq(Rev) /\ req[p].link \in Nat
      BY <1>4, <1>5, InvFacts DEF DbInv, Sound
    <3> QED
      BY <3>1
  <2>3. /\ Moves(p, at, r) /\ r \in Req /\ r.op = req[p].op /\ r.id = id
        /\ r.link = l /\ (req[p].op # "seed" => r = req[p])
    BY <1>2, <2>1, <2>2 DEF Req
  <2> HIDE DEF r
  <2>4. pc'[p] = at /\ req'[p] = r
    BY <1>2, <2>3 DEF Moves
  <2>5. RequestInv(p)'
    <3>1. PlaceInv(p)'
      BY <1>1, <1>2, <2>1, <2>3, <2>4 DEF PlaceInv
    <3>2. FoundInv(p)'
      BY <1>4, <1>5, <2>1, <2>3, <2>4 DEF FoundInv
    <3>3. req[p].op # "seed" => Row(p)' = Row(p)
      BY <2>3, <2>4 DEF Row
    <3>4. Told(p)'
      BY <1>1, <1>2, <1>4, <1>5, <2>1, <2>3, <2>4, <3>3 DEF Told, Exists, PlaceInv
    <3> QED
      BY <3>1, <3>2, <3>4 DEF RequestInv
  <2>6. CacheInv' /\ at \in Place \ {"boot"} /\ at # "commit" /\ pc[p] # "boot"
    BY <1>1, <1>2, <1>4, <1>5, <2>1, CacheStays DEF Place
  <2> QED
    BY <1>4, <1>5, <2>3, <2>5, <2>6, DbStep
<1> QED
  BY <1>3, <1>5

\* The published revision goes to Redis.
LEMMA StepSync == ASSUME StoreInv, NEW p \in Request, Sync(p) PROVE StoreInv'
<1> USE DEF dbVars
<1> DEFINE id == req[p].id
           l == req[p].link
<1>1. pc[p] = "sync" /\ UNCHANGED <<repo, defs, revs, disk, tx>>
  BY DEF Sync
<1>2. /\ pc \in [Request -> Place] /\ req \in [Request -> Req] /\ req[p] \in Req
      /\ id \in Id /\ l \in Nat /\ PlaceInv(p) /\ FoundInv(p) /\ DbInv /\ CacheInv
      /\ tx \in BOOLEAN /\ (tx => repo = "sqlite") /\ req[p].op \in Op
  BY InvFacts DEF StoreInv
<1>3. CASE ~Valid(l)
  BY <1>1, <1>3, EndStep DEF Sync
<1>4. CASE Valid(l)
  <2>1. /\ cache' = [cache EXCEPT ![id] = l] /\ UNCHANGED req
        /\ pc' = [pc EXCEPT ![p] = "ok"]
    BY <1>4 DEF Sync, GoTo
  <2>2. Moves(p, "ok", req[p])
    <3>1. req' = [req EXCEPT ![p] = req[p]]
      BY <1>2, <2>1
    <3> QED
      BY <2>1, <3>1 DEF Moves
  <2>3. l \in DOMAIN disk.revs /\ disk.revs[l].of = id /\ disk.revs[l].ok
    <3>1. l \in DOMAIN disk.revs /\ disk.revs[l].of = id
      BY <1>1, <1>2 DEF FoundInv
    <3>2. disk.revs \in Seq(Rev) /\ Extends(revs, disk.revs)
      BY <1>2 DEF DbInv, Sound
    <3>3. revs[l] = disk.revs[l]
      BY <3>1, <3>2 DEF Extends
    <3> QED
      BY <1>4, <3>1, <3>3 DEF Valid
  <2>4. CacheInv'
    <3>1. /\ cache' \in [Id -> Int] /\ cache'[id] = l
          /\ \A i \in Id \ {id} : cache'[i] = cache[i]
      BY <1>2, <2>1 DEF CacheInv
    <3> QED
      BY <1>1, <1>2, <2>3, <3>1 DEF CacheInv, CacheIsDurable
  <2>5. DbInv' /\ Grown
    BY <1>1, <1>2, ReadFacts
  <2>6. pc'[p] = "ok" /\ req'[p] = req[p]
    BY <1>2, <2>1
  <2>7. req[p].op = "publish"
    BY <1>1, <1>2 DEF PlaceInv, Op
  <2>8. RequestInv(p)'
    <3>1. PlaceInv(p)' /\ FoundInv(p)' /\ Told(p)'
      BY <2>6, <2>7 DEF PlaceInv, FoundInv, Told
    <3> QED
      BY <3>1 DEF RequestInv
  <2>9. "ok" \in Place \ {"boot"} /\ pc[p] # "boot"
    BY <1>1 DEF Place
  <2> QED
    BY <1>1, <1>2, <2>2, <2>4, <2>5, <2>8, <2>9, DbStep
<1> QED
  BY <1>3, <1>4

\* A process dies: what it served is forgotten, what is on disk is not.
LEMMA StepCrash == ASSUME StoreInv, NEW p \in Request, Crash(p) PROVE StoreInv'
<1>1. /\ pc' = [q \in Request |-> IF q \in Peers(p) THEN "boot" ELSE pc[q]]
      /\ req' = [q \in Request |-> IF q \in Peers(p) THEN NoReq ELSE req[q]]
      /\ tx' = FALSE /\ defs' = disk.defs /\ revs' = disk.revs
      /\ UNCHANGED <<repo, disk, cache>>
  BY DEF Crash
<1>2. /\ pc \in [Request -> Place] /\ req \in [Request -> Req] /\ DbInv /\ CacheInv
      /\ PairInv /\ \A q \in Request : RequestInv(q)
      /\ Peers(p) \in SUBSET Request /\ repo \in {"sqlite", "mysql"}
  BY DEF StoreInv, Peers, DbInv
<1>3. NoReq \in Req /\ NoReq.op = "none"
  <2>1. BuiltinYaml \in Yaml
    BY StoreAssumption DEF BuiltinYaml
  <2> QED
    BY <2>1 DEF NoReq, Req, Op, Id
<1>4. DbInv' /\ CacheInv'
  <2>1. /\ disk.revs \in Seq(Rev) /\ Sound(disk.defs, disk.revs)
        /\ disk = [defs |-> disk.defs, revs |-> disk.revs]
    BY <1>2 DEF DbInv, Sound
  <2>2. Extends(disk.revs, disk.revs) /\ Keeps(disk.defs, disk.defs)
    BY <2>1, Extending
  <2>3. /\ disk' = disk /\ repo' = repo /\ tx' = FALSE
        /\ defs' = disk.defs /\ revs' = disk.revs /\ cache' = cache
    BY <1>1
  <2>4. Sound(defs, revs)' /\ Sound(disk.defs, disk.revs)'
    BY <2>1, <2>3
  <2>5. Extends(revs, disk.revs)' /\ Keeps(defs, disk.defs)'
    BY <2>2, <2>3 DEF Extends, Keeps
  <2>6. DbInv'
    BY <1>2, <2>1, <2>3, <2>4, <2>5 DEF DbInv
  <2>7. CacheInv'
    BY <1>2, <2>3 DEF CacheInv, CacheIsDurable
  <2> QED
    BY <2>6, <2>7
<1>5. /\ pc' \in [Request -> Place] /\ req' \in [Request -> Req]
      /\ \A q \in Peers(p) : pc'[q] = "boot" /\ req'[q] = NoReq
      /\ \A q \in Request \ Peers(p) : pc'[q] = pc[q] /\ req'[q] = req[q]
  <2>1. "boot" \in Place
    BY DEF Place
  <2> QED
    BY <1>1, <1>2, <1>3, <2>1
<1>6. \A q \in Peers(p) : RequestInv(q)'
  BY <1>3, <1>5 DEF RequestInv, PlaceInv, FoundInv, Told
<1>7. ASSUME NEW q \in Request \ Peers(p) PROVE RequestInv(q)'
  <2>1. repo = "mysql"
    BY <1>2 DEF Peers
  <2>2. disk.defs = defs /\ disk.revs = revs
    BY <1>2, <2>1 DEF DbInv
  <2>3. Grown
    <3>1. revs \in Seq(Rev) /\ disk.revs \in Seq(Rev)
      BY <1>2 DEF DbInv, Sound
    <3> QED
      BY <1>1, <2>2, <3>1, Extending DEF Grown
  <2> QED
    BY <1>1, <1>4, <1>5, <2>2, <2>3, RequestWaits
<1>8. PairInv'
  <2>1. ASSUME NEW q \in Request, NEW s \in Request, q # s, repo = "mysql",
               pc'[q] = "commit", pc'[s] = "commit"
        PROVE  req'[q].id # req'[s].id
    <3>1. q \notin Peers(p) /\ s \notin Peers(p)
      BY <1>5, <2>1
    <3> QED
      BY <1>2, <1>5, <2>1, <3>1 DEF PairInv
  <2>2. ASSUME NEW q \in Request, req'[q].op = "seed", NEW s \in Peers(q) \ {q}
        PROVE  pc'[s] = "boot"
    <3>1. q \notin Peers(p) /\ s \in Request
      BY <1>3, <1>5, <2>2 DEF Peers
    <3> QED
      BY <1>2, <1>5, <2>2, <3>1 DEF PairInv
  <2>3. \A q \in Request : Peers(q)' = Peers(q)
    BY <1>1 DEF Peers
  <2> QED
    BY <1>1, <2>1, <2>2, <2>3 DEF PairInv
<1> QED
  BY <1>2, <1>4, <1>5, <1>6, <1>7, <1>8 DEF StoreInv

-----------------------------------------------------------------------------
\* At the start the tables are empty and every process is to boot.
LEMMA StoreInit == Init => StoreInv
<1> SUFFICES ASSUME Init PROVE StoreInv
  OBVIOUS
<1>1. /\ NoReq \in Req /\ NoReq.op = "none"
  <2>1. BuiltinYaml \in Yaml
    BY StoreAssumption DEF BuiltinYaml
  <2> QED
    BY <2>1 DEF NoReq, Req, Op, Id
<1>2. /\ defs = [id \in Id |-> NoDef] /\ revs = <<>> /\ disk = Stored(defs, revs)
      /\ tx = FALSE /\ cache = [id \in Id |-> 0] /\ repo \in {"sqlite", "mysql"}
      /\ pc = [p \in Request |-> "boot"] /\ req = [p \in Request |-> NoReq]
  BY DEF Init
<1>3. Sound(defs, revs)
  <2>1. /\ NoDef \in Def /\ NoDef.kind = "none" /\ NoDef.published = 0 /\ ~NoDef.archived
    BY DEF NoDef, Def
  <2>2. \A id : RowsOf(<<>>, id) = {}
    BY DEF RowsOf
  <2>3. Cardinality({}) = 0
    BY FS_EmptySet
  <2>4. Dense(<<>>)
    <3>1. \A id : Size(<<>>, id) = 0 /\ {<<>>[r].version : r \in RowsOf(<<>>, id)} = {}
      BY <2>2, <2>3 DEF Size
    <3>2. 1..0 = {}
      OBVIOUS
    <3> QED
      BY <2>2, <3>1, <3>2 DEF Dense
  <2> QED
    BY <1>2, <2>1, <2>4 DEF Sound
<1>4. DbInv
  <2>1. disk = [defs |-> defs, revs |-> revs]
    BY <1>2 DEF Stored
  <2>2. disk.defs = defs /\ disk.revs = revs
    BY <2>1
  <2>3. revs \in Seq(Rev)
    BY <1>2
  <2> QED
    BY <1>2, <1>3, <2>1, <2>2, <2>3, Extending DEF DbInv
<1>5. CacheInv
  BY <1>2 DEF CacheInv, CacheIsDurable
<1>6. /\ pc \in [Request -> Place] /\ req \in [Request -> Req]
      /\ \A p \in Request : pc[p] = "boot" /\ req[p] = NoReq
  BY <1>1, <1>2 DEF Place
<1>7. \A p \in Request : RequestInv(p)
  BY <1>1, <1>6 DEF RequestInv, PlaceInv, FoundInv, Told
<1>8. PairInv
  BY <1>1, <1>6 DEF PairInv
<1> QED
  BY <1>4, <1>5, <1>6, <1>7, <1>8 DEF StoreInv

\* Every step keeps the invariant.
LEMMA StoreStep == StoreInv /\ [Next]_vars => StoreInv'
<1> SUFFICES ASSUME StoreInv, [Next]_vars PROVE StoreInv'
  OBVIOUS
<1>1. CASE UNCHANGED vars
  BY <1>1 DEF vars, StoreInv, DbInv, CacheInv, CacheIsDurable, RequestInv, PlaceInv,
              FoundInv, Told, PairInv, Row, Exists, Peers
<1>2. CASE Next
  BY <1>2, StepBoot, StepArrive, StepRead, StepDefine, StepSet, StepCommit,
     StepBegin, StepInsert, StepEndTx, StepSync, StepCrash DEF Next
<1> QED
  BY <1>1, <1>2

\* What is in the tables and in Redis holds throughout.
LEMMA Stores == Spec => []StoreInv
  BY StoreInit, StoreStep, PTL DEF Spec

\* Of append_revision and UNIQUE(scenario_id, version_no): the revisions of a
\* scenario are numbered 1, 2, ... without a gap or a double, and a parent is
\* an earlier revision of the same scenario, also with several API processes.
THEOREM VersionsStayDense == Spec => []VersionsAreDense
<1>1. StoreInv => VersionsAreDense
  <2> SUFFICES ASSUME StoreInv, NEW id \in Id
               PROVE  /\ Versions(id) = 1..Cardinality(Revisions(id))
                      /\ \A r \in Revisions(id) : revs[r].parent # 0 =>
                            /\ revs[revs[r].parent].of = id
                            /\ revs[revs[r].parent].version < revs[r].version
    BY DEF VersionsAreDense
  <2>1. Dense(revs) /\ Revisions(id) = RowsOf(revs, id)
    BY DEF StoreInv, DbInv, Sound, Revisions, RowsOf
  <2> QED
    BY <2>1 DEF Dense, Versions, Size, RowsOf
<1> QED
  BY <1>1, Stores, PTL

\* Of the service's answers: what a request was told is done survives a crash
\* of the process, whichever transaction of whom its statements ended up in.
THEOREM AnswersAreDurable == Spec => []ToldIsDurable
<1>1. StoreInv => ToldIsDurable
  <2> SUFFICES ASSUME StoreInv, NEW p \in Request, pc[p] = "ok"
               PROVE  CASE req[p].op \in {"create", "clone", "update"} ->
                              /\ disk.defs[req[p].id].kind # "none"
                              /\ \E r \in DOMAIN disk.revs : disk.revs[r] = Row(p)
                        [] req[p].op = "archive" -> disk.defs[req[p].id].archived
                        [] OTHER -> TRUE
    BY DEF ToldIsDurable
  <2>1. Told(p)
    BY InvFacts
  <2> QED
    BY <2>1 DEF Told
<1> QED
  BY <1>1, Stores, PTL

\* Of publish and of the Redis registry: a session is created from a revision
\* that passed validation, of the scenario it names, that no crash takes back.
THEOREM CacheStaysDurable == Spec => []CacheIsDurable
<1>1. StoreInv => CacheIsDurable
  BY DEF StoreInv, CacheInv
<1> QED
  BY <1>1, Stores, PTL
-----------------------------------------------------------------------------
(* The lock and the ranges.  StoreInv does without the lock: two processes     *)
(* never share one.  Within SQLite's process it keeps the transaction with one *)
(* request at a time, whose version is then the next one still.                *)

InTx == {p \in Request : pc[p] \in {"insert", "commit"}}

LockInv ==
    /\ lock = InTx
    /\ tx => lock # {}
    /\ repo = "sqlite" =>
          /\ \A p, q \in lock : p = q
          /\ \A p \in Request : pc[p] = "insert" =>
                req[p].ver = Size(revs, req[p].id) + 1

CacheLow == \A id \in Id : cache[id] >= -1

RangeInv == LockInv /\ CacheLow

\* Nobody begins or ends a transaction, and those in one keep what they have read.
Quiet ==
    /\ UNCHANGED <<repo, revs, lock>>
    /\ tx' => tx
    /\ \A q \in Request : /\ pc'[q] \in {"insert", "commit"} <=> pc[q] \in {"insert", "commit"}
                          /\ pc'[q] = "insert" => pc[q] = "insert" /\ req'[q] = req[q]

LEMMA QuietKeeps == LockInv /\ Quiet => LockInv'
<1> SUFFICES ASSUME LockInv, Quiet PROVE LockInv'
  OBVIOUS
<1>1. InTx' = InTx
  BY DEF Quiet, InTx
<1>2. \A q \in Request : pc'[q] = "insert" => pc[q] = "insert" /\ req'[q] = req[q]
  BY DEF Quiet
<1> QED
  BY <1>1, <1>2 DEF LockInv, Quiet, Size, RowsOf

\* A request that is not in a transaction moves to where it is not in one either.
LEMMA MovesQuietly ==
    ASSUME StoreInv, NEW p \in Request, pc[p] \notin {"boot", "insert", "commit"},
           UNCHANGED <<repo, revs, lock>>, tx' => tx,
           \/ Ends(p)
           \/ \E at : /\ at \notin {"insert", "commit"} /\ GoTo(p, at)
                      /\ req' = req \/ \E r : req' = [req EXCEPT ![p] = r]
    PROVE  Quiet
<1>1. pc \in [Request -> Place] /\ req \in [Request -> Req]
  BY DEF StoreInv
<1>2. CASE Ends(p)
  <2>1. /\ pc'[p] = "idle"
        /\ \A q \in Request \ {p} : /\ req'[q] = req[q]
                                    /\ \/ pc'[q] = pc[q]
                                       \/ pc[q] = "boot" /\ pc'[q] = "idle"
    BY <1>2, EndsFacts
  <2> QED
    BY <2>1 DEF Quiet
<1>3. CASE ~Ends(p)
  <2>1. PICK at : /\ at \notin {"insert", "commit"} /\ pc' = [pc EXCEPT ![p] = at]
                  /\ req' = req \/ \E r : req' = [req EXCEPT ![p] = r]
    BY <1>3 DEF GoTo
  <2>2. /\ pc'[p] = at
        /\ \A q \in Request \ {p} : pc'[q] = pc[q] /\ req'[q] = req[q]
    BY <1>1, <2>1
  <2> QED
    BY <2>1, <2>2 DEF Quiet
<1> QED
  BY <1>2, <1>3

\* Requests that arrive, read, write a definition or commit, and the answers.
LEMMA OthersQuiet ==
    ASSUME StoreInv, NEW p \in Request,
           \/ \E u \in User :
                 \/ \E n \in Name, y \in Yaml : Create(p, u, n, y)
                 \/ \E n \in Name, id \in Id : Clone(p, u, n, id)
                 \/ \E id \in Id, y \in Yaml : Update(p, u, id, y)
                 \/ \E id \in Id : Archive(p, u, id)
                 \/ \E r \in DOMAIN revs : Publish(p, u, r)
           \/ Count(p) \/ Unique(p) \/ ReadLatest(p) \/ Answer(p)
           \/ Define(p) \/ SetArchived(p) \/ SetPublished(p) \/ Commit(p) \/ Sync(p)
    PROVE  Quiet
<1> USE DEF dbVars
<1>1. pc[p] \notin {"boot", "insert", "commit"}
  BY DEF Create, Clone, Update, Archive, Publish, Asks, Count, Unique, ReadLatest, Answer,
         Define, SetArchived, SetPublished, Commit, Sync
<1>2. UNCHANGED <<repo, revs, lock>>
  BY DEF Create, Clone, Update, Archive, Publish, Asks, Count, Unique, ReadLatest, Answer,
         Define, SetArchived, SetPublished, Commit, Sync, Write
<1>3. tx' => tx
  BY DEF Create, Clone, Update, Archive, Publish, Asks, Count, Unique, ReadLatest, Answer,
         Define, SetArchived, SetPublished, Commit, DbCommit, CommitAll, Sync
<1>4. \/ Ends(p)
      \/ \E at : /\ at \notin {"insert", "commit"} /\ GoTo(p, at)
                 /\ req' = req \/ \E r : req' = [req EXCEPT ![p] = r]
  <2>1. CASE \E u \in User :
                \/ \E n \in Name, y \in Yaml : Create(p, u, n, y)
                \/ \E n \in Name, id \in Id : Clone(p, u, n, id)
                \/ \E id \in Id, y \in Yaml : Update(p, u, id, y)
                \/ \E id \in Id : Archive(p, u, id)
                \/ \E r \in DOMAIN revs : Publish(p, u, r)
    BY <2>1 DEF Create, Clone, Update, Archive, Publish, Asks
  <2>2. CASE Count(p) \/ Unique(p) \/ Answer(p) \/ Sync(p)
    BY <2>2 DEF Count, Unique, Answer, Sync
  <2>3. CASE ReadLatest(p)
    BY <2>3 DEF ReadLatest
  <2>4. CASE Define(p)
    <3>1. Ends(p) \/ (Autocommits(p, "defined") /\ req' = req)
      BY <2>4 DEF Define
    <3>2. Autocommits(p, "defined") => GoTo(p, "defined") \/ GoTo(p, "append")
      BY DEF Autocommits, AfterCommit
    <3> QED
      BY <3>1, <3>2
  <2>5. CASE SetArchived(p) \/ SetPublished(p)
    BY <2>5 DEF SetArchived, SetPublished, Autocommits, AfterCommit
  <2>6. CASE Commit(p)
    <3>1. /\ pc[p] \in {"defined", "archived", "published"}
          /\ GoTo(p, AfterCommit(p, pc[p])) /\ req' = req
      BY <2>6 DEF Commit
    <3>2. AfterCommit(p, pc[p]) \in {"append", "ok", "sync"}
      BY <3>1 DEF AfterCommit
    <3> QED
      BY <3>1, <3>2
  <2> QED
    BY <2>1, <2>2, <2>3, <2>4, <2>5, <2>6
<1> QED
  BY <1>1, <1>2, <1>3, <1>4, MovesQuietly

\* A process starts.
LEMMA BootQuiet == ASSUME StoreInv, NEW p \in Request, Boot(p) PROVE Quiet
<1>1. /\ UNCHANGED <<repo, revs, lock, tx>> /\ p \in Peers(p)
      /\ \A q \in Peers(p) : pc[q] = "boot"
      /\ pc \in [Request -> Place] /\ req \in [Request -> Req]
  BY DEF Boot, dbVars, StoreInv, Peers
<1>2. CASE Exists(Builtin)
  BY <1>1, <1>2 DEF Boot, Quiet
<1>3. CASE ~Exists(Builtin)
  <2>1. /\ pc'[p] = "unique"
        /\ \A q \in Request \ {p} : pc'[q] = pc[q] /\ req'[q] = req[q]
    BY <1>1, <1>3 DEF Boot, GoTo
  <2> QED
    BY <1>1, <2>1 DEF Quiet
<1> QED
  BY <1>2, <1>3

\* BEGIN waits for the lock and reads the number of versions there are.
LEMMA LockBegin == ASSUME StoreInv, LockInv, NEW p \in Request, Begin(p) PROVE LockInv'
<1>1. /\ pc[p] = "append" /\ LockFree(p) /\ lock' = lock \cup {p} /\ UNCHANGED <<repo, revs>>
      /\ tx' = (repo = "sqlite")
  BY DEF Begin
<1>2. /\ pc'[p] = "insert" /\ req'[p].ver = Top(req[p].id) + 1 /\ req'[p].id = req[p].id
      /\ \A q \in Request \ {p} : pc'[q] = pc[q] /\ req'[q] = req[q]
  <2>1. /\ pc \in [Request -> Place] /\ req \in [Request -> Req]
        /\ pc' = [pc EXCEPT ![p] = "insert"]
        /\ req' = [req EXCEPT ![p] = [req[p] EXCEPT !.ver = Top(req[p].id) + 1]]
    BY DEF Begin, GoTo, StoreInv
  <2>2. req[p] \in Req
    BY <2>1
  <2> QED
    BY <2>1, <2>2 DEF Req
<1>3. Top(req[p].id) = Size(revs, req[p].id)
  BY InvFacts, TopOfDense
<1>4. InTx' = InTx \cup {p}
  BY <1>2 DEF InTx
<1>5. repo = "sqlite" => lock = {}
  BY <1>1 DEF LockInv, LockFree, Peers, InTx
<1>6. \A q \in Request \ {p} : repo = "sqlite" => pc[q] # "insert"
  BY <1>5 DEF LockInv, InTx
<1>7. \A q \in Request : repo = "sqlite" /\ pc'[q] = "insert" =>
         req'[q].ver = Size(revs, req'[q].id) + 1
  BY <1>2, <1>3, <1>6
<1> QED
  BY <1>1, <1>4, <1>5, <1>7 DEF LockInv, Size, RowsOf

\* INSERT: within SQLite the version is never taken.
LEMMA LockInsert == ASSUME StoreInv, LockInv, NEW p \in Request, Insert(p) PROVE LockInv'
<1>1. /\ pc[p] = "insert" /\ UNCHANGED <<repo, tx>> /\ p \in lock
      /\ pc \in [Request -> Place] /\ req \in [Request -> Req]
      /\ repo \in {"sqlite", "mysql"} /\ (tx => repo = "sqlite")
  BY InvFacts DEF Insert, StoreInv, LockInv, InTx
<1>2. repo = "sqlite" => \A q \in Request \ {p} : pc[q] \notin {"insert", "commit"}
  BY <1>1 DEF LockInv, InTx
<1>3. CASE Taken(p)
  <2>1. Ends(p) /\ lock' = lock \ {p} /\ UNCHANGED revs
    BY <1>3 DEF Insert
  <2>2. repo = "mysql"
    <3>1. /\ Versions(req[p].id) = 1..Size(revs, req[p].id)
          /\ Size(revs, req[p].id) \in Nat
      <4>1. req[p].id \in Id /\ Dense(revs) /\ revs \in Seq(Rev)
        BY InvFacts
      <4> QED
        BY <4>1, RowsFinite DEF Dense, Versions, Revisions, RowsOf
    <3>2. repo = "sqlite" => req[p].ver = Size(revs, req[p].id) + 1
      BY <1>1 DEF LockInv
    <3> QED
      BY <1>1, <1>3, <3>1, <3>2 DEF Taken
  <2>3. /\ pc'[p] = "idle"
        /\ \A q \in Request \ {p} : \/ pc'[q] = pc[q]
                                    \/ pc[q] = "boot" /\ pc'[q] = "idle"
    BY <1>1, <2>1, EndsFacts
  <2>4. InTx' = InTx \ {p}
    BY <2>3 DEF InTx
  <2> QED
    BY <1>1, <2>1, <2>2, <2>4 DEF LockInv
<1>4. CASE ~Taken(p)
  <2>1. pc' = [pc EXCEPT ![p] = "commit"] /\ UNCHANGED <<lock, req>>
    BY <1>4 DEF Insert, GoTo
  <2>2. InTx' = InTx
    BY <1>1, <2>1 DEF InTx
  <2>3. repo = "sqlite" => \A q \in Request : pc'[q] # "insert"
    BY <1>1, <1>2, <2>1
  <2> QED
    BY <1>1, <2>1, <2>2, <2>3 DEF LockInv
<1> QED
  BY <1>3, <1>4

\* COMMIT gives the lock back, also where the transaction had been ended.
LEMMA LockEndTx == ASSUME StoreInv, LockInv, NEW p \in Request, EndTx(p) PROVE LockInv'
<1>1. /\ pc[p] = "commit" /\ lock' = lock \ {p} /\ repo' = repo /\ p \in lock
      /\ pc \in [Request -> Place] /\ req \in [Request -> Req]
      /\ repo \in {"sqlite", "mysql"} /\ tx \in BOOLEAN /\ (tx => repo = "sqlite")
  BY InvFacts DEF EndTx, StoreInv, LockInv, InTx
<1>2. tx' = FALSE
  BY <1>1 DEF EndTx, CommitAll
<1>3. /\ pc'[p] \notin {"insert", "commit"}
      /\ \A q \in Request \ {p} : \/ pc'[q] = pc[q]
                                  \/ pc[q] = "boot" /\ pc'[q] = "idle"
  <2>1. CASE Ends(p)
    BY <1>1, <2>1, EndsFacts
  <2>2. CASE ~Ends(p)
    <3>1. pc' = [pc EXCEPT ![p] = IF req[p].op = "seed" THEN "publish" ELSE "ok"]
      BY <1>1, <2>2 DEF EndTx, GoTo
    <3> QED
      BY <1>1, <3>1
  <2> QED
    BY <2>1, <2>2
<1>4. InTx' = InTx \ {p}
  BY <1>3 DEF InTx
<1>5. repo = "sqlite" => \A q \in Request : pc'[q] # "insert"
  BY <1>1, <1>3 DEF LockInv, InTx
<1> QED
  BY <1>1, <1>2, <1>4, <1>5 DEF LockInv

\* A process dies with its lock and its transaction.
LEMMA LockCrash == ASSUME StoreInv, LockInv, NEW p \in Request, Crash(p) PROVE LockInv'
<1>1. /\ pc' = [q \in Request |-> IF q \in Peers(p) THEN "boot" ELSE pc[q]]
      /\ lock' = lock \ Peers(p) /\ tx' = FALSE /\ repo' = repo
      /\ repo \in {"sqlite", "mysql"}
  BY InvFacts DEF Crash
<1>2. InTx' = InTx \ Peers(p)
  BY <1>1 DEF InTx
<1>3. repo = "sqlite" => \A q \in Request : pc'[q] = "boot"
  BY <1>1 DEF Peers
<1> QED
  BY <1>1, <1>2, <1>3 DEF LockInv, InTx

\* Every step keeps the lock ...
LEMMA LockStep == ASSUME StoreInv, LockInv, [Next]_vars PROVE LockInv'
<1>1. CASE UNCHANGED vars
  BY <1>1 DEF vars, LockInv, InTx, Size, RowsOf
<1>2. CASE Next
  <2>1. PICK p \in Request :
           Quiet \/ Begin(p) \/ Insert(p) \/ EndTx(p) \/ Crash(p)
    BY <1>2, BootQuiet, OthersQuiet DEF Next
  <2> QED
    BY <2>1, QuietKeeps, LockBegin, LockInsert, LockEndTx, LockCrash
<1> QED
  BY <1>1, <1>2

\* ... and puts nothing below -1 into Redis.
LEMMA CacheLowStep == ASSUME StoreInv, CacheLow, [Next]_vars PROVE CacheLow'
<1>1. cache \in [Id -> Int] /\ Builtin \in Id
  BY InvFacts DEF StoreInv, CacheInv, Id
<1>2. CASE UNCHANGED cache
  BY <1>2 DEF CacheLow
<1>3. ASSUME NEW p \in Request, Boot(p) PROVE CacheLow'
  <2>1. PICK v \in {cache[Builtin], -1} : cache' = [cache EXCEPT ![Builtin] = v]
    BY <1>3 DEF Boot
  <2> QED
    BY <1>1, <2>1 DEF CacheLow
<1>4. ASSUME NEW p \in Request, Sync(p) PROVE CacheLow'
  <2>1. req[p].link \in Nat /\ req[p].id \in Id
    BY InvFacts
  <2>2. cache' = cache \/ cache' = [cache EXCEPT ![req[p].id] = req[p].link]
    BY <1>4 DEF Sync
  <2> QED
    BY <1>1, <2>1, <2>2 DEF CacheLow
<1>5. CASE Next
  <2>1. PICK p \in Request :
           \/ Boot(p) \/ Sync(p)
           \/ \E u \in User :
                 \/ \E n \in Name, y \in Yaml : Create(p, u, n, y)
                 \/ \E n \in Name, id \in Id : Clone(p, u, n, id)
                 \/ \E id \in Id, y \in Yaml : Update(p, u, id, y)
                 \/ \E id \in Id : Archive(p, u, id)
                 \/ \E r \in DOMAIN revs : Publish(p, u, r)
           \/ Count(p) \/ Unique(p) \/ ReadLatest(p) \/ Answer(p) \/ Define(p)
           \/ SetArchived(p) \/ SetPublished(p) \/ Commit(p) \/ Begin(p) \/ Insert(p)
           \/ EndTx(p) \/ Crash(p)
    BY <1>5 DEF Next
  <2>2. CASE ~(Boot(p) \/ Sync(p))
    <3>1. UNCHANGED cache
      BY <2>1, <2>2 DEF Create, Clone, Update, Archive, Publish, Count, Unique, ReadLatest,
                        Define, SetArchived, SetPublished, Commit, Begin, Insert, EndTx,
                        Answer, Crash
    <3> QED
      BY <1>2, <3>1
  <2> QED
    BY <1>3, <1>4, <2>1, <2>2
<1>6. CASE UNCHANGED vars
  BY <1>2, <1>6 DEF vars
<1> QED
  BY <1>5, <1>6

\* With what is in the tables they give the ranges.
LEMMA RangesFollow == StoreInv /\ RangeInv => TypeOK
<1> SUFFICES ASSUME StoreInv, RangeInv PROVE TypeOK
  OBVIOUS
<1>1. /\ defs \in [Id -> Def] /\ revs \in Seq(Rev) /\ disk.revs \in Seq(Rev)
      /\ Extends(revs, disk.revs) /\ CacheInv
      /\ \A id \in Id : defs[id].published # 0 => defs[id].published \in DOMAIN revs
  BY DEF StoreInv, DbInv, Sound
<1>2. Len(revs) \in Nat /\ DOMAIN revs = 1..Len(revs)
      /\ Len(disk.revs) \in Nat /\ DOMAIN disk.revs = 1..Len(disk.revs)
  BY <1>1
<1>3. defs \in [Id -> [kind : {"none", "user", "cloned", "builtin"}, archived : BOOLEAN,
                       published : 0..Len(revs)]]
  <2>1. \A id \in Id : defs[id] \in Def /\ defs[id].published \in 0..Len(revs)
    BY <1>1, <1>2 DEF Def
  <2>2. \A id \in Id : defs[id] \in [kind : {"none", "user", "cloned", "builtin"},
                                     archived : BOOLEAN, published : 0..Len(revs)]
    BY <2>1 DEF Def
  <2> QED
    BY <1>1, <2>2
<1>4. \A r \in DOMAIN revs : revs[r].of \in Id /\ revs[r].yaml \in Yaml
  <2>1. \A r \in DOMAIN revs : revs[r] \in Rev
    BY <1>1
  <2> QED
    BY <2>1 DEF Rev
<1>5. (tx => lock # {}) /\ lock \subseteq Request
  BY DEF RangeInv, LockInv, InTx
<1>6. \A id \in Id : cache[id] \in -1..Len(revs)
  <2> SUFFICES ASSUME NEW id \in Id PROVE cache[id] \in -1..Len(revs)
    OBVIOUS
  <2>1. cache[id] \in Int /\ cache[id] >= -1
    BY <1>1 DEF CacheInv, RangeInv, CacheLow
  <2>2. cache[id] > 0 => cache[id] \in 1..Len(disk.revs)
    BY <1>1, <1>2 DEF CacheInv, CacheIsDurable
  <2>3. Len(disk.revs) <= Len(revs)
    BY <1>1 DEF Extends
  <2> QED
    BY <1>2, <2>1, <2>2, <2>3
<1> QED
  BY <1>3, <1>4, <1>5, <1>6 DEF TypeOK

\* At the start nobody holds the lock.
LEMMA RangeStart == Init => RangeInv
<1> SUFFICES ASSUME Init PROVE RangeInv
  OBVIOUS
<1>1. InTx = {} /\ \A p \in Request : pc[p] = "boot"
  BY DEF Init, InTx
<1>2. CacheLow
  BY DEF Init, CacheLow
<1> QED
  BY <1>1, <1>2 DEF Init, RangeInv, LockInv

\* Of append_revision's asyncio.Lock and of the tables: SQLite's transaction is open
\* only under the lock, which a crash, a refused version and a failed COMMIT give
\* back; a published revision is there, and Redis never names one that is not.
THEOREM StoreStaysInRange == Spec => []TypeOK
<1>1. Init => StoreInv /\ RangeInv
  BY StoreInit, RangeStart
<1>2. (StoreInv /\ RangeInv) /\ [Next]_vars => (StoreInv /\ RangeInv)'
  BY StoreStep, LockStep, CacheLowStep DEF RangeInv
<1>3. StoreInv /\ RangeInv => TypeOK
  BY RangesFollow
<1> QED
  BY <1>1, <1>2, <1>3, PTL DEF Spec
=============================================================================
