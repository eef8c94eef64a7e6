---------------------------- MODULE EventStream ----------------------------
(***************************************************************************)
(* One session's events: push_event_sync and push_event_async against the  *)
(* SSE clients of subscribe_async and sse_generator.  An event is its id;  *)
(* the pub/sub channel is a queue per subscribed client and forgets what   *)
(* is published when nobody listens; the list session:{id}:buffer keeps    *)
(* the last BufferMax events.  Each publisher action is one Redis command. *)
(* The worker pushes until it dies; then recovery pushes its "failed".     *)
(***************************************************************************)
EXTENDS Integers, Sequences, SequencesExt

CONSTANTS
    Client,       \* SSE clients of the session
    MaxEvents,    \* bound on the events pushed
    BufferMax,    \* _BUFFER_MAX
    MaxCrashes,   \* bound on the deaths of publishers
    MaxDrops      \* bound on lost connections

ASSUME StreamAssumption ==
    /\ MaxEvents \in Nat /\ MaxCrashes \in Nat /\ MaxDrops \in Nat
    /\ BufferMax \in Nat \ {0}

VARIABLES
    seq,          \* session:{id}:event_seq
    kind,         \* kind[id]: "item", or "end" for the terminal types
    buffer,       \* session:{id}:buffer
    lastId,       \* session:{id} last_event_id
    by, pub,      \* who publishes, and its next command
    cpc, inbox, replay, seen, got,   \* the clients
    published, since,                \* history: ids published, and published
                                     \* before c subscribed
    crashes, drops

storeVars  == <<seq, kind, buffer, lastId>>
pubVars    == <<by, pub>>
clientVars == <<cpc, inbox, replay, seen, got, since>>
boundVars  == <<crashes, drops>>
vars == <<storeVars, pubVars, clientVars, published, boundVars>>

SubscribedLate(c) == cpc[c] = "live"   \* mutant: after the LRANGE

Subscribed(c) == cpc[c] \in {"subscribed", "live"}

Init ==
    /\ seq = 0 /\ kind = <<>> /\ buffer = <<>> /\ lastId = 0
    /\ by = "worker" /\ pub = "idle"
    /\ cpc = [c \in Client |-> "off"]
    /\ inbox = [c \in Client |-> <<>>]
    /\ replay = [c \in Client |-> <<>>]
    /\ seen = [c \in Client |-> 0]
    /\ got = [c \in Client |-> <<>>]
    /\ since = [c \in Client |-> {}]
    /\ published = {}
    /\ crashes = 0 /\ drops = 0

-----------------------------------------------------------------------------
(* push_event_*. *)

\* INCR gives the id.  Recovery has one event to push, its "failed".
Incr ==
    /\ pub = "idle"
    /\ seq < MaxEvents
    /\ seq' = seq + 1
    /\ \E k \in IF by = "worker" THEN {"item", "end"} ELSE {"end"} :
          kind' = Append(kind, k)
    /\ pub' = "publish"
    /\ UNCHANGED <<buffer, lastId, by, clientVars, published, boundVars>>

Publish ==
    /\ pub = "publish"
    /\ inbox' = [c \in Client |->
                    IF Subscribed(c) THEN Append(inbox[c], seq) ELSE inbox[c]]
    /\ published' = published \cup {seq}
    /\ pub' = "store"
    /\ UNCHANGED <<storeVars, by, cpc, replay, seen, got, since, boundVars>>

LastUpToAll(n, s) == s   \* mutant: the buffer is never trimmed

\* The last n entries of list s: LTRIM key -n -1.
LastUpTo(n, s) == IF Len(s) > n THEN SubSeq(s, Len(s) - n + 1, Len(s)) ELSE s

\* RPUSH; the LTRIM is a command of its own.
Store ==
    /\ pub = "store"
    /\ buffer' = Append(buffer, seq)
    /\ pub' = "trim"
    /\ UNCHANGED <<seq, kind, lastId, by, clientVars, published, boundVars>>

TrimHead ==   \* mutant: LTRIM keeps the oldest entries, not the newest
    /\ pub = "trim"
    /\ buffer' = IF Len(buffer) > BufferMax THEN SubSeq(buffer, 1, BufferMax) ELSE buffer
    /\ pub' = "note"
    /\ UNCHANGED <<seq, kind, lastId, by, clientVars, published, boundVars>>

Trim ==
    /\ pub = "trim"
    /\ buffer' = LastUpTo(BufferMax, buffer)
    /\ pub' = "note"
    /\ UNCHANGED <<seq, kind, lastId, by, clientVars, published, boundVars>>

Note ==
    /\ pub = "note"
    /\ lastId' = seq
    /\ pub' = IF kind[seq] = "end" THEN "over" ELSE "idle"
    /\ UNCHANGED <<seq, kind, buffer, by, clientVars, published, boundVars>>

\* A publisher dies between two commands, the worker also after its verdict.
Crash ==
    /\ crashes < MaxCrashes
    /\ pub \notin {"dead"}
    /\ pub = "over" => by = "worker"
    /\ crashes' = crashes + 1
    /\ pub' = "dead"
    /\ UNCHANGED <<storeVars, by, clientVars, published, drops>>

\* Once: when the API dies here too, the status is no longer "running".
Recover ==
    /\ pub = "dead"
    /\ by = "worker"
    /\ by' = "recovery"
    /\ pub' = "idle"
    /\ UNCHANGED <<storeVars, clientVars, published, boundVars>>

-----------------------------------------------------------------------------
(* subscribe_async; a client that reconnects sends its last id. *)

Connect(c) ==
    /\ cpc[c] = "off"
    /\ cpc' = [cpc EXCEPT ![c] = "connect"]
    /\ UNCHANGED <<storeVars, pubVars, inbox, replay, seen, got, since,
                   published, boundVars>>

Subscribe(c) ==
    /\ cpc[c] = "connect"
    /\ cpc' = [cpc EXCEPT ![c] = "subscribed"]
    /\ since' = [since EXCEPT ![c] = published]
    /\ UNCHANGED <<storeVars, pubVars, inbox, replay, seen, got, published, boundVars>>

\* LRANGE of the whole buffer.
Replay(c) ==
    /\ cpc[c] = "subscribed"
    /\ cpc' = [cpc EXCEPT ![c] = "live"]
    /\ replay' = [replay EXCEPT ![c] = buffer]
    /\ UNCHANGED <<storeVars, pubVars, inbox, seen, got, since, published, boundVars>>

TakeAny(c, id) ==   \* mutant: no deduplication by event_id
    /\ seen' = [seen EXCEPT ![c] = id]
    /\ got' = [got EXCEPT ![c] = Append(@, id)]
    /\ cpc' = IF kind[id] = "end" THEN [cpc EXCEPT ![c] = "closed"] ELSE cpc

\* Only an id above the last one is yielded; a terminal event ends the stream.
Take(c, id) ==
    IF id > seen[c]
    THEN /\ seen' = [seen EXCEPT ![c] = id]
         /\ got' = [got EXCEPT ![c] = Append(@, id)]
         /\ cpc' = IF kind[id] = "end" THEN [cpc EXCEPT ![c] = "closed"] ELSE cpc
    ELSE UNCHANGED <<seen, got, cpc>>

YieldReplayed(c) ==
    /\ cpc[c] = "live"
    /\ replay[c] # <<>>
    /\ Take(c, Head(replay[c]))
    /\ replay' = [replay EXCEPT ![c] = Tail(@)]
    /\ UNCHANGED <<storeVars, pubVars, inbox, since, published, boundVars>>

\* The live stream begins when the replay is through.
YieldLive(c) ==
    /\ cpc[c] = "live"
    /\ replay[c] = <<>>
    /\ inbox[c] # <<>>
    /\ Take(c, Head(inbox[c]))
    /\ inbox' = [inbox EXCEPT ![c] = Tail(@)]
    /\ UNCHANGED <<storeVars, pubVars, replay, since, published, boundVars>>

\* The connection is lost and with it what the server had not yet sent.
Drop(c) ==
    /\ cpc[c] \in {"connect", "subscribed", "live"}
    /\ drops < MaxDrops
    /\ drops' = drops + 1
    /\ cpc' = [cpc EXCEPT ![c] = "off"]
    /\ inbox' = [inbox EXCEPT ![c] = <<>>]
    /\ replay' = [replay EXCEPT ![c] = <<>>]
    /\ UNCHANGED <<storeVars, pubVars, seen, got, since, published, crashes>>

-----------------------------------------------------------------------------
PublisherStep == Incr \/ Publish \/ Store \/ Trim \/ Note \/ Recover

ClientStep(c) == Subscribe(c) \/ Replay(c) \/ YieldReplayed(c) \/ YieldLive(c)

Next ==
    \/ PublisherStep
    \/ Crash
    \/ \E c \in Client : Connect(c) \/ ClientStep(c) \/ Drop(c)

Spec == Init /\ [][Next]_vars

\* The server goes on serving a connected client.
FairSpec == Spec /\ \A c \in Client : WF_vars(ClientStep(c))

-----------------------------------------------------------------------------
Buffered(id) == \E i \in DOMAIN buffer : buffer[i] = id

\* The ranges of the variables.
TypeOK ==
    /\ seq \in 0..MaxEvents
    /\ kind \in Seq({"item", "end"}) /\ Len(kind) = seq
    /\ buffer \in Seq(1..seq) /\ Len(buffer) <= BufferMax + 1 + crashes
    /\ lastId \in 0..seq
    /\ by \in {"worker", "recovery"}
    /\ pub \in {"idle", "publish", "store", "trim", "note", "over", "dead"}
    /\ cpc \in [Client -> {"off", "connect", "subscribed", "live", "closed"}]
    /\ inbox \in [Client -> Seq(1..seq)]
    /\ replay \in [Client -> Seq(1..seq)]
    /\ seen \in [Client -> 0..seq]
    /\ got \in [Client -> Seq(1..seq)]
    /\ published \subseteq 1..seq
    /\ since \in [Client -> SUBSET published]
    /\ crashes \in 0..MaxCrashes /\ drops \in 0..MaxDrops

\* Across replays, live messages and reconnections a client gets an event once
\* and never an older one after a newer one.
InOrder ==
    \A c \in Client : \A i, j \in DOMAIN got[c] : i < j => got[c][i] < got[c][j]

\* "Subscribe first": an event published once a client has subscribed and still
\* in the buffer has reached that client or is on its way, however the replay
\* and the live messages overlap.
SubscriberMissesNothing ==
    \A c \in Client : Subscribed(c) =>
        \A id \in published \ since[c] :
            Buffered(id) => \/ Contains(got[c], id)
                            \/ Contains(replay[c], id)
                            \/ Contains(inbox[c], id) /\ seen[c] < id

\* A client that connects when the terminal event is in the buffer gets it and
\* its stream ends, wherever the client had stopped before.
LateStreamEnds ==
    \A c \in Client :
        (cpc[c] = "connect" /\ \E id \in 1..seq : Buffered(id) /\ kind[id] = "end")
            ~> cpc[c] \in {"closed", "off"}
=============================================================================
