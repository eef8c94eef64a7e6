------------------------- MODULE EventStream_proofs -------------------------
(***************************************************************************)
(* The event stream for any number of clients, events, deaths of the       *)
(* publisher, lost connections and any size of the buffer: a client sees   *)
(* the ids rise, and misses nothing from its subscription on.              *)
(***************************************************************************)
EXTENDS EventStream, TLAPS

\* Ids in the order of their INCR.
Rising(s) == \A i, j \in DOMAIN s : i < j => s[i] < s[j]

\* A list of rising ids takes a larger one at its end.
LEMMA AppendRising ==
    ASSUME NEW s \in Seq(Nat), NEW e \in Nat, Rising(s),
           \A x \in Nat : Contains(s, x) => x < e
    PROVE  /\ Append(s, e) \in Seq(Nat) /\ Rising(Append(s, e))
           /\ \A x \in Nat : Contains(Append(s, e), x) <=> Contains(s, x) \/ x = e
<1>1. /\ Append(s, e) \in Seq(Nat) /\ Len(Append(s, e)) = Len(s) + 1
      /\ \A i \in 1..Len(s) : Append(s, e)[i] = s[i]
      /\ Append(s, e)[Len(s) + 1] = e
  OBVIOUS
<1>2. \A i \in DOMAIN s : s[i] < e
  BY DEF Contains
<1>3. Rising(Append(s, e))
  BY <1>1, <1>2 DEF Rising
<1>4. \A x \in Nat : Contains(Append(s, e), x) <=> Contains(s, x) \/ x = e
  <2> TAKE x \in Nat
  <2>1. Contains(Append(s, e), x) => Contains(s, x) \/ x = e
    BY <1>1 DEF Contains
  <2>2. ASSUME Contains(s, x) PROVE Contains(Append(s, e), x)
    <3>1. PICK i \in 1..Len(s) : s[i] = x
      BY <2>2 DEF Contains
    <3>2. i \in 1..Len(Append(s, e)) /\ Append(s, e)[i] = x
      BY <1>1, <3>1
    <3> QED
      BY <3>2 DEF Contains
  <2>3. Contains(Append(s, e), e)
    <3>1. Len(s) + 1 \in 1..Len(Append(s, e))
      BY <1>1
    <3> QED
      BY <1>1, <3>1 DEF Contains
  <2> QED
    BY <2>1, <2>2, <2>3
<1> QED
  BY <1>1, <1>3, <1>4

\* The first of a list of rising ids is the smallest.
LEMMA TailRising ==
    ASSUME NEW s \in Seq(Nat), s # <<>>, Rising(s)
    PROVE  /\ Tail(s) \in Seq(Nat) /\ Rising(Tail(s))
           /\ Head(s) \in Nat /\ Contains(s, Head(s))
           /\ \A x \in Nat : Contains(s, x) =>
                 x = Head(s) \/ (Contains(Tail(s), x) /\ Head(s) < x)
           /\ \A x \in Nat : Contains(Tail(s), x) => Contains(s, x)
<1>1. /\ Tail(s) \in Seq(Nat) /\ Len(Tail(s)) = Len(s) - 1 /\ Len(s) >= 1
      /\ \A i \in 1..Len(Tail(s)) : Tail(s)[i] = s[i + 1]
      /\ Head(s) = s[1] /\ Head(s) \in Nat
  OBVIOUS
<1>2. Rising(Tail(s))
  <2> DEFINE t == Tail(s)
  <2>1. /\ DOMAIN t = 1..Len(t) /\ DOMAIN s = 1..Len(s)
        /\ Len(t) \in Nat /\ Len(s) = Len(t) + 1
        /\ \A i \in 1..Len(t) : t[i] = s[i + 1]
    BY <1>1
  <2> HIDE DEF t
  <2> SUFFICES ASSUME NEW i \in 1..Len(t), NEW j \in 1..Len(t), i < j
               PROVE  t[i] < t[j]
    BY <2>1 DEF Rising, t
  <2>2. i + 1 \in DOMAIN s /\ j + 1 \in DOMAIN s /\ i + 1 < j + 1
    BY <2>1
  <2>3. s[i + 1] < s[j + 1]
    BY <2>2 DEF Rising
  <2> QED
    BY <2>1, <2>3
<1>3. Contains(s, Head(s))
  BY <1>1 DEF Contains
<1>4. ASSUME NEW x \in Nat, Contains(s, x), x # Head(s)
      PROVE  Contains(Tail(s), x) /\ Head(s) < x
  <2>1. PICK i \in 1..Len(s) : s[i] = x
    BY <1>4 DEF Contains
  <2>2. i > 1 /\ i - 1 \in 1..Len(Tail(s)) /\ Tail(s)[i - 1] = x
    BY <1>1, <1>4, <2>1
  <2>3. Contains(Tail(s), x)
    BY <2>2 DEF Contains
  <2>4. 1 \in DOMAIN s /\ i \in DOMAIN s /\ 1 < i
    BY <1>1, <2>1, <2>2
  <2>5. s[1] < s[i]
    BY <2>4 DEF Rising
  <2> QED
    BY <1>1, <2>1, <2>3, <2>5
<1>5. ASSUME NEW x \in Nat, Contains(Tail(s), x) PROVE Contains(s, x)
  <2>1. PICK i \in 1..Len(Tail(s)) : Tail(s)[i] = x
    BY <1>5 DEF Contains
  <2>2. i + 1 \in 1..Len(s) /\ s[i + 1] = x
    BY <1>1, <2>1
  <2> QED
    BY <2>2 DEF Contains
<1> QED
  BY <1>1, <1>2, <1>3, <1>4, <1>5

\* LTRIM keeps the order and brings in nothing.
LEMMA TrimRising ==
    ASSUME NEW s \in Seq(Nat), Rising(s)
    PROVE  LET t == LastUpTo(BufferMax, s)
           IN  /\ t \in Seq(Nat) /\ Rising(t)
               /\ \A x \in Nat : Contains(t, x) => Contains(s, x)
<1> USE StreamAssumption
<1>1. CASE Len(s) > BufferMax
  <2> DEFINE k == Len(s) - BufferMax
             t == SubSeq(s, k + 1, Len(s))
  <2>1. k \in Nat /\ Len(s) \in Nat
    BY <1>1
  <2>2. /\ t \in Seq(Nat) /\ Len(t) = Len(s) - k
        /\ \A i \in 1..Len(t) : t[i] = s[i + k]
    BY <1>1, <2>1
  <2>3. LastUpTo(BufferMax, s) = t
    BY <1>1 DEF LastUpTo
  <2> HIDE DEF t, k
  <2>4. Len(t) \in Nat /\ k \in Nat /\ Len(s) \in Nat /\ Len(t) + k = Len(s)
    BY <2>1, <2>2
  <2>5. \A i \in 1..Len(t) : i + k \in 1..Len(s)
    BY <2>4
  <2>6. Rising(t)
    <3> SUFFICES ASSUME NEW i \in 1..Len(t), NEW j \in 1..Len(t), i < j
                 PROVE  t[i] < t[j]
      BY <2>2 DEF Rising
    <3>1. i + k \in 1..Len(s) /\ j + k \in 1..Len(s) /\ i + k < j + k
      BY <2>4, <2>5
    <3>2. s[i + k] < s[j + k]
      BY <3>1 DEF Rising
    <3> QED
      BY <2>2, <3>2
  <2>7. \A x \in Nat : Contains(t, x) => Contains(s, x)
    <3> TAKE x \in Nat
    <3> HAVE Contains(t, x)
    <3>1. PICK i \in 1..Len(t) : t[i] = x
      BY DEF Contains
    <3>2. s[i + k] = x
      BY <2>2, <3>1
    <3>3. i + k \in 1..Len(s)
      BY <2>5, <3>1
    <3> QED
      BY <3>2, <3>3 DEF Contains
  <2> QED
    BY <2>2, <2>3, <2>6, <2>7
<1>2. CASE ~(Len(s) > BufferMax)
  BY <1>2 DEF LastUpTo
<1> QED
  BY <1>1, <1>2

-----------------------------------------------------------------------------
(* Every list holds ids that INCR has given, in their order; the id that is *)
(* being published is in none of them.                                      *)

TypeInv ==
    /\ seq \in Nat /\ buffer \in Seq(Nat) /\ published \in SUBSET Nat
    /\ inbox \in [Client -> Seq(Nat)] /\ replay \in [Client -> Seq(Nat)]
    /\ got \in [Client -> Seq(Nat)] /\ seen \in [Client -> Nat]
    /\ cpc \in [Client -> {"off", "connect", "subscribed", "live", "closed"}]
    /\ since \in [Client -> SUBSET Nat]

\* INCR has given x, and x is not the id that is now being published.
Given(x) == x <= seq /\ (pub = "publish" => x < seq)

\* What is listed, published or seen has been given.
UpTo ==
    /\ \A x \in Nat : Contains(buffer, x) \/ x \in published => Given(x)
    /\ \A c \in Client : Given(seen[c])
    /\ \A c \in Client : \A x \in Nat :
          Contains(inbox[c], x) \/ Contains(replay[c], x) => Given(x)

OrderInv ==
    /\ TypeInv
    /\ Rising(buffer)
    /\ \A c \in Client : Rising(inbox[c]) /\ Rising(replay[c]) /\ Rising(got[c])
    /\ \A c \in Client : \A x \in Nat : Contains(got[c], x) => x <= seen[c]
    /\ pub = "publish" => seq > 0
    /\ UpTo
    /\ pub = "store" => \A x \in Nat : Contains(buffer, x) => x < seq

\* Nothing is listed at the start.
LEMMA EmptyContains == \A x : ~Contains(<<>>, x)
  BY DEF Contains

\* The order holds at the start.
LEMMA OrderInit == Init => OrderInv
<1> SUFFICES ASSUME Init PROVE OrderInv
  OBVIOUS
<1>1. TypeInv
  BY DEF Init, TypeInv
<1>2. UpTo
  BY EmptyContains DEF Init, UpTo, Given
<1>3. Rising(<<>>)
  BY DEF Rising
<1> QED
  BY <1>1, <1>2, <1>3, EmptyContains DEF Init, OrderInv

\* The publisher and a client's own moves keep the order.
LEMMA OrderPublisher ==
    ASSUME OrderInv, PublisherStep \/ Crash
    PROVE  OrderInv'
<1> USE DEF OrderInv, TypeInv, clientVars, storeVars, pubVars, boundVars
<1>1. CASE Incr
  BY <1>1 DEF Incr, UpTo, Given
<1>2. CASE Publish
  <2>1. ASSUME NEW c \in Client
        PROVE  /\ inbox'[c] \in Seq(Nat) /\ Rising(inbox'[c])
               /\ \A x \in Nat : Contains(inbox'[c], x) =>
                     Contains(inbox[c], x) \/ x = seq
    <3>1. \A x \in Nat : Contains(inbox[c], x) => x < seq
      BY <1>2 DEF Publish, UpTo, Given
    <3>2. inbox'[c] = inbox[c] \/ inbox'[c] = Append(inbox[c], seq)
      BY <1>2 DEF Publish
    <3>3. inbox[c] \in Seq(Nat) /\ Rising(inbox[c]) /\ seq \in Nat
      OBVIOUS
    <3>4. CASE inbox'[c] = Append(inbox[c], seq)
      <4>1. /\ Append(inbox[c], seq) \in Seq(Nat) /\ Rising(Append(inbox[c], seq))
            /\ \A x \in Nat : Contains(Append(inbox[c], seq), x) <=>
                                 Contains(inbox[c], x) \/ x = seq
        BY <3>1, <3>3, AppendRising
      <4> QED
        BY <3>4, <4>1
    <3> QED
      BY <3>2, <3>3, <3>4
  <2>2. inbox' \in [Client -> Seq(Nat)]
    BY <1>2, <2>1 DEF Publish
  <2>3. \A x \in Nat : Contains(buffer, x) => x < seq
    BY <1>2 DEF Publish, UpTo, Given
  <2>4. UpTo'
    BY <1>2, <2>1 DEF Publish, UpTo, Given
  <2> QED
    BY <1>2, <2>1, <2>2, <2>3, <2>4 DEF Publish
<1>3. CASE Store
  <2>1. /\ buffer' \in Seq(Nat) /\ Rising(buffer')
        /\ \A x \in Nat : Contains(buffer', x) => Contains(buffer, x) \/ x = seq
    BY <1>3, AppendRising DEF Store
  <2> QED
    BY <1>3, <2>1 DEF Store, UpTo, Given
<1>4. CASE Trim
  <2>1. /\ buffer' \in Seq(Nat) /\ Rising(buffer')
        /\ \A x \in Nat : Contains(buffer', x) => Contains(buffer, x)
    BY <1>4, TrimRising DEF Trim
  <2> QED
    BY <1>4, <2>1 DEF Trim, UpTo, Given
<1>5. CASE Note \/ Recover \/ Crash
  BY <1>5 DEF Note, Recover, Crash, UpTo, Given
<1> QED
  BY <1>1, <1>2, <1>3, <1>4, <1>5 DEF PublisherStep

\* What Take does of an id that no later one precedes.
LEMMA TakeFacts ==
    ASSUME OrderInv, NEW c \in Client, NEW id \in Nat, Take(c, id)
    PROVE  /\ got' \in [Client -> Seq(Nat)] /\ seen' \in [Client -> Nat]
           /\ cpc' \in [Client -> {"off", "connect", "subscribed", "live", "closed"}]
           /\ \A d \in Client \ {c} : seen'[d] = seen[d] /\ got'[d] = got[d]
                                      /\ cpc'[d] = cpc[d]
           /\ Rising(got'[c])
           /\ \A x \in Nat : Contains(got[c], x) => Contains(got'[c], x)
           /\ \A x \in Nat : Contains(got'[c], x) => x <= seen'[c]
           /\ id > seen[c] => seen'[c] = id /\ Contains(got'[c], id)
           /\ ~(id > seen[c]) => seen'[c] = seen[c]
           /\ cpc'[c] \in {cpc[c], "closed"}
<1> USE DEF OrderInv, TypeInv
<1>1. CASE id > seen[c]
  <2>1. /\ seen' = [seen EXCEPT ![c] = id]
        /\ got' = [got EXCEPT ![c] = Append(got[c], id)]
        /\ cpc' = [cpc EXCEPT ![c] = "closed"] \/ cpc' = cpc
    BY <1>1 DEF Take
  <2>2. \A x \in Nat : Contains(got[c], x) => x < id
    BY <1>1
  <2>3. /\ Append(got[c], id) \in Seq(Nat) /\ Rising(Append(got[c], id))
        /\ \A x \in Nat : Contains(Append(got[c], id), x) <=>
                             Contains(got[c], x) \/ x = id
    BY <2>2, AppendRising
  <2>4. got'[c] = Append(got[c], id) /\ seen'[c] = id /\ cpc'[c] \in {cpc[c], "closed"}
    BY <2>1
  <2>5. /\ \A x \in Nat : Contains(got'[c], x) => x <= seen'[c]
        /\ Contains(got'[c], id)
    BY <2>2, <2>3, <2>4
  <2>6. /\ got' \in [Client -> Seq(Nat)] /\ seen' \in [Client -> Nat]
        /\ cpc' \in [Client -> {"off", "connect", "subscribed", "live", "closed"}]
        /\ \A d \in Client \ {c} : seen'[d] = seen[d] /\ got'[d] = got[d]
                                   /\ cpc'[d] = cpc[d]
    BY <2>1, <2>3
  <2> QED
    BY <1>1, <2>3, <2>4, <2>5, <2>6
<1>2. CASE ~(id > seen[c])
  BY <1>2 DEF Take
<1> QED
  BY <1>1, <1>2

\* The clients keep the order.
LEMMA OrderClient ==
    ASSUME OrderInv, NEW c \in Client, Connect(c) \/ ClientStep(c) \/ Drop(c)
    PROVE  OrderInv'
<1> USE EmptyContains DEF OrderInv, TypeInv, storeVars, pubVars, boundVars
<1>1. CASE Connect(c) \/ Subscribe(c)
  <2>1. cpc' \in [Client -> {"off", "connect", "subscribed", "live", "closed"}]
    BY <1>1 DEF Connect, Subscribe
  <2>2. since' \in [Client -> SUBSET Nat]
    BY <1>1 DEF Connect, Subscribe
  <2>3. UNCHANGED <<seq, buffer, pub, published, inbox, replay, seen, got>>
    BY <1>1 DEF Connect, Subscribe
  <2>4. UpTo'
    BY <2>3 DEF UpTo, Given
  <2>5. TypeInv'
    BY <2>1, <2>2, <2>3
  <2> QED
    BY <2>3, <2>4, <2>5
<1>2. CASE Replay(c)
  <2>1. TypeInv'
    BY <1>2 DEF Replay
  <2>2. UpTo'
    BY <1>2 DEF Replay, UpTo, Given
  <2> QED
    BY <1>2, <2>1, <2>2 DEF Replay
<1>3. CASE YieldReplayed(c)
  <2> DEFINE h == Head(replay[c])
  <2>1. /\ Tail(replay[c]) \in Seq(Nat) /\ Rising(Tail(replay[c]))
        /\ h \in Nat /\ Contains(replay[c], h)
        /\ \A x \in Nat : Contains(Tail(replay[c]), x) => Contains(replay[c], x)
    BY <1>3, TailRising DEF YieldReplayed
  <2>2. Take(c, h) /\ replay' = [replay EXCEPT ![c] = Tail(replay[c])]
    BY <1>3 DEF YieldReplayed
  <2> HIDE DEF h
  <2>3. /\ replay' \in [Client -> Seq(Nat)]
        /\ \A d \in Client : Rising(replay'[d]) /\
              \A x \in Nat : Contains(replay'[d], x) => Contains(replay[d], x)
    BY <2>1, <2>2
  <2>4. /\ got' \in [Client -> Seq(Nat)] /\ seen' \in [Client -> Nat]
        /\ cpc' \in [Client -> {"off", "connect", "subscribed", "live", "closed"}]
        /\ \A d \in Client : Rising(got'[d]) /\ seen'[d] \in {seen[d], h}
        /\ \A d \in Client \ {c} : seen'[d] = seen[d]
        /\ \A d \in Client : \A x \in Nat : Contains(got'[d], x) => x <= seen'[d]
    BY <2>1, <2>2, TakeFacts
  <2>5. UpTo'
    <3>1. Given(h) /\ \A d \in Client : Given(seen[d])
      BY <2>1 DEF UpTo
    <3>2. UNCHANGED <<seq, pub, buffer, published, inbox>>
      BY <1>3 DEF YieldReplayed
    <3> QED
      BY <2>3, <2>4, <3>1, <3>2 DEF UpTo, Given
  <2> QED
    BY <1>3, <2>3, <2>4, <2>5 DEF YieldReplayed
<1>4. CASE YieldLive(c)
  <2> DEFINE h == Head(inbox[c])
  <2>1. /\ Tail(inbox[c]) \in Seq(Nat) /\ Rising(Tail(inbox[c]))
        /\ h \in Nat /\ Contains(inbox[c], h)
        /\ \A x \in Nat : Contains(Tail(inbox[c]), x) => Contains(inbox[c], x)
    BY <1>4, TailRising DEF YieldLive
  <2>2. Take(c, h) /\ inbox' = [inbox EXCEPT ![c] = Tail(inbox[c])]
    BY <1>4 DEF YieldLive
  <2> HIDE DEF h
  <2>3. /\ inbox' \in [Client -> Seq(Nat)]
        /\ \A d \in Client : Rising(inbox'[d]) /\
              \A x \in Nat : Contains(inbox'[d], x) => Contains(inbox[d], x)
    BY <2>1, <2>2
  <2>4. /\ got' \in [Client -> Seq(Nat)] /\ seen' \in [Client -> Nat]
        /\ cpc' \in [Client -> {"off", "connect", "subscribed", "live", "closed"}]
        /\ \A d \in Client : Rising(got'[d]) /\ seen'[d] \in {seen[d], h}
        /\ \A d \in Client \ {c} : seen'[d] = seen[d]
        /\ \A d \in Client : \A x \in Nat : Contains(got'[d], x) => x <= seen'[d]
    BY <2>1, <2>2, TakeFacts
  <2>5. UpTo'
    <3>1. Given(h) /\ \A d \in Client : Given(seen[d])
      BY <2>1 DEF UpTo
    <3>2. UNCHANGED <<seq, pub, buffer, published, replay>>
      BY <1>4 DEF YieldLive
    <3>3. \A d \in Client : Given(seen[d])'
      BY <2>4, <3>1, <3>2 DEF Given
    <3> QED
      BY <2>3, <3>2, <3>3 DEF UpTo, Given
  <2> QED
    BY <1>4, <2>3, <2>4, <2>5 DEF YieldLive
<1>5. CASE Drop(c)
  <2>1. TypeInv'
    BY <1>5 DEF Drop
  <2>2. UpTo'
    BY <1>5 DEF Drop, UpTo, Given
  <2>3. /\ Rising(<<>>)
        /\ \A d \in Client : inbox'[d] \in {inbox[d], <<>>}
                              /\ replay'[d] \in {replay[d], <<>>}
    BY <1>5 DEF Drop, Rising
  <2> QED
    BY <1>5, <2>1, <2>2, <2>3 DEF Drop
<1> QED
  BY <1>1, <1>2, <1>3, <1>4, <1>5 DEF ClientStep

\* Every step keeps the order.
LEMMA OrderStep == OrderInv /\ [Next]_vars => OrderInv'
<1> SUFFICES ASSUME OrderInv, [Next]_vars PROVE OrderInv'
  OBVIOUS
<1>1. CASE UNCHANGED vars
  BY <1>1 DEF vars, storeVars, pubVars, clientVars, boundVars, OrderInv, TypeInv, UpTo, Given
<1> QED
  BY <1>1, OrderPublisher, OrderClient DEF Next

\* The order holds throughout.
LEMMA Ordered == Spec => []OrderInv
  BY OrderInit, OrderStep, PTL DEF Spec

\* Whatever replays, live messages and reconnections overlap, a client of
\* sse_generator gets an event once and never an older one after a newer one.
THEOREM ClientsSeeOrder == Spec => []InOrder
<1>1. OrderInv => InOrder
  BY DEF OrderInv, InOrder, Rising
<1> QED
  BY <1>1, Ordered, PTL

-----------------------------------------------------------------------------
(* What a client has not had of the events published since it subscribed is *)
(* in its replay or its inbox, above the id at which it stands.  An event    *)
(* counts from its PUBLISH, before its RPUSH: a replay may lack it and yet   *)
(* hold no later one, so the client does not pass it by.                     *)

\* In the buffer, or published and about to be.
Arriving(id) == Contains(buffer, id) \/ (pub = "store" /\ id = seq)

OnItsWay(c, id) == seen[c] < id /\ (Contains(replay[c], id) \/ Contains(inbox[c], id))

MissInv ==
    /\ OrderInv
    /\ \A c \in Client :
          cpc[c] \in {"off", "connect", "subscribed"} => replay[c] = <<>>
    /\ \A c \in Client : \A id, x \in Nat :
          Arriving(id) /\ Contains(replay[c], x) /\ x > id =>
             Contains(replay[c], id) \/ id <= seen[c]
    /\ \A c \in Client : Subscribed(c) =>
          \A id \in published \ since[c] :
             Arriving(id) => Contains(got[c], id) \/ OnItsWay(c, id)

\* Nobody has subscribed at the start.
LEMMA MissInit == Init => MissInv
<1> SUFFICES ASSUME Init PROVE MissInv
  OBVIOUS
<1>1. OrderInv
  BY OrderInit
<1>2. \A c \in Client : cpc[c] = "off" /\ replay[c] = <<>> /\ ~Subscribed(c)
  BY DEF Init, Subscribed
<1> QED
  BY <1>1, <1>2, EmptyContains DEF MissInv

\* The publisher takes nothing away, and what it publishes is above all else.
LEMMA MissPublisher ==
    ASSUME MissInv, PublisherStep \/ Crash
    PROVE  MissInv'
<1> USE DEF MissInv, clientVars, storeVars, pubVars, boundVars
<1>0. OrderInv'
  BY OrderPublisher
<1>1. CASE Publish
  <2>1. /\ seq \in Nat /\ pub = "publish" /\ pub' = "store" /\ published' = published \cup {seq}
        /\ UNCHANGED <<seq, buffer, cpc, replay, seen, got, since>>
        /\ \A c \in Client : inbox'[c] = IF Subscribed(c) THEN Append(inbox[c], seq)
                                                          ELSE inbox[c]
    BY <1>1 DEF Publish, OrderInv, TypeInv
  <2>2. /\ \A c \in Client : seen[c] < seq
        /\ \A c \in Client : \A x \in Nat :
              Contains(inbox[c], x) \/ Contains(replay[c], x) => x < seq
    BY <2>1 DEF OrderInv, UpTo, Given
  <2>3. \A c \in Client : Subscribed(c) =>
           /\ Contains(inbox'[c], seq)
           /\ \A x \in Nat : Contains(inbox[c], x) => Contains(inbox'[c], x)
    <3> TAKE c \in Client
    <3> HAVE Subscribed(c)
    <3>1. inbox[c] \in Seq(Nat) /\ Rising(inbox[c])
      BY DEF OrderInv, TypeInv
    <3>2. \A x \in Nat : Contains(Append(inbox[c], seq), x) <=>
                            Contains(inbox[c], x) \/ x = seq
      BY <2>1, <2>2, <3>1, AppendRising
    <3> QED
      BY <2>1, <3>2
  <2>4. \A id \in Nat : Arriving(id)' => Arriving(id) \/ id = seq
    BY <2>1 DEF Arriving
  <2>5. ASSUME NEW c \in Client, NEW id \in Nat, NEW x \in Nat,
               Arriving(id)', Contains(replay[c], x), x > id
        PROVE  Contains(replay[c], id) \/ id <= seen[c]
    BY <2>1, <2>2, <2>4, <2>5
  <2>6. ASSUME NEW c \in Client, Subscribed(c), NEW id \in published' \ since[c],
               Arriving(id)'
        PROVE  Contains(got[c], id) \/ OnItsWay(c, id)'
    <3>1. id \in Nat /\ (id = seq \/ (id \in published \ since[c] /\ Arriving(id)))
      BY <2>1, <2>4, <2>6 DEF OrderInv, TypeInv
    <3> QED
      BY <2>1, <2>2, <2>3, <2>6, <3>1 DEF OnItsWay
  <2>7. \A c \in Client : Subscribed(c)' <=> Subscribed(c)
    BY <2>1 DEF Subscribed
  <2> QED
    BY <1>0, <2>1, <2>5, <2>6, <2>7
<1>2. CASE ~Publish
  <2>1. /\ UNCHANGED <<published, cpc, inbox, replay, seen, got, since>>
        /\ \/ UNCHANGED buffer /\ pub' # "store"
           \/ buffer' = Append(buffer, seq) /\ pub = "store" /\ pub' # "store"
           \/ buffer' = LastUpTo(BufferMax, buffer) /\ pub' # "store"
    BY <1>2 DEF PublisherStep, Incr, Store, Trim, Note, Recover, Crash
  <2>2. \A id \in Nat : Arriving(id)' => Arriving(id)
    <3>1. /\ buffer \in Seq(Nat) /\ Rising(buffer) /\ seq \in Nat
          /\ pub = "store" => \A x \in Nat : Contains(buffer, x) => x < seq
      BY DEF OrderInv, TypeInv
    <3>2. CASE buffer' = Append(buffer, seq) /\ pub = "store" /\ pub' # "store"
      <4>1. \A x \in Nat : Contains(buffer', x) <=> Contains(buffer, x) \/ x = seq
        BY <3>1, <3>2, AppendRising
      <4> QED
        BY <3>2, <4>1 DEF Arriving
    <3>3. CASE buffer' = LastUpTo(BufferMax, buffer) /\ pub' # "store"
      <4>1. \A x \in Nat : Contains(buffer', x) => Contains(buffer, x)
        BY <3>1, <3>3, TrimRising
      <4> QED
        BY <3>3, <4>1 DEF Arriving
    <3> QED
      BY <2>1, <3>2, <3>3 DEF Arriving
  <2>3. published \in SUBSET Nat
    BY DEF OrderInv, TypeInv
  <2> QED
    BY <1>0, <2>1, <2>2, <2>3 DEF Subscribed, OnItsWay
<1> QED
  BY <1>1, <1>2

\* A client passes by no event that is on its way to it.
LEMMA MissClient ==
    ASSUME MissInv, NEW c \in Client, Connect(c) \/ ClientStep(c) \/ Drop(c)
    PROVE  MissInv'
<1> USE DEF MissInv
<1>0. /\ OrderInv' /\ OrderInv
      /\ cpc \in [Client -> {"off", "connect", "subscribed", "live", "closed"}]
      /\ replay \in [Client -> Seq(Nat)] /\ inbox \in [Client -> Seq(Nat)]
      /\ seen \in [Client -> Nat] /\ got \in [Client -> Seq(Nat)]
      /\ since \in [Client -> SUBSET Nat] /\ published \in SUBSET Nat
  BY OrderClient DEF OrderInv, TypeInv
<1>1. UNCHANGED <<seq, buffer, pub, published>>
  BY DEF ClientStep, Connect, Subscribe, Replay, YieldReplayed, YieldLive, Drop,
         storeVars, pubVars
<1>2. \A id : Arriving(id)' <=> Arriving(id)
  BY <1>1 DEF Arriving
<1>3. CASE Connect(c) \/ Subscribe(c) \/ Drop(c)
  <2>1. /\ \A d \in Client \ {c} :
              /\ cpc'[d] = cpc[d] /\ replay'[d] = replay[d] /\ inbox'[d] = inbox[d]
              /\ since'[d] = since[d]
        /\ seen' = seen /\ got' = got /\ replay'[c] = <<>>
        /\ cpc'[c] \in {"off", "connect", "subscribed"}
        /\ cpc'[c] = "subscribed" => since'[c] = published
    BY <1>0, <1>3 DEF Connect, Subscribe, Drop
  <2>2. ASSUME NEW d \in Client, NEW id \in Nat, NEW x \in Nat,
               Arriving(id), Contains(replay'[d], x), x > id
        PROVE  Contains(replay'[d], id) \/ id <= seen'[d]
    BY <2>1, <2>2, EmptyContains
  <2>3. ASSUME NEW d \in Client, Subscribed(d)', NEW id \in published \ since'[d],
               Arriving(id)
        PROVE  Contains(got'[d], id) \/ OnItsWay(d, id)'
    <3>1. d # c
      BY <2>1, <2>3 DEF Subscribed
    <3> QED
      BY <2>1, <2>3, <3>1 DEF Subscribed, OnItsWay
  <2>4. \A d \in Client :
           cpc'[d] \in {"off", "connect", "subscribed"} => replay'[d] = <<>>
    BY <2>1
  <2> QED
    BY <1>0, <1>1, <1>2, <2>2, <2>3, <2>4
<1>4. CASE Replay(c)
  <2>1. /\ UNCHANGED <<inbox, seen, got, since>>
        /\ cpc' = [cpc EXCEPT ![c] = "live"] /\ replay' = [replay EXCEPT ![c] = buffer]
        /\ cpc[c] = "subscribed" /\ replay[c] = <<>>
    BY <1>4 DEF Replay
  <2>2. \A id, x \in Nat : Arriving(id) /\ Contains(buffer, x) /\ x > id =>
                              Contains(buffer, id)
    BY DEF Arriving, OrderInv, UpTo, Given, TypeInv
  <2>3. ASSUME NEW id \in published \ since[c], Arriving(id)
        PROVE  Contains(got'[c], id) \/ OnItsWay(c, id)'
    <3>1. Contains(got[c], id) \/ (seen[c] < id /\ Contains(inbox[c], id))
      BY <2>1, <2>3, EmptyContains DEF Subscribed, OnItsWay
    <3> QED
      BY <2>1, <3>1 DEF OnItsWay
  <2>4. \A d \in Client \ {c} : cpc'[d] = cpc[d] /\ replay'[d] = replay[d]
    BY <1>0, <2>1
  <2>5. cpc'[c] = "live" /\ replay'[c] = buffer
    BY <1>0, <2>1
  <2> QED
    BY <1>0, <1>1, <1>2, <2>1, <2>2, <2>3, <2>4, <2>5 DEF Subscribed, OnItsWay
<1>5. CASE YieldReplayed(c)
  <2> DEFINE h == Head(replay[c])
  <2>1. /\ Take(c, h) /\ replay' = [replay EXCEPT ![c] = Tail(replay[c])]
        /\ UNCHANGED <<inbox, since>> /\ cpc[c] = "live" /\ replay[c] # <<>>
    BY <1>5 DEF YieldReplayed
  <2>2. /\ Tail(replay[c]) \in Seq(Nat)
        /\ h \in Nat /\ Contains(replay[c], h)
        /\ \A x \in Nat : Contains(replay[c], x) =>
              x = h \/ (Contains(Tail(replay[c]), x) /\ h < x)
        /\ \A x \in Nat : Contains(Tail(replay[c]), x) => Contains(replay[c], x)
    BY <1>0, <2>1, TailRising DEF OrderInv
  <2> HIDE DEF h
  <2>3. /\ \A d \in Client \ {c} : seen'[d] = seen[d] /\ got'[d] = got[d]
                                   /\ cpc'[d] = cpc[d] /\ replay'[d] = replay[d]
        /\ replay'[c] = Tail(replay[c])
        /\ cpc'[c] \in {"live", "closed"}
        /\ \A x \in Nat : Contains(got[c], x) => Contains(got'[c], x)
        /\ h > seen[c] => seen'[c] = h /\ Contains(got'[c], h)
        /\ ~(h > seen[c]) => seen'[c] = seen[c]
    BY <1>0, <2>1, <2>2, TakeFacts
  <2>4. ASSUME NEW id \in published \ since[c], Arriving(id)
        PROVE  Contains(got'[c], id) \/ OnItsWay(c, id)'
    <3>1. id \in Nat /\ seen[c] \in Nat /\ seen'[c] \in Nat
      BY <1>0, <2>2, <2>3
    <3>2. CASE Contains(got[c], id)
      BY <2>3, <3>1, <3>2
    <3>3. CASE seen[c] < id /\ Contains(replay[c], id)
      <4>1. CASE id = h
        BY <2>3, <3>3, <4>1
      <4>2. CASE id # h
        BY <2>2, <2>3, <3>1, <3>3, <4>2 DEF OnItsWay
      <4> QED
        BY <4>1, <4>2
    <3>4. CASE seen[c] < id /\ Contains(inbox[c], id) /\ ~Contains(replay[c], id)
      <4>1. ~(h > id) /\ h # id
        BY <2>2, <2>4, <3>1, <3>4
      <4> QED
        BY <2>1, <2>2, <2>3, <3>1, <3>4, <4>1 DEF OnItsWay
    <3> QED
      BY <2>1, <2>4, <3>2, <3>3, <3>4 DEF Subscribed, OnItsWay
  <2>5. ASSUME NEW id \in Nat, NEW x \in Nat,
               Arriving(id), Contains(replay'[c], x), x > id
        PROVE  Contains(replay'[c], id) \/ id <= seen'[c]
    <3>1. Contains(replay[c], id) \/ id <= seen[c]
      BY <2>2, <2>3, <2>5
    <3>2. seen[c] \in Nat /\ seen'[c] \in Nat /\ seen[c] <= seen'[c]
      BY <1>0, <2>2, <2>3
    <3>3. h <= seen'[c]
      BY <2>2, <2>3, <3>2
    <3> QED
      BY <2>2, <2>3, <3>1, <3>2, <3>3
  <2> QED
    BY <1>0, <1>1, <1>2, <2>1, <2>3, <2>4, <2>5 DEF Subscribed, OnItsWay
<1>6. CASE YieldLive(c)
  <2> DEFINE h == Head(inbox[c])
  <2>1. /\ Take(c, h) /\ inbox' = [inbox EXCEPT ![c] = Tail(inbox[c])]
        /\ UNCHANGED <<replay, since>> /\ cpc[c] = "live" /\ replay[c] = <<>>
        /\ inbox[c] # <<>>
    BY <1>6 DEF YieldLive
  <2>2. /\ h \in Nat
        /\ \A x \in Nat : Contains(inbox[c], x) =>
              x = h \/ (Contains(Tail(inbox[c]), x) /\ h < x)
    BY <1>0, <2>1, TailRising DEF OrderInv
  <2> HIDE DEF h
  <2>3. /\ \A d \in Client \ {c} : seen'[d] = seen[d] /\ got'[d] = got[d]
                                   /\ cpc'[d] = cpc[d] /\ inbox'[d] = inbox[d]
        /\ inbox'[c] = Tail(inbox[c])
        /\ cpc'[c] \in {"live", "closed"}
        /\ \A x \in Nat : Contains(got[c], x) => Contains(got'[c], x)
        /\ h > seen[c] => seen'[c] = h /\ Contains(got'[c], h)
        /\ ~(h > seen[c]) => seen'[c] = seen[c]
    BY <1>0, <2>1, <2>2, TakeFacts
  <2>4. ASSUME NEW id \in published \ since[c], Arriving(id)
        PROVE  Contains(got'[c], id) \/ OnItsWay(c, id)'
    <3>1. id \in Nat /\ seen[c] \in Nat /\ seen'[c] \in Nat
      BY <1>0, <2>2, <2>3
    <3>2. Contains(got[c], id) \/ (seen[c] < id /\ Contains(inbox[c], id))
      BY <2>1, <2>4, <3>1, EmptyContains DEF Subscribed, OnItsWay
    <3> QED
      BY <2>2, <2>3, <3>1, <3>2 DEF OnItsWay
  <2>5. ASSUME NEW d \in Client, NEW id \in Nat, NEW x \in Nat,
               Arriving(id), Contains(replay[d], x), x > id
        PROVE  Contains(replay[d], id) \/ id <= seen'[d]
    <3>1. d # c
      BY <2>1, <2>5, EmptyContains
    <3> QED
      BY <2>3, <2>5, <3>1
  <2>6. ASSUME NEW d \in Client, Subscribed(d)', NEW id \in published \ since[d],
               Arriving(id)
        PROVE  Contains(got'[d], id) \/ OnItsWay(d, id)'
    <3>1. CASE d = c
      BY <2>4, <2>6, <3>1
    <3>2. CASE d # c
      BY <2>1, <2>3, <2>6, <3>2 DEF Subscribed, OnItsWay
    <3> QED
      BY <3>1, <3>2
  <2>7. \A d \in Client :
           cpc'[d] \in {"off", "connect", "subscribed"} => replay[d] = <<>>
    BY <2>1, <2>3
  <2> QED
    BY <1>0, <1>1, <1>2, <2>1, <2>5, <2>6, <2>7
<1> QED
  BY <1>3, <1>4, <1>5, <1>6 DEF ClientStep

\* Nothing is lost by a step.
LEMMA MissStep == MissInv /\ [Next]_vars => MissInv'
<1> SUFFICES ASSUME MissInv, [Next]_vars PROVE MissInv'
  OBVIOUS
<1>1. CASE UNCHANGED vars
  BY <1>1, OrderStep
     DEF vars, storeVars, pubVars, clientVars, boundVars, MissInv, Subscribed,
         Arriving, OnItsWay
<1> QED
  BY <1>1, MissPublisher, MissClient DEF Next

\* "Subscribe first" of subscribe_async: an event published after a client has
\* subscribed and still in the buffer has reached it or is on its way, however
\* PUBLISH, RPUSH, LTRIM, LRANGE, the deaths of publishers and the
\* reconnections interleave.
THEOREM NothingIsMissed == Spec => []SubscriberMissesNothing
<1>1. MissInv => SubscriberMissesNothing
  <2> SUFFICES ASSUME MissInv, NEW c \in Client, Subscribed(c),
                      NEW id \in published \ since[c], Buffered(id)
               PROVE  \/ Contains(got[c], id)
                      \/ Contains(replay[c], id)
                      \/ Contains(inbox[c], id) /\ seen[c] < id
    BY DEF SubscriberMissesNothing
  <2>1. buffer \in Seq(Nat)
    BY DEF MissInv, OrderInv, TypeInv
  <2>2. Arriving(id)
    BY <2>1 DEF Arriving, Buffered, Contains
  <2> QED
    BY <2>2 DEF MissInv, OnItsWay
<1> QED
  BY <1>1, MissInit, MissStep, PTL DEF Spec

-----------------------------------------------------------------------------
(* The types.  The buffer is over its size by the event whose LTRIM is still *)
(* to come, and by one for each publisher that died before its LTRIM.        *)

SizeInv ==
    /\ pub \in {"publish", "store", "trim", "note"} => seq > 0
    /\ Len(buffer) <= BufferMax + crashes + (IF pub = "trim" THEN 1 ELSE 0)

IdInv == TypeOK /\ SizeInv

\* A list over a set is one over any larger set, and so are its ends.
LEMMA SeqMono ==
    ASSUME NEW S, NEW T, S \subseteq T, NEW s \in Seq(S)
    PROVE  s \in Seq(T)
  OBVIOUS

\* LTRIM leaves at most BufferMax entries of those that were there.
LEMMA TrimSize ==
    ASSUME NEW S, NEW s \in Seq(S)
    PROVE  /\ LastUpTo(BufferMax, s) \in Seq(S)
           /\ Len(LastUpTo(BufferMax, s)) <= BufferMax
<1> USE StreamAssumption
<1>1. CASE Len(s) > BufferMax
  <2> DEFINE k == Len(s) - BufferMax
             t == SubSeq(s, k + 1, Len(s))
  <2>1. k \in Nat /\ k + 1 \in 1..Len(s) /\ Len(s) \in Nat
    BY <1>1
  <2>2. t \in Seq(S) /\ Len(t) = Len(s) - k
    BY <2>1
  <2> QED
    BY <1>1, <2>1, <2>2 DEF LastUpTo
<1>2. CASE ~(Len(s) > BufferMax)
  BY <1>2 DEF LastUpTo
<1> QED
  BY <1>1, <1>2

\* The types hold at the start.
LEMMA IdInit == Init => IdInv
  BY StreamAssumption DEF Init, IdInv, TypeOK, SizeInv

\* The publisher's commands keep them.
LEMMA IdPublisher ==
    ASSUME IdInv, PublisherStep \/ Crash
    PROVE  IdInv'
<1> USE StreamAssumption DEF IdInv, TypeOK, SizeInv, clientVars, storeVars, pubVars, boundVars
<1>1. CASE Incr
  <2>1. /\ seq' = seq + 1 /\ seq' \in 0..MaxEvents /\ 1..seq \subseteq 1..seq'
        /\ pub = "idle" /\ pub' = "publish"
        /\ UNCHANGED <<buffer, lastId, by, clientVars, published, boundVars>>
    BY <1>1 DEF Incr
  <2>2. kind' \in Seq({"item", "end"}) /\ Len(kind') = seq'
    BY <1>1 DEF Incr
  <2>3. /\ buffer \in Seq(1..seq') /\ inbox \in [Client -> Seq(1..seq')]
        /\ replay \in [Client -> Seq(1..seq')] /\ got \in [Client -> Seq(1..seq')]
    BY <2>1, SeqMono
  <2>4. lastId \in 0..seq' /\ seen \in [Client -> 0..seq'] /\ published \subseteq 1..seq'
    BY <2>1
  <2> QED
    BY <2>1, <2>2, <2>3, <2>4
<1>2. CASE Publish
  <2>1. /\ seq \in 1..seq /\ pub = "publish" /\ pub' = "store"
        /\ UNCHANGED <<storeVars, by, cpc, replay, seen, got, since, boundVars>>
        /\ published' = published \cup {seq}
    BY <1>2 DEF Publish
  <2>2. \A c \in Client : Append(inbox[c], seq) \in Seq(1..seq)
    BY <2>1
  <2>3. inbox' \in [Client -> Seq(1..seq)]
    BY <1>2, <2>2 DEF Publish
  <2> QED
    BY <2>1, <2>3
<1>3. CASE Store
  BY <1>3 DEF Store
<1>4. CASE Trim
  BY <1>4, TrimSize DEF Trim
<1>5. CASE Note \/ Recover \/ Crash
  <2>1. /\ UNCHANGED <<seq, kind, buffer, inbox, replay, seen, got, cpc, since,
                       published, drops>>
        /\ lastId' \in {lastId, seq} /\ by' \in {"worker", "recovery"}
        /\ pub' \in {"idle", "over", "dead"}
        /\ \/ crashes' = crashes /\ pub # "trim"
           \/ crashes' = crashes + 1 /\ crashes < MaxCrashes
    BY <1>5 DEF Note, Recover, Crash
  <2>2. Len(buffer) \in Nat
    OBVIOUS
  <2>3. Len(buffer) <= BufferMax + crashes'
    BY <2>1, <2>2
  <2>4. crashes' \in 0..MaxCrashes
    BY <2>1
  <2> QED
    BY <2>1, <2>3, <2>4
<1> QED
  BY <1>1, <1>2, <1>3, <1>4, <1>5 DEF PublisherStep

\* So do the clients: what they are given was in a list of theirs.
LEMMA IdClient ==
    ASSUME IdInv, NEW c \in Client, Connect(c) \/ ClientStep(c) \/ Drop(c)
    PROVE  IdInv'
<1> USE DEF IdInv, TypeOK, SizeInv, storeVars, pubVars, boundVars
<1>1. CASE Connect(c) \/ Subscribe(c) \/ Drop(c)
  <2>1. /\ UNCHANGED <<seq, kind, buffer, lastId, by, pub, seen, got, published,
                       crashes>>
        /\ \E s \in {"connect", "subscribed", "off"} : cpc' = [cpc EXCEPT ![c] = s]
        /\ since' \in {since, [since EXCEPT ![c] = published]}
        /\ inbox' \in {inbox, [inbox EXCEPT ![c] = <<>>]}
        /\ replay' \in {replay, [replay EXCEPT ![c] = <<>>]}
        /\ drops' = drops \/ (drops' = drops + 1 /\ drops < MaxDrops)
    <3>1. CASE Connect(c)
      BY <3>1 DEF Connect
    <3>2. CASE Subscribe(c)
      BY <3>2 DEF Subscribe
    <3>3. CASE Drop(c)
      BY <3>3 DEF Drop
    <3> QED
      BY <1>1, <3>1, <3>2, <3>3
  <2>2. cpc' \in [Client -> {"off", "connect", "subscribed", "live", "closed"}]
    BY <2>1
  <2>3. since' \in [Client -> SUBSET published]
    BY <2>1
  <2>4. inbox' \in [Client -> Seq(1..seq)] /\ replay' \in [Client -> Seq(1..seq)]
    <3>1. <<>> \in Seq(1..seq)
      OBVIOUS
    <3> QED
      BY <2>1, <3>1
  <2>5. drops' \in 0..MaxDrops
    BY <2>1, StreamAssumption
  <2> QED
    BY <2>1, <2>2, <2>3, <2>4, <2>5
<1>2. CASE Replay(c)
  <2>1. /\ UNCHANGED <<seq, kind, buffer, lastId, by, pub, inbox, seen, got, since,
                       published, crashes, drops>>
        /\ cpc' = [cpc EXCEPT ![c] = "live"] /\ replay' = [replay EXCEPT ![c] = buffer]
    BY <1>2 DEF Replay
  <2>2. replay' \in [Client -> Seq(1..seq)]
    BY <2>1
  <2>3. cpc' \in [Client -> {"off", "connect", "subscribed", "live", "closed"}]
    BY <2>1
  <2> QED
    BY <2>1, <2>2, <2>3
<1>3. ASSUME NEW s \in Seq(1..seq), s # <<>>, Take(c, Head(s))
      PROVE  /\ Tail(s) \in Seq(1..seq)
             /\ cpc' \in [Client -> {"off", "connect", "subscribed", "live", "closed"}]
             /\ seen' \in [Client -> 0..seq] /\ got' \in [Client -> Seq(1..seq)]
  <2>1. Tail(s) \in Seq(1..seq) /\ Head(s) \in 1..seq
    BY <1>3
  <2> DEFINE h == Head(s)
  <2>2. h \in 1..seq /\ Take(c, h)
    BY <1>3, <2>1
  <2> HIDE DEF h
  <2>3. /\ cpc' \in [Client -> {"off", "connect", "subscribed", "live", "closed"}]
        /\ seen' \in [Client -> 0..seq] /\ got' \in [Client -> Seq(1..seq)]
    <3>1. CASE h > seen[c]
      <4>1. /\ seen' = [seen EXCEPT ![c] = h]
            /\ got' = [got EXCEPT ![c] = Append(got[c], h)]
            /\ cpc' = [cpc EXCEPT ![c] = "closed"] \/ cpc' = cpc
        BY <2>2, <3>1 DEF Take
      <4>2. Append(got[c], h) \in Seq(1..seq)
        BY <2>2
      <4>3. got' \in [Client -> Seq(1..seq)]
        BY <4>1, <4>2
      <4>4. seen' \in [Client -> 0..seq]
        BY <2>2, <4>1
      <4>5. cpc' \in [Client -> {"off", "connect", "subscribed", "live", "closed"}]
        BY <4>1
      <4> QED
        BY <4>3, <4>4, <4>5
    <3>2. CASE ~(h > seen[c])
      BY <2>2, <3>2 DEF Take
    <3> QED
      BY <3>1, <3>2
  <2> QED
    BY <2>1, <2>3
<1>4. CASE YieldReplayed(c)
  BY <1>3, <1>4 DEF YieldReplayed
<1>5. CASE YieldLive(c)
  BY <1>3, <1>5 DEF YieldLive
<1> QED
  BY <1>1, <1>2, <1>4, <1>5 DEF ClientStep

\* So does every step.
LEMMA IdStep == IdInv /\ [Next]_vars => IdInv'
<1> SUFFICES ASSUME IdInv, [Next]_vars PROVE IdInv'
  OBVIOUS
<1>1. CASE UNCHANGED vars
  BY <1>1 DEF vars, storeVars, pubVars, clientVars, boundVars, IdInv, TypeOK, SizeInv
<1> QED
  BY <1>1, IdPublisher, IdClient DEF Next

\* Every id anywhere is one that INCR gave, and the list session:{id}:buffer is
\* over _BUFFER_MAX by no more than the LTRIMs that were not run.
THEOREM IdsAreGiven == Spec => []TypeOK
<1>1. IdInv => TypeOK
  BY DEF IdInv
<1> QED
  BY <1>1, IdInit, IdStep, PTL DEF Spec

-----------------------------------------------------------------------------
(* The safety half of LateStreamEnds.  A client that comes when a terminal  *)
(* event is in the buffer has it in its replay until its stream is closed:  *)
(* the stream is never left waiting for live messages.                      *)

EndStored == \E id \in 1..seq : Buffered(id) /\ kind[id] = "end"

ReaderStops ==
    \A c \in Client :
        [](cpc[c] = "connect" /\ EndStored => [](cpc[c] = "live" => replay[c] # <<>>))

\* Nothing but recovery's "failed" follows an end, and an open stream has not
\* come to one.
EndInv ==
    /\ IdInv /\ OrderInv
    /\ \A i, j \in 1..seq : i < j /\ kind[i] = "end" => kind[j] = "end"
    /\ by = "worker" => \A i \in 1..(seq - 1) : kind[i] = "item"
    /\ by = "worker" /\ pub = "idle" => \A i \in 1..seq : kind[i] = "item"
    /\ \A c \in Client : cpc[c] # "closed" =>
          \A i \in 1..seq : kind[i] = "end" => seen[c] < i

HasEnd(s) == \E i \in DOMAIN s : kind[s[i]] = "end"

\* The end is in the buffer, and in the replay of a stream that is live.
Meets(c) == HasEnd(buffer) /\ (cpc[c] = "live" => HasEnd(replay[c]))

\* At the start there is no event.
LEMMA EndInit == Init => EndInv
<1> SUFFICES ASSUME Init PROVE EndInv
  OBVIOUS
<1>1. IdInv /\ OrderInv
  BY IdInit, OrderInit
<1>2. seq = 0 /\ 1..seq = {} /\ 1..(seq - 1) = {}
  BY DEF Init
<1> QED
  BY <1>1, <1>2 DEF EndInv

\* The publisher adds no item after an end.
LEMMA EndPublisher ==
    ASSUME EndInv, IdInv', OrderInv', PublisherStep \/ Crash
    PROVE  EndInv'
<1> USE DEF EndInv
<1>0. /\ seq \in Nat /\ kind \in Seq({"item", "end"}) /\ Len(kind) = seq
      /\ by \in {"worker", "recovery"} /\ seen \in [Client -> 0..seq]
      /\ pub \in {"publish", "store", "trim", "note"} => seq > 0
  BY DEF IdInv, TypeOK, SizeInv
<1>1. CASE Incr
  <2>1. PICK k \in {"item", "end"} :
           /\ pub = "idle" /\ pub' = "publish" /\ seq' = seq + 1
           /\ kind' = Append(kind, k) /\ (by = "recovery" => k = "end")
           /\ UNCHANGED <<by, cpc, seen>>
    BY <1>0, <1>1 DEF Incr, clientVars
  <2>2. /\ \A i \in 1..seq : kind'[i] = kind[i]
        /\ kind'[seq'] = k
    BY <1>0, <2>1
  <2>3. \A i \in 1..seq' : i \in 1..seq \/ i = seq'
    BY <1>0, <2>1
  <2>4. \A c \in Client : seen[c] < seq'
    BY <1>0, <2>1
  <2>5. \A i, j \in 1..seq' : i < j /\ kind'[i] = "end" => kind'[j] = "end"
    BY <1>0, <2>1, <2>2, <2>3
  <2>6. by' = "worker" => \A i \in 1..(seq' - 1) : kind'[i] = "item"
    BY <1>0, <2>1, <2>2
  <2>7. \A c \in Client : cpc'[c] # "closed" =>
           \A i \in 1..seq' : kind'[i] = "end" => seen'[c] < i
    BY <2>1, <2>2, <2>3, <2>4
  <2> QED
    BY <2>1, <2>5, <2>6, <2>7
<1>2. CASE ~Incr
  <2>1. /\ UNCHANGED <<seq, kind, cpc, seen>>
        /\ by' = "worker" => by = "worker"
        /\ by' = "worker" /\ pub' = "idle" => kind[seq] # "end" /\ pub = "note"
    BY <1>2 DEF PublisherStep, Publish, Store, Trim, Note, Recover, Crash, clientVars,
                storeVars, pubVars
  <2>2. pub = "note" => seq \in 1..seq
    BY <1>0
  <2>3. by' = "worker" /\ pub' = "idle" => \A i \in 1..seq : kind[i] = "item"
    BY <1>0, <2>1, <2>2
  <2> QED
    BY <2>1, <2>3
<1> QED
  BY <1>1, <1>2

\* What a list begins with is one of its entries, and the rest follow.
LEMMA HeadIn ==
    ASSUME NEW S, NEW s \in Seq(S), s # <<>>
    PROVE  /\ Head(s) \in S /\ Head(s) = s[1]
           /\ DOMAIN Tail(s) = 1..(Len(s) - 1)
           /\ \A j \in 1..(Len(s) - 1) : Tail(s)[j] = s[j + 1]
  OBVIOUS

\* What Take does to a stream that has not come to an end.
LEMMA TakeToEnd ==
    ASSUME EndInv, NEW c \in Client, cpc[c] = "live", NEW id \in 1..seq, Take(c, id)
    PROVE  /\ \A d \in Client \ {c} : cpc'[d] = cpc[d] /\ seen'[d] = seen[d]
           /\ kind[id] = "end" => cpc'[c] = "closed"
           /\ kind[id] # "end" => cpc'[c] = "live"
           /\ kind[id] # "end" =>
                \A i \in 1..seq : kind[i] = "end" => seen'[c] < i
<1> USE DEF EndInv, IdInv, TypeOK
<1>1. CASE id > seen[c]
  <2>1. /\ seen' = [seen EXCEPT ![c] = id]
        /\ cpc' = IF kind[id] = "end" THEN [cpc EXCEPT ![c] = "closed"] ELSE cpc
    BY <1>1 DEF Take
  <2>2. ASSUME kind[id] # "end", NEW i \in 1..seq, kind[i] = "end" PROVE id < i
    BY <2>2
  <2> QED
    BY <2>1, <2>2
<1>2. CASE ~(id > seen[c])
  <2>1. UNCHANGED <<seen, cpc>> /\ kind[id] # "end"
    BY <1>2 DEF Take
  <2> QED
    BY <2>1
<1> QED
  BY <1>1, <1>2

\* A client is closed by the first end it is given.
LEMMA EndClient ==
    ASSUME EndInv, IdInv', OrderInv', NEW c \in Client,
           Connect(c) \/ ClientStep(c) \/ Drop(c)
    PROVE  EndInv'
<1> USE DEF EndInv
<1>1. UNCHANGED <<seq, kind, by, pub>>
  BY DEF ClientStep, Connect, Subscribe, Replay, YieldReplayed, YieldLive, Drop,
         storeVars, pubVars
<1>2. CASE Connect(c) \/ Subscribe(c) \/ Replay(c) \/ Drop(c)
  <2>1. /\ cpc[c] # "closed" /\ seen' = seen
        /\ \A d \in Client \ {c} : cpc'[d] = cpc[d]
    BY <1>2 DEF Connect, Subscribe, Replay, Drop, IdInv, TypeOK
  <2> QED
    BY <1>1, <2>1
<1>3. CASE YieldReplayed(c) \/ YieldLive(c)
  <2>1. PICK id \in 1..seq : Take(c, id) /\ cpc[c] = "live"
    BY <1>3, HeadIn DEF YieldReplayed, YieldLive, IdInv, TypeOK
  <2> QED
    BY <1>1, <2>1, TakeToEnd
<1> QED
  BY <1>2, <1>3 DEF ClientStep

\* The two halves together.
LEMMA EndStep == EndInv /\ [Next]_vars => EndInv'
<1> SUFFICES ASSUME EndInv, [Next]_vars PROVE EndInv'
  OBVIOUS
<1>1. IdInv' /\ OrderInv'
  BY IdStep, OrderStep DEF EndInv
<1>2. CASE UNCHANGED vars
  BY <1>1, <1>2 DEF vars, storeVars, pubVars, clientVars, boundVars, EndInv
<1> QED
  BY <1>1, <1>2, EndPublisher, EndClient DEF Next

\* An end in the buffer is also its last entry, which LTRIM keeps.
LEMMA EndStays ==
    ASSUME EndInv, HasEnd(buffer), [Next]_vars
    PROVE  HasEnd(buffer)'
<1> USE StreamAssumption
<1>0. /\ seq \in Nat /\ buffer \in Seq(1..seq) /\ buffer \in Seq(Nat)
      /\ Rising(buffer) /\ kind \in Seq({"item", "end"}) /\ Len(kind) = seq
  BY DEF EndInv, IdInv, TypeOK, OrderInv, TypeInv
<1>1. PICK i \in 1..Len(buffer) : kind[buffer[i]] = "end"
  BY <1>0 DEF HasEnd
<1>2. Len(buffer) \in 1..Len(buffer) /\ kind[buffer[Len(buffer)]] = "end"
  <2>1. Len(buffer) \in 1..Len(buffer)
    BY <1>0
  <2>2. i = Len(buffer) \/ buffer[i] < buffer[Len(buffer)]
    BY <1>0, <2>1 DEF Rising
  <2>3. buffer[i] \in 1..seq /\ buffer[Len(buffer)] \in 1..seq
    BY <1>0, <2>1
  <2> QED
    BY <1>1, <2>1, <2>2, <2>3 DEF EndInv
<1>3. \A x \in 1..seq : kind'[x] = kind[x]
  <2>1. kind' = kind \/ \E k \in {"item", "end"} : kind' = Append(kind, k)
    BY DEF Next, PublisherStep, Incr, Publish, Store, Trim, Note, Recover, Crash, vars, ClientStep,
           Connect, Subscribe, Replay, YieldReplayed, YieldLive, Drop, storeVars, pubVars
  <2>2. ASSUME NEW k \in {"item", "end"}, NEW x \in 1..seq
        PROVE  Append(kind, k)[x] = kind[x]
    BY <1>0
  <2> QED
    BY <2>1, <2>2
<1>4. \/ buffer' = buffer
      \/ buffer' = Append(buffer, seq)
      \/ buffer' = LastUpTo(BufferMax, buffer)
  BY DEF Next, PublisherStep, Incr, Publish, Store, Trim, Note, Recover, Crash, vars, ClientStep,
         Connect, Subscribe, Replay, YieldReplayed, YieldLive, Drop, storeVars, pubVars
<1>5. buffer[Len(buffer)] \in 1..seq
  BY <1>0, <1>2
<1>6. \E j \in DOMAIN buffer' : buffer'[j] = buffer[Len(buffer)]
  <2>1. CASE buffer' = buffer
    BY <1>0, <1>2, <2>1
  <2>2. CASE buffer' = Append(buffer, seq)
    <3>1. Len(buffer) \in DOMAIN buffer' /\ buffer'[Len(buffer)] = buffer[Len(buffer)]
      BY <1>0, <1>2, <2>2
    <3> QED
      BY <3>1
  <2>3. CASE buffer' = LastUpTo(BufferMax, buffer)
    <3>1. CASE Len(buffer) > BufferMax
      <4> DEFINE k == Len(buffer) - BufferMax
                 t == SubSeq(buffer, k + 1, Len(buffer))
      <4>1. buffer' = t
        BY <2>3, <3>1 DEF LastUpTo
      <4>2. Len(t) = BufferMax /\ \A j \in 1..BufferMax : t[j] = buffer[j + k]
        BY <1>0, <3>1
      <4>3. BufferMax \in DOMAIN t /\ t[BufferMax] = buffer[Len(buffer)]
        BY <1>0, <3>1, <4>2
      <4> QED
        BY <4>1, <4>3
    <3>2. CASE ~(Len(buffer) > BufferMax)
      BY <1>0, <1>2, <2>3, <3>2 DEF LastUpTo
    <3> QED
      BY <3>1, <3>2
  <2> QED
    BY <1>4, <2>1, <2>2, <2>3
<1> QED
  BY <1>2, <1>3, <1>5, <1>6 DEF HasEnd

\* A live stream's replay keeps its end until the stream is closed by it.
LEMMA MeetsStep ==
    ASSUME EndInv, NEW c \in Client, Meets(c), [Next]_vars
    PROVE  Meets(c)'
<1>1. HasEnd(buffer)'
  BY EndStays DEF Meets
<1>2. SUFFICES ASSUME cpc'[c] = "live" PROVE HasEnd(replay[c])'
  BY <1>1 DEF Meets
<1>3. /\ cpc \in [Client -> {"off", "connect", "subscribed", "live", "closed"}]
      /\ replay \in [Client -> Seq(1..seq)] /\ seq \in Nat
      /\ kind \in Seq({"item", "end"}) /\ Len(kind) = seq
      /\ buffer \in Seq(1..seq)
  BY DEF EndInv, IdInv, TypeOK
<1>4. CASE \/ PublisherStep \/ Crash \/ UNCHANGED vars
           \/ \E d \in Client \ {c} : Connect(d) \/ ClientStep(d) \/ Drop(d)
  <2>1. /\ kind' = kind \/ \E k \in {"item", "end"} : kind' = Append(kind, k)
        /\ cpc'[c] = cpc[c] /\ replay'[c] = replay[c]
    <3>1. CASE \E d \in Client \ {c} : Connect(d) \/ ClientStep(d) \/ Drop(d)
      <4>1. PICK d \in Client \ {c} : Connect(d) \/ ClientStep(d) \/ Drop(d)
        BY <3>1
      <4>2. kind' = kind
        BY <4>1 DEF ClientStep, Connect, Subscribe, Replay, YieldReplayed, YieldLive,
                    Drop, storeVars
      <4>3. /\ replay' = replay \/ \E s : replay' = [replay EXCEPT ![d] = s]
            /\ cpc' = cpc \/ \E s : cpc' = [cpc EXCEPT ![d] = s]
        BY <4>1 DEF ClientStep, Connect, Subscribe, Replay, YieldReplayed, YieldLive,
                    Drop, Take
      <4> QED
        BY <1>3, <4>2, <4>3
    <3>2. CASE PublisherStep \/ Crash \/ UNCHANGED vars
      BY <3>2 DEF PublisherStep, Incr, Publish, Store, Trim, Note, Recover, Crash, vars,
                  clientVars, storeVars
    <3> QED
      BY <1>4, <3>1, <3>2
  <2>2. PICK i \in DOMAIN replay[c] : kind[replay[c][i]] = "end"
    BY <1>2, <2>1 DEF Meets, HasEnd
  <2>3. replay[c][i] \in 1..seq
    BY <1>3, <2>2
  <2>4. kind'[replay[c][i]] = "end"
    BY <1>3, <2>1, <2>2, <2>3
  <2> QED
    BY <2>1, <2>2, <2>4 DEF HasEnd
<1>5. CASE Connect(c) \/ Subscribe(c) \/ Drop(c)
  BY <1>2, <1>3, <1>5 DEF Connect, Subscribe, Drop
<1>6. CASE Replay(c)
  <2>1. replay'[c] = buffer /\ kind' = kind
    BY <1>3, <1>6 DEF Replay, storeVars
  <2> QED
    BY <2>1 DEF Meets, HasEnd
<1>7. CASE YieldReplayed(c)
  <2>1. /\ replay[c] # <<>> /\ replay[c] \in Seq(1..seq) /\ replay'[c] = Tail(replay[c])
        /\ Take(c, Head(replay[c])) /\ cpc[c] = "live" /\ kind' = kind
    BY <1>3, <1>7 DEF YieldReplayed, storeVars
  <2>2. /\ Head(replay[c]) \in 1..seq /\ Head(replay[c]) = replay[c][1]
        /\ DOMAIN Tail(replay[c]) = 1..(Len(replay[c]) - 1)
        /\ \A j \in 1..(Len(replay[c]) - 1) : Tail(replay[c])[j] = replay[c][j + 1]
    BY <2>1, HeadIn
  <2>3. kind[Head(replay[c])] # "end"
    BY <1>2, <2>1, <2>2, TakeToEnd
  <2>4. PICK i \in 1..Len(replay[c]) : kind[replay[c][i]] = "end"
    BY <2>1 DEF Meets, HasEnd
  <2>5. i # 1 /\ i - 1 \in 1..(Len(replay[c]) - 1)
    BY <2>1, <2>2, <2>3, <2>4
  <2>6. Tail(replay[c])[i - 1] = replay[c][i]
    BY <2>1, <2>2, <2>5
  <2> QED
    BY <2>1, <2>2, <2>4, <2>5, <2>6 DEF HasEnd
<1>8. CASE YieldLive(c)
  BY <1>8, EmptyContains DEF YieldLive, Meets, HasEnd
<1> QED
  BY <1>4, <1>5, <1>6, <1>7, <1>8 DEF Next, ClientStep

\* A client of sse_generator that (re)connects when a terminal event is in the
\* buffer never comes to wait for live messages: the end is in its replay until
\* it closes the stream, whatever is published, trimmed or dropped meanwhile.
THEOREM LateReaderStops == Spec => ReaderStops
<1>1. ASSUME NEW c \in Client
      PROVE  Spec => [](cpc[c] = "connect" /\ EndStored =>
                          [](cpc[c] = "live" => replay[c] # <<>>))
  <2>1. EndInv /\ cpc[c] = "connect" /\ EndStored => Meets(c)
    BY DEF EndStored, Buffered, Meets, HasEnd
  <2>2. EndInv /\ Meets(c) /\ [Next]_vars => Meets(c)'
    BY MeetsStep
  <2>3. Meets(c) => (cpc[c] = "live" => replay[c] # <<>>)
    BY DEF Meets, HasEnd
  <2> QED
    BY <2>1, <2>2, <2>3, EndInit, EndStep, PTL DEF Spec
<1> QED
  BY <1>1 DEF ReaderStops
=============================================================================
