--------------------------- MODULE SseBrokerProofs ---------------------------
(***************************************************************************)
(* What is proved of SseBroker, for every set of connections, users,       *)
(* publishers and number of events: the types and the sizes of the         *)
(* channels; that a send on a closed channel needs a client that left      *)
(* before it was registered; and that a client's events come in order,     *)
(* after its start event, whatever is dropped.                             *)
(***************************************************************************)
EXTENDS SseBroker, SequenceTheorems, TLAPS

-----------------------------------------------------------------------------
(* A channel of size one *)

\* What a channel of size one holds, when it holds anything.
LEMMA OneInChannel ==
    ASSUME NEW S, NEW q \in Seq(S), Len(q) <= 1, q # <<>>
    PROVE  Head(q) \in S /\ q = <<Head(q)>> /\ Tail(q) = <<>>
<1>0. Len(q) \in Nat \ {0}
  BY EmptySeq
<1>1. Len(q) = 1
  BY <1>0
<1>2. Head(q) \in S /\ q = <<Head(q)>>
  BY <1>1
<1>3. Len(Tail(q)) = 0 /\ Tail(q) \in Seq(S)
  BY <1>1, EmptySeq
<1> QED BY <1>2, <1>3, EmptySeq

-----------------------------------------------------------------------------
(* Types *)

\* TypeOK, and the clients' channels and histories are functions of the clients.
Types ==
    /\ TypeOK
    /\ msgC \in [Clients -> Seq(Message)]
    /\ seen \in [Clients -> Seq(Nat)]

\* What listen sends keeps the types of the clients' channels.
LEMMA SendTypes ==
    ASSUME Types, NEW to, NEW m \in Message, Send(to, m)
    PROVE  /\ msgC' \in [Clients -> Seq(Message)]
           /\ \A c \in Clients : Len(msgC'[c]) <= BufferSize
           /\ panicked' \in BOOLEAN
<1>1. \A c \in Clients : Queued(c, m) \in Seq(Message) /\ Len(Queued(c, m)) <= BufferSize
  BY DEF Types, TypeOK, Queued, BufferSize
<1>2. \A c \in Clients : msgC[c] \in Seq(Message) /\ Len(msgC[c]) <= BufferSize
  BY DEF Types, TypeOK
<1> HIDE DEF Queued
<1> QED
  BY <1>1, <1>2 DEF Send

LEMMA InitTypes == Init => Types
<1> SUFFICES ASSUME Init PROVE Types
  OBVIOUS
<1>1. /\ publish \in Seq(Message) /\ Len(publish) <= PublishSize
      /\ subscribing \in Seq(Clients) /\ Len(subscribing) <= 1
      /\ unsubscribing \in Seq(Clients) /\ Len(unsubscribing) <= 1
  BY DEF Init, PublishSize
<1>2. /\ msgC \in [Clients -> Seq(Message)] /\ seen \in [Clients -> Seq(Nat)]
      /\ \A c \in Clients : Len(msgC[c]) <= BufferSize
  BY DEF Init, BufferSize
<1>3. /\ handler \in [Clients -> Handlers]
      /\ sending \in [Publishers -> Message \cup {Nothing}]
  BY DEF Init, Handlers
<1>4. /\ clients \subseteq Clients /\ closed \subseteq Clients /\ early \subseteq Clients
      /\ panicked \in BOOLEAN
  BY DEF Init
<1>5. eventId \in Nat /\ sent \in 0..MaxEvents
  BY BrokerAssumption DEF Init
<1> QED BY <1>1, <1>2, <1>3, <1>4, <1>5 DEF Types, TypeOK

\* Every step keeps the types, and no channel grows over its size.
LEMMA NextTypes == Types /\ [Next]_vars => Types'
<1> SUFFICES ASSUME Types, [Next]_vars PROVE Types'
  OBVIOUS
<1> USE BrokerAssumption DEF Types, TypeOK, channels, queues
<1>1. CASE UNCHANGED vars
  <2>1. /\ UNCHANGED <<publish, subscribing, unsubscribing, clients, eventId, msgC, closed>>
        /\ UNCHANGED <<handler, sending, panicked, sent, seen, early>>
    BY <1>1 DEF vars
  <2> QED BY <2>1
<1>2. ASSUME NEW p \in Publishers, NEW from \in Senders, SendMessage(p, from) PROVE Types'
  <2>1. [id |-> 0, from |-> from] \in Message
    BY DEF Message
  <2>2. sending' \in [Publishers -> Message \cup {Nothing}]
    BY <1>2, <2>1 DEF SendMessage
  <2>3. sent' \in 0..MaxEvents
    BY <1>2 DEF SendMessage
  <2> QED BY <1>2, <2>2, <2>3 DEF SendMessage
<1>3. ASSUME NEW p \in Publishers, Put(p) PROVE Types'
  <2>1. sending[p] \in Message
    BY <1>3 DEF Put
  <2>2. Append(publish, sending[p]) \in Seq(Message)
        /\ Len(Append(publish, sending[p])) <= PublishSize
    BY <1>3, <2>1 DEF Put, PublishSize
  <2>3. sending' \in [Publishers -> Message \cup {Nothing}]
    BY <1>3 DEF Put
  <2> QED BY <1>3, <2>2, <2>3 DEF Put
<1>4. ASSUME NEW c \in Clients, Subscribe(c) \/ Leave(c) \/ Unsubscribe(c) PROVE Types'
  <2>1. handler' \in [Clients -> Handlers]
    BY <1>4 DEF Subscribe, Leave, Unsubscribe, Handlers
  <2>2. <<c>> \in Seq(Clients) /\ Len(<<c>>) = 1
    OBVIOUS
  <2>3. CASE Subscribe(c)
    BY <2>1, <2>2, <2>3 DEF Subscribe
  <2>4. CASE Leave(c)
    BY <2>1, <2>4 DEF Leave
  <2>5. CASE Unsubscribe(c)
    BY <2>1, <2>2, <2>5 DEF Unsubscribe
  <2> QED BY <1>4, <2>3, <2>4, <2>5
<1>5. ASSUME NEW c \in Clients, Read(c) PROVE Types'
  <2>1. /\ Head(msgC[c]) \in Message
        /\ Tail(msgC[c]) \in Seq(Message)
        /\ Len(Tail(msgC[c])) <= BufferSize
    BY <1>5 DEF Read, BufferSize
  <2>2. Append(seen[c], Head(msgC[c]).id) \in Seq(Nat)
    BY <2>1 DEF Message
  <2> QED BY <1>5, <2>1, <2>2 DEF Read
<1>6. CASE Register
  <2>1. Head(subscribing) \in Clients /\ Tail(subscribing) \in Seq(Clients)
        /\ Len(Tail(subscribing)) <= 1
    BY <1>6 DEF Register
  <2>2. [id |-> 0, from |-> Server] \in Message
    BY DEF Message, Senders
  <2>3. Send({Head(subscribing)}, [id |-> 0, from |-> Server])
    BY <1>6 DEF Register
  <2> QED BY <1>6, <2>1, <2>2, <2>3, SendTypes DEF Register
<1>7. CASE Unregister
  <2>1. Head(unsubscribing) \in Clients /\ Tail(unsubscribing) \in Seq(Clients)
        /\ Len(Tail(unsubscribing)) <= 1
    BY <1>7 DEF Unregister
  <2> QED BY <1>7, <2>1 DEF Unregister, Forgotten
<1>8. ASSUME NEW from \in Senders, NEW to, Deliver(from, to)
      PROVE  /\ eventId' \in Nat
             /\ msgC' \in [Clients -> Seq(Message)]
             /\ \A c \in Clients : Len(msgC'[c]) <= BufferSize
             /\ panicked' \in BOOLEAN
  <2>1. NextEventId \in Nat
    BY DEF NextEventId
  <2>2. [id |-> NextEventId, from |-> from] \in Message
    BY <2>1 DEF Message
  <2> QED BY <1>8, <2>1, <2>2, SendTypes DEF Deliver
<1>9. CASE Distribute
  <2>1. /\ Head(publish) \in Message
        /\ Tail(publish) \in Seq(Message)
        /\ Len(Tail(publish)) <= PublishSize
    BY <1>9 DEF Distribute, PublishSize
  <2>2. Head(publish).from \in Senders
    BY <2>1 DEF Message
  <2> QED BY <1>8, <1>9, <2>1, <2>2 DEF Distribute, Deliver
<1>10. CASE KeepAlive
  <2>1. Server \in Senders
    BY DEF Senders
  <2>2. sent' \in 0..MaxEvents
    BY <1>10 DEF KeepAlive
  <2> QED BY <1>8, <1>10, <2>1, <2>2 DEF KeepAlive, Deliver
<1> QED
  BY <1>1, <1>2, <1>3, <1>4, <1>5, <1>6, <1>7, <1>9, <1>10 DEF Next

LEMMA TypesHold == Spec => []Types
BY InitTypes, NextTypes, PTL DEF Spec

\* The variables have their types, and no channel of the broker ever holds more than its size.
THEOREM TypeCorrect == Spec => []TypeOK
BY TypesHold, PTL DEF Types

-----------------------------------------------------------------------------
(* A send on a closed channel *)

\* Where a connection stands with listen: it subscribes once, when nothing of it is known
\* yet; only a handler that is gone has asked to be unsubscribed; and one that stopped
\* reading while its subscription was still queued is in early.
Attached ==
    \A c \in Clients :
        /\ handler[c] = "connecting" => c \notin clients /\ subscribing # <<c>>
        /\ subscribing = <<c>> =>
             c \notin clients /\ (handler[c] = "streaming" \/ c \in early)
        /\ c \in closed \/ unsubscribing = <<c>> => handler[c] = "gone"

PanicInv == Attached /\ PanicsOnlyIfEarly

LEMMA NextPanicInv == Types /\ PanicInv /\ [Next]_vars => PanicInv'
<1> SUFFICES ASSUME Types, PanicInv, [Next]_vars PROVE PanicInv'
  OBVIOUS
<1> USE DEF PanicInv, Attached, PanicsOnlyIfEarly, channels, queues
<1>0. /\ handler \in [Clients -> Handlers] /\ clients \subseteq Clients
      /\ subscribing \in Seq(Clients) /\ Len(subscribing) <= 1
      /\ unsubscribing \in Seq(Clients) /\ Len(unsubscribing) <= 1
  BY DEF Types, TypeOK
<1>1. CASE UNCHANGED vars
  <2>1. /\ UNCHANGED <<subscribing, unsubscribing, clients, closed>>
        /\ UNCHANGED <<handler, panicked, early>>
    BY <1>1 DEF vars
  <2> QED BY <2>1
<1>2. ASSUME NEW p \in Publishers, NEW from \in Senders, SendMessage(p, from) PROVE PanicInv'
  BY <1>2 DEF SendMessage
<1>11. ASSUME NEW p \in Publishers, Put(p) PROVE PanicInv'
  BY <1>11 DEF Put
<1>3. ASSUME NEW c \in Clients, Subscribe(c) PROVE PanicInv'
  <2>1. subscribing' = <<c>> /\ \A d \in Clients : subscribing' = <<d>> => d = c
    BY <1>3 DEF Subscribe
  <2>2. /\ handler[c] = "connecting" /\ handler' = [handler EXCEPT ![c] = "streaming"]
        /\ UNCHANGED <<unsubscribing, clients, closed, panicked, early>>
    BY <1>3 DEF Subscribe
  <2> QED BY <1>0, <2>1, <2>2
<1>4. ASSUME NEW c \in Clients, Read(c) PROVE PanicInv'
  BY <1>4 DEF Read
<1>5. ASSUME NEW c \in Clients, Leave(c) PROVE PanicInv'
  BY <1>0, <1>5 DEF Leave
<1>6. ASSUME NEW c \in Clients, Unsubscribe(c) PROVE PanicInv'
  <2>1. unsubscribing' = <<c>> /\ \A d \in Clients : unsubscribing' = <<d>> => d = c
    BY <1>6 DEF Unsubscribe
  <2>2. /\ handler[c] = "leaving" /\ handler' = [handler EXCEPT ![c] = "gone"]
        /\ UNCHANGED <<subscribing, clients, closed, panicked, early>>
    BY <1>6 DEF Unsubscribe
  <2> QED BY <1>0, <2>1, <2>2
<1>7. CASE Register
  <2> DEFINE c == Head(subscribing)
  <2>1. c \in Clients /\ subscribing = <<c>> /\ subscribing' = <<>>
    BY <1>0, <1>7, OneInChannel DEF Register
  <2>2. /\ clients' = clients \cup {c} /\ panicked' = ({c} \cap closed # {})
        /\ UNCHANGED <<unsubscribing, closed, handler, early>>
    BY <1>7 DEF Register, Send
  <2>3. c \in closed => c \in early
    BY <2>1
  <2>4. \A d \in Clients : subscribing' # <<d>> /\ (handler[d] = "connecting" => d # c)
    BY <2>1
  <2> HIDE DEF c
  <2> QED BY <2>1, <2>2, <2>3, <2>4
<1>8. CASE Unregister
  <2> DEFINE c == Head(unsubscribing)
  <2>1. c \in Clients /\ unsubscribing = <<c>> /\ unsubscribing' = <<>>
    BY <1>0, <1>8, OneInChannel DEF Unregister
  <2>2. /\ clients' = clients \ {c} /\ closed' = closed \cup {c}
        /\ UNCHANGED <<subscribing, handler, panicked, early>>
    BY <1>8 DEF Unregister, Forgotten
  <2>3. handler[c] = "gone"
    BY <2>1
  <2>4. \A d \in Clients : unsubscribing' # <<d>>
    BY <2>1
  <2> HIDE DEF c
  <2> QED BY <2>2, <2>3, <2>4
<1>9. ASSUME NEW from, NEW to \in SUBSET clients, Deliver(from, to) PROVE PanicInv'
  <2>1. UNCHANGED <<subscribing, unsubscribing, clients, closed, handler, early>>
    BY <1>9 DEF Deliver
  <2>2. panicked' => clients \cap closed # {}
    BY <1>9 DEF Deliver, Send
  <2> QED BY <2>1, <2>2
<1>10. CASE Distribute \/ KeepAlive
  BY <1>9, <1>10 DEF Distribute, KeepAlive
<1> HIDE DEF PanicInv
<1> QED
  BY <1>1, <1>2, <1>3, <1>4, <1>5, <1>6, <1>7, <1>8, <1>10, <1>11 DEF Next

\* A send on a closed channel, which takes the process down, needs a client that left before
\* listen had registered it: no other client is served once its channel is closed.
THEOREM PanicsOnlyIfEarlyHolds == Spec => []PanicsOnlyIfEarly
<1>1. Init => PanicInv
  BY DEF Init, PanicInv, Attached, PanicsOnlyIfEarly
<1>2. PanicInv => PanicsOnlyIfEarly
  BY DEF PanicInv
<1> QED
  BY <1>1, <1>2, TypesHold, NextPanicInv, PTL DEF Spec

-----------------------------------------------------------------------------
(* The order of a client's events *)

\* What a client has received (s), followed by what waits in its channel (q), begins with
\* the start event and increases, and no id is above the last one given (n).
InOrder(s, q, n) ==
    /\ \A i \in 1 .. Len(s) - 1 : s[i] < s[i + 1]
    /\ \A i \in 1 .. Len(q) - 1 : q[i].id < q[i + 1].id
    /\ s # <<>> => s[1] = 0 /\ s[Len(s)] <= n
    /\ \A i \in 1 .. Len(q) : q[i].id <= n
    /\ q # <<>> /\ s = <<>> => q[1].id = 0
    /\ q # <<>> /\ s # <<>> => s[Len(s)] < q[1].id

\* Nothing is sent before a client is registered, and one that listen serves has been sent
\* its start event.
Started(c) ==
    /\ handler[c] = "connecting" \/ subscribing = <<c>> => msgC[c] = <<>> /\ seen[c] = <<>>
    /\ c \in clients \ closed => msgC[c] # <<>> \/ seen[c] # <<>>

OrderInv == \A c \in Clients : InOrder(seen[c], msgC[c], eventId) /\ Started(c)

LEMMA IdsAreNat ==
    /\ \A m \in Message : m.id \in Nat
    /\ \A q \in Seq(Message) : \A i \in 1 .. Len(q) : q[i] \in Message /\ q[i].id \in Nat
<1>1. \A m \in Message : m.id \in Nat
  BY DEF Message
<1>2. \A q \in Seq(Message) : \A i \in 1 .. Len(q) : q[i] \in Message
  OBVIOUS
<1> QED BY <1>1, <1>2

\* Reading an event moves it from the channel to the history.
LEMMA ReadKeepsOrder ==
    ASSUME NEW s \in Seq(Nat), NEW q \in Seq(Message), NEW n \in Nat, q # <<>>, InOrder(s, q, n)
    PROVE  InOrder(Append(s, Head(q).id), Tail(q), n)
<1> DEFINE t == Append(s, q[1].id)
           r == Tail(q)
<1>0. Len(q) \in Nat \ {0}
  BY EmptySeq
<1>b. Len(s) \in Nat /\ (s # <<>> => Len(s) # 0)
  BY EmptySeq
<1>1. Len(q) \in Nat \ {0} /\ Len(s) \in Nat /\ (s = <<>> <=> Len(s) = 0)
  BY <1>0, <1>b
<1>2. \A i \in 1 .. Len(q) : q[i].id \in Nat
  BY IdsAreNat
<1>3. /\ Len(t) = Len(s) + 1
      /\ t[Len(t)] = q[1].id
      /\ \A i \in 1 .. Len(s) : t[i] = s[i]
      /\ t # <<>>
  <2> DEFINE e == q[1].id
             a == Append(s, e)
  <2>1. e \in Nat
    BY <1>1, <1>2
  <2> HIDE DEF e
  <2>2. /\ a # <<>> /\ Len(a) = Len(s) + 1 /\ a[Len(s) + 1] = e
        /\ \A i \in 1 .. Len(s) : a[i] = s[i]
    BY ONLY <2>1, s \in Seq(Nat), AppendProperties
  <2> HIDE DEF a
  <2>3. a[Len(a)] = e
    BY <2>2
  <2> QED BY <2>2, <2>3 DEF a, e
<1>4. /\ r \in Seq(Message) /\ Len(r) = Len(q) - 1
      /\ \A i \in 1 .. Len(r) : r[i] = q[i + 1]
  BY <1>1
<1>5. \A i \in 1 .. Len(t) - 1 : t[i] < t[i + 1]
  <2> TAKE i \in 1 .. Len(t) - 1
  <2>1. CASE i = Len(s)
    BY <1>1, <1>3, <2>1 DEF InOrder
  <2>2. CASE i # Len(s)
    BY <1>1, <1>3, <2>2 DEF InOrder
  <2> QED BY <2>1, <2>2
<1>6. \A i \in 1 .. Len(r) - 1 : r[i].id < r[i + 1].id
  BY <1>1, <1>4 DEF InOrder
<1>7. t[1] = 0
  <2>1. CASE s = <<>>
    BY <1>1, <1>3, <2>1 DEF InOrder
  <2>2. CASE s # <<>>
    BY <1>1, <1>3, <2>2 DEF InOrder
  <2> QED BY <2>1, <2>2
<1>8. q[1].id <= n
  BY <1>1 DEF InOrder
<1>9. \A i \in 1 .. Len(r) : r[i].id <= n
  BY <1>1, <1>4 DEF InOrder
<1>12. r # <<>> => q[1].id < r[1].id
  <2> SUFFICES ASSUME r # <<>> PROVE q[1].id < r[1].id
    OBVIOUS
  <2>1. Len(r) \in Nat \ {0}
    BY <1>4, EmptySeq
  <2> QED BY <1>1, <1>4, <2>1 DEF InOrder
<1>10. Head(q) = q[1]
  BY <1>1
<1> HIDE DEF t, r
<1>11. InOrder(t, r, n)
  BY <1>3, <1>5, <1>6, <1>7, <1>8, <1>9, <1>12 DEF InOrder
<1> QED BY <1>10, <1>11 DEF t, r
\* An event whose id is new goes to the end of a channel that has begun.
LEMMA SendKeepsOrder ==
    ASSUME NEW s \in Seq(Nat), NEW q \in Seq(Message), NEW n \in Nat, NEW m \in Message,
           InOrder(s, q, n), s # <<>> \/ q # <<>>, m.id > n
    PROVE  InOrder(s, Append(q, m), m.id)
<1> DEFINE r == Append(q, m)
<1>0. Len(q) \in Nat /\ (q # <<>> => Len(q) # 0)
  BY EmptySeq
<1>b. Len(s) \in Nat /\ (s # <<>> => Len(s) # 0)
  BY EmptySeq
<1>1. /\ \A i \in 1 .. Len(q) : q[i].id \in Nat
      /\ m.id \in Nat
  BY IdsAreNat
<1>2. /\ r \in Seq(Message) /\ Len(r) = Len(q) + 1 /\ r # <<>>
      /\ \A i \in 1 .. Len(q) : r[i] = q[i]
      /\ r[Len(q) + 1] = m
  BY <1>0
<1>3. \A i \in 1 .. Len(r) - 1 : r[i].id < r[i + 1].id
  <2> TAKE i \in 1 .. Len(r) - 1
  <2>1. CASE i = Len(q)
    BY <1>0, <1>1, <1>2, <2>1 DEF InOrder
  <2>2. CASE i # Len(q)
    BY <1>0, <1>2, <2>2 DEF InOrder
  <2> QED BY <2>1, <2>2
<1>4. \A i \in 1 .. Len(r) : r[i].id <= m.id
  BY <1>0, <1>1, <1>2 DEF InOrder
<1>5. s # <<>> => s[1] = 0 /\ s[Len(s)] <= m.id /\ s[Len(s)] < r[1].id
  <2> SUFFICES ASSUME s # <<>> PROVE s[1] = 0 /\ s[Len(s)] <= m.id /\ s[Len(s)] < r[1].id
    OBVIOUS
  <2>1. s[1] = 0 /\ s[Len(s)] <= n /\ s[Len(s)] \in Nat
    BY <1>b DEF InOrder
  <2>2. CASE q = <<>>
    BY <1>1, <1>2, <2>1, <2>2
  <2>3. CASE q # <<>>
    BY <1>0, <1>1, <1>2, <2>1, <2>3 DEF InOrder
  <2> QED BY <2>1, <2>2, <2>3
<1>6. s = <<>> => r[1].id = 0
  BY <1>0, <1>2 DEF InOrder
<1> HIDE DEF r
<1>7. \A i \in 1 .. Len(s) - 1 : s[i] < s[i + 1]
  BY DEF InOrder
<1>8. InOrder(s, r, m.id)
  BY <1>2, <1>3, <1>4, <1>5, <1>6, <1>7 DEF InOrder
<1> QED BY <1>8 DEF r

\* An id that is given to others changes nothing for a client.
LEMMA LaterKeepsOrder ==
    ASSUME NEW s \in Seq(Nat), NEW q \in Seq(Message), NEW n \in Nat, NEW k \in Nat, n <= k,
           InOrder(s, q, n)
    PROVE  InOrder(s, q, k)
<1>0. Len(s) \in Nat /\ (s # <<>> => Len(s) # 0)
  BY EmptySeq
<1>1. s # <<>> => s[Len(s)] \in Nat
  BY <1>0
<1>2. \A i \in 1 .. Len(q) : q[i].id \in Nat
  BY IdsAreNat
<1> QED BY <1>1, <1>2 DEF InOrder

LEMMA NextOrderInv == Types /\ Attached /\ OrderInv /\ [Next]_vars => OrderInv'
<1> SUFFICES ASSUME Types, Attached, OrderInv, [Next]_vars PROVE OrderInv'
  OBVIOUS
<1>0. /\ handler \in [Clients -> Handlers] /\ clients \subseteq Clients /\ eventId \in Nat
      /\ subscribing \in Seq(Clients) /\ Len(subscribing) <= 1
      /\ msgC \in [Clients -> Seq(Message)] /\ seen \in [Clients -> Seq(Nat)]
  BY DEF Types, TypeOK
<1>1. CASE UNCHANGED vars
  <2>1. UNCHANGED <<subscribing, clients, eventId, msgC, closed, handler, seen>>
    BY <1>1 DEF vars, channels, queues
  <2> QED BY <2>1 DEF OrderInv, InOrder, Started
<1>2. ASSUME NEW p \in Publishers, NEW from \in Senders, SendMessage(p, from) PROVE OrderInv'
  <2>1. UNCHANGED <<subscribing, clients, eventId, msgC, closed, handler, seen>>
    BY <1>2 DEF SendMessage, channels, queues
  <2> QED BY <2>1 DEF OrderInv, InOrder, Started
<1>3. ASSUME NEW p \in Publishers, Put(p) PROVE OrderInv'
  <2>1. UNCHANGED <<subscribing, clients, eventId, msgC, closed, handler, seen>>
    BY <1>3 DEF Put, queues
  <2> QED BY <2>1 DEF OrderInv, InOrder, Started
<1>4. ASSUME NEW c \in Clients, Subscribe(c) PROVE OrderInv'
  <2>1. UNCHANGED <<clients, eventId, msgC, closed, seen>>
    BY <1>4 DEF Subscribe, queues
  <2>2. /\ handler[c] = "connecting" /\ subscribing' = <<c>>
        /\ handler' = [handler EXCEPT ![c] = "streaming"]
    BY <1>4 DEF Subscribe
  <2>3. \A d \in Clients : subscribing' = <<d>> => d = c
    BY <2>2
  <2>4. \A d \in Clients : Started(d)'
    BY <1>0, <2>1, <2>2, <2>3 DEF OrderInv, Started
  <2> QED BY <2>1, <2>4 DEF OrderInv, InOrder
<1>5. ASSUME NEW c \in Clients, Leave(c) \/ Unsubscribe(c) PROVE OrderInv'
  <2>1. UNCHANGED <<subscribing, clients, eventId, msgC, closed, seen>>
    BY <1>5 DEF Leave, Unsubscribe, channels, queues
  <2>2. \A d \in Clients : handler'[d] = "connecting" => handler[d] = "connecting"
    BY <1>0, <1>5 DEF Leave, Unsubscribe
  <2> QED BY <2>1, <2>2 DEF OrderInv, InOrder, Started
<1>6. ASSUME NEW c \in Clients, Read(c) PROVE OrderInv'
  <2>1. /\ handler[c] = "streaming" /\ msgC[c] # <<>>
        /\ seen' = [seen EXCEPT ![c] = Append(@, Head(msgC[c]).id)]
        /\ msgC' = [msgC EXCEPT ![c] = Tail(@)]
        /\ UNCHANGED <<subscribing, clients, eventId, closed, handler>>
    BY <1>6 DEF Read, channels
  <2>2. InOrder(Append(seen[c], Head(msgC[c]).id), Tail(msgC[c]), eventId)
    BY <1>0, <2>1, ReadKeepsOrder DEF OrderInv
  <2>3. Append(seen[c], Head(msgC[c]).id) # <<>>
    <3>1. Head(msgC[c]) \in Message
      BY <1>0, <2>1
    <3>2. Head(msgC[c]).id \in Nat
      BY <3>1 DEF Message
    <3>3. seen[c] \in Seq(Nat)
      BY <1>0
    <3> QED BY <3>2, <3>3, AppendProperties
  <2>4. \A d \in Clients : /\ seen'[d] = IF d = c THEN Append(seen[c], Head(msgC[c]).id) ELSE seen[d]
                          /\ msgC'[d] = IF d = c THEN Tail(msgC[c]) ELSE msgC[d]
    BY <1>0, <2>1
  <2>5. \A d \in Clients : InOrder(seen[d], msgC[d], eventId)'
    BY <2>1, <2>2, <2>4 DEF OrderInv
  <2>6. handler[c] # "connecting" /\ subscribing # <<c>>
    BY <2>1 DEF OrderInv, Started
  <2>7. \A d \in Clients : Started(d)'
    BY <2>1, <2>3, <2>4, <2>6 DEF OrderInv, Started
  <2> QED BY <2>5, <2>7 DEF OrderInv
<1>7. CASE Register
  <2> DEFINE c == Head(subscribing)
             m == [id |-> 0, from |-> Server]
  <2>1. c \in Clients /\ subscribing = <<c>> /\ subscribing' = <<>>
    BY <1>0, <1>7, OneInChannel DEF Register
  <2>2. /\ clients' = clients \cup {c}
        /\ msgC' = [d \in Clients |-> IF d \in {c} \ closed THEN Queued(d, m) ELSE msgC[d]]
        /\ UNCHANGED <<eventId, closed, handler, seen>>
    BY <1>7 DEF Register, Send
  <2>3. m \in Message /\ m.id = 0
    BY DEF Message, Senders
  <2>4. msgC[c] = <<>> /\ seen[c] = <<>>
    BY <2>1 DEF OrderInv, Started
  <2>5. Queued(c, m) = <<m>>
    BY <2>4 DEF Queued, BufferSize
  <2>6. InOrder(<<>>, <<m>>, eventId)
    BY <1>0, <2>3 DEF InOrder
  <2>7. \A d \in Clients : msgC'[d] = IF d = c /\ c \notin closed THEN <<m>> ELSE msgC[d]
    BY <2>2, <2>5
  <2>8. handler[c] # "connecting"
    BY <2>1 DEF Attached
  <2>9. <<m>> # <<>> /\ \A d \in Clients : subscribing' # <<d>>
    BY <2>1
  <2> HIDE DEF c, m
  <2>10. \A d \in Clients : InOrder(seen[d], msgC[d], eventId)'
    BY <2>2, <2>4, <2>6, <2>7 DEF OrderInv
  <2>11. \A d \in Clients : Started(d)'
    BY <2>1, <2>2, <2>7, <2>8, <2>9 DEF OrderInv, Started
  <2> QED BY <2>10, <2>11 DEF OrderInv
<1>8. CASE Unregister
  <2>1. /\ closed \subseteq closed' /\ clients' \subseteq clients
        /\ UNCHANGED <<subscribing, eventId, msgC, handler, seen>>
    BY <1>8 DEF Unregister, Forgotten
  <2> QED BY <2>1 DEF OrderInv, InOrder, Started
<1>9. ASSUME NEW from \in Senders, NEW to \in SUBSET clients, Deliver(from, to) PROVE OrderInv'
  <2> DEFINE m == [id |-> eventId + 1, from |-> from]
  <2>1. m \in Message /\ m.id = eventId + 1
    BY <1>0 DEF Message
  <2>2. /\ eventId' = eventId + 1
        /\ msgC' = [d \in Clients |-> IF d \in to \ closed THEN Queued(d, m) ELSE msgC[d]]
        /\ UNCHANGED <<subscribing, clients, closed, handler, seen>>
    BY <1>9 DEF Deliver, Send, NextEventId
  <2> HIDE DEF m
  <2>3. ASSUME NEW d \in Clients PROVE InOrder(seen'[d], msgC'[d], eventId') /\ Started(d)'
    <3>1. seen[d] \in Seq(Nat) /\ msgC[d] \in Seq(Message)
      BY <1>0
    <3>2. InOrder(seen[d], msgC[d], eventId')
      BY <1>0, <2>2, <3>1, LaterKeepsOrder DEF OrderInv
    <3>3. CASE msgC'[d] = msgC[d]
      BY <2>2, <3>2, <3>3 DEF OrderInv, Started
    <3>4. CASE d \in to \ closed /\ msgC'[d] = Append(msgC[d], m)
      <4>1. seen[d] # <<>> \/ msgC[d] # <<>>
        BY <1>9, <3>4 DEF OrderInv, Started
      <4>2. InOrder(seen[d], Append(msgC[d], m), m.id)
        BY <1>0, <2>1, <3>1, <4>1, SendKeepsOrder DEF OrderInv
      <4>3. ~(handler[d] = "connecting" \/ subscribing = <<d>>)
        BY <4>1 DEF OrderInv, Started
      <4>4. Append(msgC[d], m) # <<>>
        BY <2>1, <3>1, AppendProperties
      <4> QED BY <2>1, <2>2, <3>4, <4>2, <4>3, <4>4 DEF Started
    <3> QED BY <2>2, <3>3, <3>4 DEF Queued
  <2> QED BY <2>3 DEF OrderInv
<1>10. CASE Distribute \/ KeepAlive
  <2>1. CASE Distribute
    <3>1. Head(publish) \in Message
      BY <2>1 DEF Distribute, Types, TypeOK
    <3>2. Head(publish).from \in Senders
      BY <3>1 DEF Message
    <3> QED BY <1>9, <2>1, <3>2 DEF Distribute
  <2>2. CASE KeepAlive
    BY <1>9, <2>2 DEF KeepAlive, Senders
  <2> QED BY <1>10, <2>1, <2>2
<1> QED
  BY <1>1, <1>2, <1>3, <1>4, <1>5, <1>6, <1>7, <1>8, <1>10 DEF Next

\* A client's events begin with the start event and each is later than those before it,
\* however many the broker drops because the client does not read.
THEOREM StartsThenInOrderHolds == Spec => []StartsThenInOrder
<1>1. Init => PanicInv /\ OrderInv
  BY DEF Init, PanicInv, Attached, PanicsOnlyIfEarly, OrderInv, InOrder, Started
<1>2. PanicInv => Attached
  BY DEF PanicInv
<1>3. OrderInv => StartsThenInOrder
  BY DEF OrderInv, InOrder, StartsThenInOrder
<1> QED
  BY <1>1, <1>2, <1>3, TypesHold, NextPanicInv, NextOrderInv, PTL DEF Spec
=============================================================================
