------------------------------ MODULE SseBroker ------------------------------
(***************************************************************************)
(* The broker of server-sent events (server/events/sse.go): the goroutine  *)
(* of listen, the handlers of the connected clients and the goroutines     *)
(* that publish events.  They share three buffered channels, and each      *)
(* client has a channel of its own that listen never waits for.            *)
(*                                                                         *)
(* A message is its id and its sender: an event of the server (or a        *)
(* broadcast) goes to everyone, one that stems from a client's request to  *)
(* the user's other clients.  A step of listen that sends on a channel it  *)
(* has closed panics, and the process with it.                             *)
(***************************************************************************)
EXTENDS Naturals, Sequences, FiniteSets

CONSTANTS
    Clients,      \* connections of clients, each of another browser window
    User,         \* the user of a connection
    Publishers,   \* goroutines that send messages
    Server,       \* the sender of a message that is for everyone
    MaxEvents     \* bound: messages published, and keep-alives

PublishSize == 2
BufferSize  == 1

ASSUME BrokerAssumption ==
    /\ DOMAIN User = Clients
    /\ Server \notin Clients
    /\ MaxEvents \in Nat

VARIABLES
    publish, subscribing, unsubscribing,    \* the broker's channels
    clients, eventId,                       \* locals of listen
    msgC, closed,                           \* the clients' channels
    handler,      \* where ServeHTTP is
    sending,      \* message a publisher waits to put on publish
    panicked,
    \* history: messages sent, ids a client has received, clients that left
    \* before listen had registered them
    sent, seen, early

channels == <<publish, subscribing, unsubscribing>>
queues   == <<msgC, closed>>
vars     == <<channels, clients, eventId, queues, handler, sending, panicked, sent, seen,
              early>>

Senders  == Clients \cup {Server}
Message  == [id : Nat, from : Senders]
Nothing  == [id |-> 0, from |-> "nobody"]
Handlers == {"connecting", "streaming", "leaving", "gone"}

Init ==
    /\ publish = <<>> /\ subscribing = <<>> /\ unsubscribing = <<>>
    /\ clients = {} /\ eventId = 0
    /\ msgC = [c \in Clients |-> <<>>] /\ closed = {}
    /\ handler = [c \in Clients |-> "connecting"]
    /\ sending = [p \in Publishers |-> Nothing]
    /\ panicked = FALSE
    /\ sent = 0
    /\ seen = [c \in Clients |-> <<>>]
    /\ early = {}

-----------------------------------------------------------------------------
(* Publishers *)

SendMessage(p, from) ==
    /\ ~panicked /\ sending[p] = Nothing /\ sent < MaxEvents
    /\ sent' = sent + 1
    /\ sending' = [sending EXCEPT ![p] = [id |-> 0, from |-> from]]
    /\ UNCHANGED <<channels, clients, eventId, queues, handler, panicked, seen, early>>

Put(p) ==
    /\ ~panicked /\ sending[p] # Nothing /\ Len(publish) < PublishSize
    /\ publish' = Append(publish, sending[p])
    /\ sending' = [sending EXCEPT ![p] = Nothing]
    /\ UNCHANGED <<subscribing, unsubscribing, clients, eventId, queues, handler, panicked,
                   sent, seen, early>>

-----------------------------------------------------------------------------
(* Handlers: ServeHTTP subscribes, streams what it reads and unsubscribes *)

Subscribe(c) ==
    /\ ~panicked /\ handler[c] = "connecting" /\ subscribing = <<>>
    /\ subscribing' = <<c>>
    /\ handler' = [handler EXCEPT ![c] = "streaming"]
    /\ UNCHANGED <<publish, unsubscribing, clients, eventId, queues, sending, panicked,
                   sent, seen, early>>

Read(c) ==
    /\ ~panicked /\ handler[c] = "streaming" /\ msgC[c] # <<>>
    /\ seen' = [seen EXCEPT ![c] = Append(@, Head(msgC[c]).id)]
    /\ msgC' = [msgC EXCEPT ![c] = Tail(@)]
    /\ UNCHANGED <<channels, clients, eventId, closed, handler, sending, panicked, sent, early>>

\* the request's context ends, or writing an event fails
Leave(c) ==
    /\ ~panicked /\ handler[c] = "streaming"
    /\ early' = IF c \in clients THEN early ELSE early \cup {c}
    /\ handler' = [handler EXCEPT ![c] = "leaving"]
    /\ UNCHANGED <<channels, clients, eventId, queues, sending, panicked, sent, seen>>

Unsubscribe(c) ==
    /\ ~panicked /\ handler[c] = "leaving" /\ unsubscribing = <<>>
    /\ unsubscribing' = <<c>>
    /\ handler' = [handler EXCEPT ![c] = "gone"]
    /\ UNCHANGED <<publish, subscribing, clients, eventId, queues, sending, panicked,
                   sent, seen, early>>

-----------------------------------------------------------------------------
(* listen: one case of its select at a time *)

\* the client's channel after sendOrDrop
MutQueued(c, msg) == Append(msgC[c], msg)    \* mutant: the channel has no limit
Queued(c, msg) == IF Len(msgC[c]) < BufferSize THEN Append(msgC[c], msg) ELSE msgC[c]

Send(to, msg) ==
    /\ msgC' = [c \in Clients |-> IF c \in to \ closed THEN Queued(c, msg) ELSE msgC[c]]
    /\ panicked' = (to \cap closed # {})

Register ==
    /\ ~panicked /\ subscribing # <<>>
    /\ LET c == Head(subscribing) IN
       /\ clients' = clients \cup {c}
       /\ Send({c}, [id |-> 0, from |-> Server])
    /\ subscribing' = Tail(subscribing)
    /\ UNCHANGED <<publish, unsubscribing, eventId, closed, handler, sending, sent, seen, early>>

MutForgotten(c) == clients    \* mutant: the channel is closed and the client kept
Forgotten(c) == clients \ {c}

Unregister ==
    /\ ~panicked /\ unsubscribing # <<>>
    /\ LET c == Head(unsubscribing) IN
       /\ closed' = closed \cup {c}
       /\ clients' = Forgotten(c)
    /\ unsubscribing' = Tail(unsubscribing)
    /\ UNCHANGED <<publish, subscribing, eventId, msgC, handler, sending, panicked,
                   sent, seen, early>>

shouldSend(from, c) == from = Server \/ (from # c /\ User[from] = User[c])

MutNextEventId == eventId    \* mutant: ids are reused
NextEventId == eventId + 1

Deliver(from, to) ==
    /\ eventId' = NextEventId
    /\ Send(to, [id |-> NextEventId, from |-> from])
    /\ UNCHANGED <<subscribing, unsubscribing, clients, closed, handler, sending, seen, early>>

\* mutant: the broker waits for clients that do not read
MutDistribute ==
    /\ ~panicked /\ publish # <<>> /\ \A c \in clients : Len(msgC[c]) < BufferSize
    /\ Deliver(Head(publish).from, {c \in clients : shouldSend(Head(publish).from, c)})
    /\ publish' = Tail(publish)
    /\ UNCHANGED sent
Distribute ==
    /\ ~panicked /\ publish # <<>>
    /\ Deliver(Head(publish).from, {c \in clients : shouldSend(Head(publish).from, c)})
    /\ publish' = Tail(publish)
    /\ UNCHANGED sent

KeepAlive ==
    /\ ~panicked /\ clients # {} /\ sent < MaxEvents
    /\ Deliver(Server, clients)
    /\ sent' = sent + 1
    /\ UNCHANGED publish

-----------------------------------------------------------------------------
Next ==
    \/ \E p \in Publishers, from \in Senders : SendMessage(p, from)
    \/ \E p \in Publishers : Put(p)
    \/ \E c \in Clients : Subscribe(c) \/ Read(c) \/ Leave(c) \/ Unsubscribe(c)
    \/ Register \/ Unregister \/ Distribute \/ KeepAlive

Spec == Init /\ [][Next]_vars

\* listen runs, and its select takes every case that stays ready; a goroutine
\* that waits to send on a channel gets its turn (waiters are queued).  No
\* client is assumed to read.
Fairness ==
    /\ WF_vars(Register) /\ WF_vars(Unregister) /\ WF_vars(Distribute)
    /\ \A p \in Publishers : SF_vars(Put(p))
    /\ \A c \in Clients : SF_vars(Subscribe(c)) /\ SF_vars(Unsubscribe(c))

FairSpec == Spec /\ Fairness

-----------------------------------------------------------------------------
(* Properties *)

\* The variables have their types, and no channel holds more than its size.
TypeOK ==
    /\ publish \in Seq(Message) /\ Len(publish) <= PublishSize
    /\ subscribing \in Seq(Clients) /\ Len(subscribing) <= 1
    /\ unsubscribing \in Seq(Clients) /\ Len(unsubscribing) <= 1
    /\ clients \subseteq Clients /\ eventId \in Nat
    /\ \A c \in Clients : msgC[c] \in Seq(Message) /\ Len(msgC[c]) <= BufferSize
    /\ closed \subseteq Clients
    /\ handler \in [Clients -> Handlers]
    /\ sending \in [Publishers -> Message \cup {Nothing}]
    /\ panicked \in BOOLEAN
    /\ sent \in 0..MaxEvents
    /\ \A c \in Clients : seen[c] \in Seq(Nat)
    /\ early \subseteq Clients

\* The broker never sends to a client that has detached: its channel is closed,
\* and the send would take the process down.
NeverPanics == ~panicked

\* The one exception is a client that left before listen had registered it: no
\* other client is kept once its channel is closed, and nothing else panics.
PanicsOnlyIfEarly == clients \cap closed \subseteq early /\ (panicked => early # {})

\* What a client receives begins with the start event (id 0), and then each
\* event it gets is later than those before, however many were dropped.
StartsThenInOrder ==
    \A c \in Clients :
        /\ seen[c] # <<>> => seen[c][1] = 0
        /\ \A i \in 1 .. Len(seen[c]) - 1 : seen[c][i] < seen[c][i + 1]

\* A message is taken from its publisher in the end, even when no client reads,
\* as long as the process lives.
PublishersProceed == \A p \in Publishers : sending[p] # Nothing ~> sending[p] = Nothing \/ panicked

\* A client that leaves is forgotten in the end, and its channel closed.
LeaversAreForgotten ==
    \A c \in Clients : handler[c] = "leaving" ~> panicked \/ [](c \in closed /\ c \notin clients)
=============================================================================
