-------- MODULE MatchingServer --------
(***************************************************************************)
(* main.rs of the matching engine: the network thread takes one connection *)
(* at a time, reads its line, hands it to the matching-core thread over a  *)
(* ring, waits at the other ring for the answer, writes it and publishes   *)
(* the depth it came with.  The matching-core thread owns the book; of the *)
(* book, the order that matters here is that a stop order may be armed     *)
(* without a trigger price, on which a later line of anyone panics.        *)
(*                                                                         *)
(* A client is one call of oms-gateway's matching engine client: it        *)
(* connects, sends a line and waits until its deadline, and what it sent   *)
(* stays readable when it has gone.                                        *)
(***************************************************************************)
EXTENDS Naturals, Sequences, FiniteSets

CONSTANTS
    Clients,        \* calls of the gateway's client, numbered as they connect
    LineKinds,      \* what a line can be: some of the kinds in AllLineKinds
    RingCapacity    \* slots of each ring

VARIABLES
    client,         \* per call: [at, line, answer]
    backlog,        \* connections made and not yet accepted, oldest first
    network,        \* the network thread: [at, serving, id, item]
    nextRequestId,  \* requestSequenceId of the next line
    ingress, egress,\* the two rings
    core,           \* the matching-core thread: [at, item]
    engine,         \* the book: [changes, unpriced, priced]
    handled,        \* history: the items the core has handled, in order
    published       \* market-data: the newest depth it received, by changes

serverVars == <<client, backlog, network, nextRequestId, ingress, egress, core,
                engine, handled, published>>

AllLineKinds == {"order", "unpriced stop", "cancel", "query", "malformed", "blank"}
ASSUME LineKindsAssumption == LineKinds \subseteq AllLineKinds
ASSUME RingCapacityAssumption == RingCapacity \in Nat \ {0}

Nobody == [at |-> "none"]

ServerInit ==
    /\ client = [c \in Clients |-> [at |-> "new", line |-> "none", answer |-> Nobody]]
    /\ backlog = <<>> /\ nextRequestId = 0
    /\ network = [at |-> "accept", serving |-> {}, id |-> 0, item |-> Nobody]
    /\ ingress = <<>> /\ egress = <<>>
    /\ core = [at |-> "pop", item |-> Nobody]
    /\ engine = [changes |-> 0, unpriced |-> FALSE, priced |-> FALSE]
    /\ handled = <<>> /\ published = 0

--------------------
(* The client: sendOneLineAndAwaitResponse. *)

clientUnchanged == UNCHANGED <<network, nextRequestId, ingress, egress, core,
                               engine, handled, published>>

Connect(c) ==
    /\ client[c].at = "new" /\ \A d \in Clients : d < c => client[d].at # "new"
    /\ client' = [client EXCEPT ![c].at = "connected"]
    /\ backlog' = Append(backlog, c)
    /\ clientUnchanged

Send(c) ==
    /\ client[c].at = "connected"
    /\ \E kind \in LineKinds :
          client' = [client EXCEPT ![c].at = "waiting", ![c].line = kind]
    /\ UNCHANGED backlog /\ clientUnchanged

\* The answer is in the socket when it is read; a call whose deadline passes, or whose
\* process ends, closes the connection.
Receive(c) ==
    /\ client[c].at = "waiting" /\ client[c].answer # Nobody
    /\ client' = [client EXCEPT ![c].at = "answered"]
    /\ UNCHANGED backlog /\ clientUnchanged

Leave(c) ==
    /\ client[c].at \in {"connected", "waiting"}
    /\ client' = [client EXCEPT ![c].at = "left"]
    /\ UNCHANGED backlog /\ clientUnchanged

--------------------
(* The network thread. *)

Accept ==
    /\ network.at = "accept" /\ backlog # <<>>
    /\ network' = [network EXCEPT !.at = "read", !.serving = {Head(backlog)}]
    /\ backlog' = Tail(backlog)
    /\ UNCHANGED <<client, nextRequestId, ingress, egress, core, engine, handled, published>>

\* read_line ends with a line, or with nothing when the client has gone; a line without
\* anything on it gets no answer.
ReadLine ==
    /\ network.at = "read"
    /\ \E c \in network.serving :
          LET line == client[c].line
          IN /\ line # "none" \/ client[c].at = "left"
             /\ IF line \in {"none", "blank"}
                THEN /\ network' = [network EXCEPT !.at = "accept", !.serving = {}]
                     /\ UNCHANGED nextRequestId
                ELSE /\ network' = [network EXCEPT !.at = "push", !.id = nextRequestId]
                     /\ nextRequestId' = nextRequestId + 1
    /\ UNCHANGED <<client, backlog, ingress, egress, core, engine, handled, published>>

PushRequest ==
    /\ network.at = "push" /\ Len(ingress) < RingCapacity
    /\ \E c \in network.serving :
          ingress' = Append(ingress, [at |-> "request", id |-> network.id,
                                      from |-> c, line |-> client[c].line])
    /\ network' = [network EXCEPT !.at = "await"]
    /\ UNCHANGED <<client, backlog, nextRequestId, egress, core, engine, handled, published>>

\* Mutant: a client that has gone is not waited for.
AwaitAnswerUnlessGone ==
    /\ network.at = "await"
    /\ \/ /\ egress # <<>>
          /\ network' = [network EXCEPT !.at = "write", !.item = Head(egress)]
          /\ egress' = Tail(egress)
       \/ /\ egress = <<>> /\ \E c \in network.serving : client[c].at = "left"
          /\ network' = [network EXCEPT !.at = "accept", !.serving = {}]
          /\ UNCHANGED egress
    /\ UNCHANGED <<client, backlog, nextRequestId, ingress, core, engine, handled, published>>

AwaitAnswer ==
    /\ network.at = "await" /\ egress # <<>>
    /\ network' = [network EXCEPT !.at = "write", !.item = Head(egress)]
    /\ egress' = Tail(egress)
    /\ UNCHANGED <<client, backlog, nextRequestId, ingress, core, engine, handled, published>>

\* A write to a client that has gone fails, and nobody is told.
WriteAnswer ==
    /\ network.at = "write"
    /\ client' = [c \in Clients |->
                     IF c \in network.serving /\ client[c].at # "left"
                     THEN [client[c] EXCEPT !.answer = network.item] ELSE client[c]]
    /\ network' = [network EXCEPT !.at = "publish"]
    /\ UNCHANGED <<backlog, nextRequestId, ingress, egress, core, engine, handled, published>>

\* Market-data may be down, or not answer within its 200 ms.
PublishDepth ==
    /\ network.at = "publish"
    /\ \/ published' = network.item.changes
       \/ UNCHANGED published
    /\ network' = [network EXCEPT !.at = "accept", !.serving = {}, !.item = Nobody]
    /\ UNCHANGED <<client, backlog, nextRequestId, ingress, egress, core, engine, handled>>

--------------------
(* The matching-core thread. *)

PopRequest ==
    /\ core.at = "pop" /\ ingress # <<>>
    /\ core' = [at |-> "handle", item |-> Head(ingress)]
    /\ ingress' = Tail(ingress)
    /\ UNCHANGED <<client, backlog, network, nextRequestId, egress, engine, handled, published>>

\* What the line does to the book: an order may trade, a cancel may find its order, which
\* may be the stop without a trigger price.
Outcomes(line) ==
    CASE line = "order" ->
            {[engine EXCEPT !.changes = @ + 1, !.priced = @ \/ trades] : trades \in BOOLEAN}
      [] line = "unpriced stop" ->
            {[engine EXCEPT !.changes = @ + 1, !.unpriced = TRUE]}
      [] line = "cancel" ->
            {engine, [engine EXCEPT !.changes = @ + 1],
             [engine EXCEPT !.changes = @ + 1, !.unpriced = FALSE]}
      [] OTHER -> {engine}

\* The trigger test runs after every order once there is a last price, and a status query
\* unwraps the trigger price of the stop it finds.
MayPanic(line, after) ==
    /\ after.unpriced
    /\ \/ line \in {"order", "unpriced stop"} /\ after.priced
       \/ line = "query"
MustPanic(line, after) == MayPanic(line, after) /\ line # "query"

HandleLine ==
    /\ core.at = "handle"
    /\ \E after \in Outcomes(core.item.line) :
          /\ ~MustPanic(core.item.line, after)
          /\ engine' = after
          /\ core' = [core EXCEPT !.at = "answer"]
    /\ handled' = Append(handled, core.item)
    /\ UNCHANGED <<client, backlog, network, nextRequestId, ingress, egress, published>>

\* The panic ends the matching-core thread and nothing else.
HandlerPanics ==
    /\ core.at = "handle"
    /\ \E after \in Outcomes(core.item.line) : MayPanic(core.item.line, after)
    /\ core' = [core EXCEPT !.at = "dead"]
    /\ UNCHANGED <<client, backlog, network, nextRequestId, ingress, egress, engine,
                   handled, published>>

\* The answer, which an append that failed turned into an error, and the depth of the book
\* either way.
PushAnswer ==
    /\ core.at = "answer" /\ Len(egress) < RingCapacity
    /\ egress' = Append(egress, [at |-> "answer", id |-> core.item.id,
                                 to |-> core.item.from, changes |-> engine.changes])
    /\ core' = [at |-> "pop", item |-> Nobody]
    /\ UNCHANGED <<client, backlog, network, nextRequestId, ingress, engine, handled, published>>

--------------------
ClientEnds(c) == Send(c) \/ Leave(c)
NetworkStep ==
    Accept \/ ReadLine \/ PushRequest \/ AwaitAnswer \/ WriteAnswer \/ PublishDepth
CoreStep == PopRequest \/ HandleLine \/ HandlerPanics \/ PushAnswer

ServerNext ==
    \/ \E c \in Clients : Connect(c) \/ Send(c) \/ Receive(c) \/ Leave(c)
    \/ Accept \/ ReadLine \/ PushRequest \/ AwaitAnswer \/ WriteAnswer \/ PublishDepth
    \/ PopRequest \/ HandleLine \/ HandlerPanics \/ PushAnswer

\* Both threads run on, and a call that has connected sends its line or is over by its
\* deadline; that it ever connects is not assumed.
ServerFairness ==
    /\ WF_serverVars(NetworkStep)
    /\ WF_serverVars(CoreStep)
    /\ \A c \in Clients : WF_serverVars(ClientEnds(c))

--------------------
(* Properties *)

HandledFrom(c) == {n \in DOMAIN handled : handled[n].from = c}

InFlight == Len(ingress) + Len(egress) + (IF core.at \in {"handle", "answer"} THEN 1 ELSE 0)

\* The network thread never has more than one request in flight (main.rs:202), whoever
\* left in between: so a client reads the answer to its own line and no other, and no line
\* is handled twice, also of the clients that were not there for the answer.
AnswersBelongToTheirRequests ==
    /\ InFlight <= 1
    /\ \A c \in Clients :
          /\ client[c].answer # Nobody => /\ client[c].answer.to = c
                                          /\ HandledFrom(c) # {}
          /\ Cardinality(HandledFrom(c)) <= 1
    /\ \A n \in DOMAIN handled : handled[n].id = n - 1

\* Market-data never receives an older book after a newer one from the engine: a depth is
\* built on one thread, sent on the other, and the next line is not handled in between.
DepthsArriveInOrder ==
    /\ published <= engine.changes
    /\ network.at = "publish" => network.item.changes = engine.changes

\* A line that was sent is handled and its answer written unless its client has left,
\* whatever the other clients do; only the death of the matching-core thread, after which
\* the network thread waits at its ring for ever, is an end to that.
EveryLineIsHandled ==
    \A c \in Clients :
       (client[c].line \notin {"none", "blank"})
          ~> \/ core.at = "dead"
             \/ HandledFrom(c) # {} /\ (client[c].at = "left" \/ client[c].answer # Nobody)
====================
