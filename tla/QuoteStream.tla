-------- MODULE QuoteStream --------
(***************************************************************************)
(* The WebSocket fan-out of quotes.  A connection's task subscribes to the *)
(* broadcast channel, sends a snapshot of every instrument and then        *)
(* forwards what the channel brings, until the client is gone.  Whoever    *)
(* falls behind the bounded channel loses what was overwritten and is sent *)
(* snapshots again; a client that sees a gap asks for them.  Clients       *)
(* follow the contract of l1QuoteWireProtocol.rs:1-10.                     *)
(***************************************************************************)
EXTENDS MarketFeed

CONSTANTS
    Clients,
    ChannelCapacity,      \* L1_QUOTE_BROADCAST_CHANNEL_CAPACITY
    WireRoom,             \* messages a connection holds before a send waits
    MaxConnections        \* bound

ASSUME StreamAssumption == ChannelCapacity \in Nat \ {0} /\ WireRoom \in Nat \ {0}

VARIABLES
    connection,           \* per client: its task, receiver, wire, requests and view
    connections           \* bound

streamVars == <<connection, connections>>

Gone == [at |-> "closed"]
Unseen == [seq |-> 0, quote |-> EmptyQuote]

StreamInit == connection = [c \in Clients |-> Gone] /\ connections = 0

\* Subscribing comes before the snapshot; the receiver gets what is sent from now on.
Subscribe(c) ==
    /\ connection[c] = Gone /\ connections < MaxConnections
    /\ connection' = [connection EXCEPT ![c] =
          [at |-> "subscribed", next |-> Len(channel) + 1, wire |-> <<>>, requests |-> <<>>,
           view |-> [i \in Listed |-> Unseen]]]
    /\ connections' = connections + 1

\* One hold of the publisher's lock reads the quotes and their numbers.
SnapshotsOf(symbols) ==
    LET known == SetToSortSeq({i \in symbols : quoteSeq[i] > 0}, <) IN
    [n \in DOMAIN known |-> [type |-> "SNAPSHOT", symbol |-> known[n],
                             seq |-> quoteSeq[known[n]], quote |-> quote[known[n]]]]

\* The task waits in a send while the connection takes no more.
CanSend(c) == Len(connection[c].wire) < WireRoom

SendInitialSnapshots(c) ==
    /\ connection[c].at = "subscribed"
    /\ connection' = [connection EXCEPT ![c].at = "looping", ![c].wire = @ \o SnapshotsOf(Listed)]
    /\ UNCHANGED connections

OldestRetained == Max({1, Len(channel) - ChannelCapacity + 1})

ForwardDelta(c) ==
    LET v == connection[c] IN
    /\ v.at = "looping" /\ CanSend(c)
    /\ v.next \in OldestRetained .. Len(channel)
    /\ connection' = [connection EXCEPT
          ![c].next = @ + 1,
          ![c].wire = Append(@, [type |-> "DELTA", symbol |-> channel[v.next].symbol,
                                 seq |-> channel[v.next].seq, quote |-> channel[v.next].quote])]
    /\ UNCHANGED connections

\* Mutant: whoever lagged is sent no snapshots.
ForwardFromTheOldest(c) ==
    /\ connection[c].at = "looping" /\ CanSend(c) /\ connection[c].next < OldestRetained
    /\ connection' = [connection EXCEPT ![c].next = OldestRetained]
    /\ UNCHANGED connections

\* The receiver learns that it lagged and goes on with the oldest update retained.
ResendAfterLag(c) ==
    /\ connection[c].at = "looping" /\ CanSend(c) /\ connection[c].next < OldestRetained
    /\ connection' = [connection EXCEPT ![c].next = OldestRetained,
                                        ![c].wire = @ \o SnapshotsOf(Listed)]
    /\ UNCHANGED connections

AnswerResync(c) ==
    LET v == connection[c] IN
    /\ v.at = "looping" /\ CanSend(c) /\ v.requests # <<>>
    /\ connection' = [connection EXCEPT ![c].requests = Tail(@),
                                        ![c].wire = @ \o SnapshotsOf(Head(v.requests))]
    /\ UNCHANGED connections

Disconnect(c) ==
    /\ connection[c] # Gone
    /\ connection' = [connection EXCEPT ![c] = Gone]
    /\ UNCHANGED connections

\* A snapshot is a new baseline; a delta that does not follow at once is a gap.
ClientReceives(c) ==
    LET v == connection[c]
        m == Head(v.wire)
        taken == m.type = "SNAPSHOT" \/ m.seq = v.view[m.symbol].seq + 1
    IN /\ v # Gone /\ v.wire # <<>>
       /\ connection' = [connection EXCEPT ![c] =
             [v EXCEPT !.wire = Tail(@),
                       !.view[m.symbol] = IF taken THEN [seq |-> m.seq, quote |-> m.quote] ELSE @,
                       !.requests = IF taken THEN @ ELSE Append(@, {m.symbol})]]
       /\ UNCHANGED connections

\* A client may ask for everything without having seen a gap.
ClientAsks(c) ==
    /\ connection[c] # Gone /\ connection[c].requests = <<>>
    /\ connection' = [connection EXCEPT ![c].requests = <<Listed>>]
    /\ UNCHANGED connections

StreamNext ==
    \E c \in Clients :
        \/ Subscribe(c) \/ SendInitialSnapshots(c) \/ ForwardDelta(c) \/ ResendAfterLag(c)
        \/ AnswerResync(c) \/ Disconnect(c) \/ ClientReceives(c) \/ ClientAsks(c)
--------------------
Connected == {c \in Clients : connection[c] # Gone}

\* What a client shows is a quote that was published under the number it goes by.
ViewsAreQuotes ==
    \A c \in Connected, i \in Listed :
        LET shown == connection[c].view[i] IN
        shown.seq > 0 => shown.seq <= Len(quoted[i]) /\ shown.quote = quoted[i][shown.seq]

\* Gaps only look backward: on the wire of an instrument no delta leaps over a number, and
\* no snapshot is older than what went before it (l1QuoteWebSocketServer.rs:117-120).
NothingIsSkipped ==
    \A c \in Connected, i \in Listed :
        LET v == connection[c]
            mine == SelectSeq(v.wire, LAMBDA m : m.symbol = i)
        IN \A n \in DOMAIN mine :
              LET before == {v.view[i].seq} \union {mine[k].seq : k \in 1 .. n - 1} IN
              IF mine[n].type = "SNAPSHOT" THEN mine[n].seq >= Max(before)
              ELSE mine[n].seq <= Max(before) + 1

\* l1QuoteWebSocketServer.rs:9-18: a client that lags, asks or joins late misses nothing
\* for good: once its connection is quiet it shows the current quote of every instrument.
QuietClientsAreCurrent ==
    \A c \in Connected :
        LET v == connection[c] IN
        (v.at = "looping" /\ v.wire = <<>> /\ v.requests = <<>> /\ v.next > Len(channel)) =>
            \A i \in Listed : v.view[i] = [seq |-> quoteSeq[i], quote |-> quote[i]]
====================
