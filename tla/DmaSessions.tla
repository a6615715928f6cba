-------- MODULE DmaSessions --------
(***************************************************************************)
(* The line-oriented order entry of oms-gateway for institutions.  Every   *)
(* connection is a session of its own, served by its own goroutine, with   *)
(* its own sequence numbers, and nothing of it survives the connection: a  *)
(* client that lost one connects again and sends what was not answered,    *)
(* while the goroutine of the lost connection may still be reading what    *)
(* had arrived.                                                            *)
(***************************************************************************)
EXTENDS Integers, Sequences, FiniteSets, SequencesExt

CONSTANTS
    Sessions,             \* connections, numbered in the order they are made
    OrderIds, ValidIds,   \* ClOrdIDs; those whose order can be submitted
    MaxLines              \* bound: lines the client sends

\* A line that is no order has no ClOrdID, which is written 0.
ASSUME DmaAssumption == Sessions \subseteq Int /\ OrderIds \subseteq Nat \ {0} /\ ValidIds \subseteq OrderIds

VARIABLES
    dma,                  \* per session: SessionState, the connection and the lines read
    submitted,            \* orders that reached processOrderSubmission
    answered              \* the client: the answers it has read, by session and order

dmaVars == <<dma, submitted, answered>>

DmaInit ==
    /\ dma = [s \in Sessions |->
                [at |-> "unused", loggedOn |-> FALSE, expected |-> 1, outgoing |-> 1,
                 inbound |-> <<>>, outbound |-> <<>>, sent |-> <<>>, read |-> <<>>]]
    /\ submitted = <<>> /\ answered = {}

\* The client has one connection at a time and reads what there is before the next.
Connect(s) ==
    /\ dma[s].at = "unused"
    /\ \A r \in Sessions : /\ dma[r].at # "open" /\ dma[r].outbound = <<>>
                           /\ r < s => dma[r].at # "unused"
    /\ dma' = [dma EXCEPT ![s].at = "open"]
    /\ UNCHANGED <<submitted, answered>>

LinesSent == FoldLeft(LAMBDA n, s : n + Len(dma[s].sent), 0, SetToSeq(Sessions))

\* The next number, or one too many.  A line without fields is malformed whatever it says,
\* and an unknown type is answered like an order that cannot be submitted.
CandidateLines(s) ==
    LET next == Len(dma[s].sent) + 1
        unanswered == {id \in OrderIds : /\ \A r \in Sessions : <<r, id>> \notin answered
                                         /\ \A n \in DOMAIN dma[s].sent : dma[s].sent[n].id # id}
    IN [type : {"LOGON"}, number : {next, next + 1}, id : {0}]
       \union [type : {"LOGOUT", "MALFORMED"}, number : {next}, id : {0}]
       \union [type : {"NEW_ORDER_SINGLE"}, number : {next}, id : unanswered]
       \union [type : {"NEW_ORDER_SINGLE"}, number : {next + 1}, id : unanswered \intersect ValidIds]

SendLine(s) ==
    /\ dma[s].at = "open" /\ LinesSent < MaxLines
    /\ \E line \in CandidateLines(s) :
          dma' = [dma EXCEPT ![s].sent = Append(@, line), ![s].inbound = Append(@, line)]
    /\ UNCHANGED <<submitted, answered>>

IsLogon(v, line) == line.type = "LOGON" /\ ~v.loggedOn /\ line.number = v.expected
IsInSequence(v, line) ==
    line.type \notin {"LOGON", "MALFORMED"} /\ v.loggedOn /\ line.number = v.expected

ShouldClose(v, line) == ~IsLogon(v, line) /\ (~IsInSequence(v, line) \/ line.type = "LOGOUT")

\* A line is handled, with the submission of its order, under the session's mutex; a write
\* to a connection the client has left may fail, which ends the goroutine.
HandleLine(s) ==
    LET v == dma[s]
        line == Head(v.inbound)
        inSequence == IsLogon(v, line) \/ IsInSequence(v, line)
        answer == [number |-> v.outgoing, id |-> line.id]
        handled == [v EXCEPT !.inbound = Tail(@), !.read = Append(@, line),
                             !.loggedOn = @ \/ IsLogon(v, line),
                             !.expected = IF inSequence THEN @ + 1 ELSE @,
                             !.outgoing = @ + 1]
    IN /\ v.at \in {"open", "left"} /\ v.inbound # <<>>
       /\ submitted' = IF IsInSequence(v, line) /\ line.type = "NEW_ORDER_SINGLE" /\ line.id \in ValidIds
                       THEN Append(submitted, [session |-> s, id |-> line.id]) ELSE submitted
       /\ \/ /\ v.at = "open"
             /\ dma' = [dma EXCEPT ![s] = [handled EXCEPT
                          !.outbound = Append(@, answer),
                          !.at = IF ShouldClose(v, line) THEN "closed" ELSE @]]
          \/ /\ v.at = "left"
             /\ \E at \in {IF ShouldClose(v, line) THEN "closed" ELSE "left", "closed"} :
                   dma' = [dma EXCEPT ![s] = [handled EXCEPT !.at = at]]
       /\ UNCHANGED answered

ReadAnswer(s) ==
    /\ dma[s].outbound # <<>>
    /\ answered' = answered \union {<<s, Head(dma[s].outbound).id>>}
    /\ dma' = [dma EXCEPT ![s].outbound = Tail(@)]
    /\ UNCHANGED submitted

LoseConnection(s) ==
    /\ dma[s].at = "open"
    /\ dma' = [dma EXCEPT ![s].at = "left", ![s].outbound = <<>>]
    /\ UNCHANGED <<submitted, answered>>

DmaNext ==
    \E s \in Sessions :
        Connect(s) \/ SendLine(s) \/ HandleLine(s) \/ ReadAnswer(s) \/ LoseConnection(s)
--------------------
\* The lines of a session up to the first that is out of order or takes leave.
IsOrderly(read, n) ==
    \A k \in 1 .. n :
        /\ read[k].number = k /\ read[k].type # "MALFORMED"
        /\ read[k].type = "LOGON" <=> k = 1
        /\ k < n => read[k].type # "LOGOUT"

\* session.go:71-81: exactly the orders of a session's orderly lines are submitted, in
\* their order and once, and each line that was read has an answer with a number of its own.
SessionsSubmitTheirLines ==
    \A s \in Sessions :
        LET read == dma[s].read
            orderly == {n \in DOMAIN read : IsOrderly(read, n) /\ read[n].id \in ValidIds}
            mine == {m \in DOMAIN submitted : submitted[m].session = s}
        IN /\ {submitted[m].id : m \in mine} = {read[n].id : n \in orderly}
           /\ \A m, k \in mine, i, j \in orderly :
                 (submitted[m].id = read[i].id /\ submitted[k].id = read[j].id) => (m < k <=> i < j)
           /\ dma[s].outgoing = Len(read) + 1
           /\ \A n \in DOMAIN dma[s].outbound : dma[s].outbound[n].number = Len(read) - Len(dma[s].outbound) + n

\* dmagateway has no key under which an order is placed once (server.go:55: a session is
\* new): a client that sends again what was not answered may have it placed twice, one
\* time for each session it was not answered in, but never when it had the answer.
RepeatsWereUnanswered ==
    \A m, n \in DOMAIN submitted :
        (m # n /\ submitted[m].id = submitted[n].id) =>
            /\ submitted[m].session # submitted[n].session
            /\ \/ <<submitted[m].session, submitted[m].id>> \notin answered
               \/ <<submitted[n].session, submitted[n].id>> \notin answered
====================
