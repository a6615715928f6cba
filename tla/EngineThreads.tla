-------- MODULE EngineThreads --------
(***************************************************************************)
(* The threads of the matching engine and what passes between them: one    *)
(* ring with every load and store of its two sides, and the request loop   *)
(* over two rings that are the queues the first part shows a ring to be.   *)
(* A behaviour is about one of the two, which share no state.              *)
(***************************************************************************)
EXTENDS SpscRingBuffer, MatchingServer

VARIABLE focus      \* "ring" or "server"

engineVars == <<focus, vars, serverVars>>

EngineInit ==
    /\ focus \in {"ring", "server"}
    /\ Init /\ ServerInit

EngineNext ==
    \/ focus = "ring" /\ Next /\ UNCHANGED <<focus, serverVars>>
    \/ focus = "server" /\ ServerNext /\ UNCHANGED <<focus, vars>>

EngineSpec == EngineInit /\ [][EngineNext]_engineVars /\ Fairness /\ ServerFairness

--------------------
(* Properties *)

\* No slot of a ring is accessed in a race, and what the threads hand to each other over
\* the rings reaches who it is for, once and in order.
HandOffsAreSound ==
    /\ NoSlotIsRacedOn
    /\ AnswersBelongToTheirRequests
    /\ DepthsArriveInOrder

\* Neither side of a ring spins for ever, and no line waits for ever while the
\* matching-core thread lives.
ThreadsMoveOn == SpinsEnd /\ EveryLineIsHandled
====================
