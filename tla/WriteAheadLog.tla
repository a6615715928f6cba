-------- MODULE WriteAheadLog --------
(***************************************************************************)
(* The durable order book of the matching engine: WalBackedOrderBook over  *)
(* the write-ahead log of writeAheadLog.rs.                                *)
(*                                                                         *)
(* Matching is a deterministic function of the commands applied so far, so *)
(* the in-memory book is represented by that sequence of commands (with    *)
(* the id the book gave to each submitted order); module OrderBookCore     *)
(* says what the commands do.  The log file is a sequence of lines.  A     *)
(* line holds one parseable record or bytes no parser accepts, and it may  *)
(* lack its final newline, in which case the next append continues it.     *)
(***************************************************************************)
EXTENDS Integers, Sequences, FiniteSets, SequencesExt

CONSTANTS
    Orders,           \* payloads of submitted orders
    NoOrder,          \* the payload of a record that carries none
    PartialWrites,    \* what an interrupted append may leave in the file
    MaxTrades,        \* bound: TradeExecuted records one submission logs
    MaxCommands,      \* bound: commands handled over the whole behaviour
    MaxCrashes,       \* bound: crashes of the process
    MaxAppendErrors   \* bound: appends that return Err without a crash

AllPartialWrites == {"nothing", "fragment", "unterminated", "whole"}

ASSUME OrdersAssumption == NoOrder \notin Orders
ASSUME PartialWritesAssumption == PartialWrites \subseteq AllPartialWrites
ASSUME BoundsAssumption ==
    /\ MaxTrades \in Nat
    /\ MaxCommands \in Nat
    /\ MaxCrashes \in Nat
    /\ MaxAppendErrors \in Nat

VARIABLES
    book,             \* commands applied to the in-memory OrderBookCore
    nextId,           \* OrderBookCore's next order sequence number
    wal,              \* the lines of the log file
    pending,          \* records the current call has still to append
    call,             \* the current call's command and where it was logged
    pc,               \* where the process is
    acked,            \* acknowledged commands, each with where it was logged
    commands, crashes, appendErrors   \* counters for the bounds

counters == <<commands, crashes, appendErrors>>
logVars == <<book, nextId, wal, pending, call, pc, acked, counters>>

--------------------
(* Records and the lines of the file. *)

OrderAccepted(id, order) == [kind |-> "OrderAccepted", id |-> id, order |-> order]
OrderCancelled(id)       == [kind |-> "OrderCancelled", id |-> id, order |-> NoOrder]
TradeExecuted            == [kind |-> "TradeExecuted", id |-> 0, order |-> NoOrder]
Unparseable              == [kind |-> "Unparseable", id |-> 0, order |-> NoOrder]

Kinds   == {"OrderAccepted", "OrderCancelled", "TradeExecuted", "Unparseable"}
Records == [kind : Kinds, id : Nat, order : Orders \cup {NoOrder}]
Lines   == [record : Records, ended : BOOLEAN]

IsCommand(record) == record.kind \in {"OrderAccepted", "OrderCancelled"}

\* A record appended now starts a line of its own.
EndsWithNewline(log) == log = <<>> \/ log[Len(log)].ended

\* Bytes appended to a file that does not end with a newline continue its last
\* line, and two records on one line are not JSON.
AppendBytes(log, record, ended) ==
    IF EndsWithNewline(log)
    THEN Append(log, [record |-> record, ended |-> ended])
    ELSE [log EXCEPT ![Len(log)] = [record |-> Unparseable, ended |-> ended]]

\* appendEvent, run to its end or interrupted: "whole" writes line and newline.
Written(log, record, how) ==
    CASE how = "nothing"      -> log
      [] how = "fragment"     -> AppendBytes(log, Unparseable, FALSE)
      [] how = "unterminated" -> AppendBytes(log, record, FALSE)
      [] how = "whole"        -> AppendBytes(log, record, TRUE)

\* readAllEventRecordsFromWalFile: only the last line may be unparseable.
Readable(log) ==
    \A i \in 1 .. Len(log) - 1 : log[i].record.kind # "Unparseable"

RecordsOf(log) == [i \in 1 .. Len(log) |-> log[i].record]

\* A torn last line is dropped; a log that is not Readable is never replayed.
EventRecords(log) ==
    IF log # <<>> /\ log[Len(log)].record.kind = "Unparseable"
    THEN RecordsOf(SubSeq(log, 1, Len(log) - 1))
    ELSE RecordsOf(log)

SubmissionsIn(records) ==
    Cardinality({i \in 1 .. Len(records) : records[i].kind = "OrderAccepted"})

\* One round of the loop of replayWalEventRecordsIntoFreshOrderBook: a logged
\* command is issued again, and the book numbers the order afresh.
Reissue(commandsSoFar, record) ==
    IF record.kind = "OrderAccepted"
    THEN Append(commandsSoFar, OrderAccepted(SubmissionsIn(commandsSoFar) + 1, record.order))
    ELSE IF IsCommand(record) THEN Append(commandsSoFar, record) ELSE commandsSoFar

\* The commands issued to the empty book once every record has been handled.
Replay(records) ==
    LET issued[i \in 0 .. Len(records)] ==
            IF i = 0 THEN <<>> ELSE Reissue(issued[i - 1], records[i])
    IN  issued[Len(records)]

LoggedCalls == [command : Records, line : Nat, fresh : BOOLEAN]

\* A call before its command is logged.
Call(command) == [command |-> command, line |-> 0, fresh |-> TRUE]

--------------------
LogInit ==
    /\ book = <<>> /\ nextId = 1
    /\ wal = <<>> /\ pending = <<>> /\ call = Call(Unparseable)
    /\ pc = "idle"
    /\ acked = <<>>
    /\ commands = 0 /\ crashes = 0 /\ appendErrors = 0

\* submitIncomingOrder: the book applies the order first; the records that
\* tell of it are appended after that, one at a time.
SubmitIncomingOrder(order) ==
    /\ pc = "idle" /\ commands < MaxCommands
    /\ book' = Append(book, OrderAccepted(nextId, order))
    /\ nextId' = nextId + 1
    /\ \E trades \in 0 .. MaxTrades :
          pending' = <<OrderAccepted(nextId, order)>> \o [t \in 1 .. trades |-> TradeExecuted]
    /\ pc' = "logging"
    /\ commands' = commands + 1
    /\ call' = Call(OrderAccepted(nextId, order))
    /\ UNCHANGED <<wal, acked, crashes, appendErrors>>

\* Mutant: a cancel is applied and not logged.
CancelOrderUnlogged(id) ==
    /\ pc = "idle" /\ commands < MaxCommands
    /\ book' = Append(book, OrderCancelled(id))
    /\ commands' = commands + 1
    /\ UNCHANGED <<nextId, wal, pending, call, pc, acked, crashes, appendErrors>>

\* cancelOrder: logged whether or not the id names a live order.
CancelOrder(id) ==
    /\ pc = "idle" /\ commands < MaxCommands
    /\ book' = Append(book, OrderCancelled(id))
    /\ pending' = <<OrderCancelled(id)>>
    /\ pc' = "logging"
    /\ commands' = commands + 1
    /\ call' = Call(OrderCancelled(id))
    /\ UNCHANGED <<nextId, wal, acked, crashes, appendErrors>>

\* Mutant: the position is taken before the append, and counted from zero.
AppendEventOffByOne ==
    /\ pc = "logging" /\ pending # <<>>
    /\ wal' = Written(wal, Head(pending), "whole")
    /\ pending' = Tail(pending)
    /\ call' = [call EXCEPT !.line = Len(wal) - 1, !.fresh = EndsWithNewline(wal)]
    /\ UNCHANGED <<book, nextId, pc, acked, counters>>

\* appendEvent returns Ok: write_all, flush and sync_all all succeeded.
AppendEvent ==
    /\ pc = "logging" /\ pending # <<>>
    /\ wal' = Written(wal, Head(pending), "whole")
    /\ pending' = Tail(pending)
    /\ call' = IF IsCommand(Head(pending))
               THEN [call EXCEPT !.line = Len(wal'), !.fresh = EndsWithNewline(wal)]
               ELSE call
    /\ UNCHANGED <<book, nextId, pc, acked, counters>>

\* Mutant: the response is sent before the records are appended.
AcknowledgeBeforeLogging ==
    /\ pc = "logging"
    /\ acked' = Append(acked, call)
    /\ pc' = IF pending = <<>> THEN "idle" ELSE "logging"
    /\ UNCHANGED <<book, nextId, wal, pending, call, counters>>

\* Every append returned Ok, and main.rs sends the response.
Acknowledge ==
    /\ pc = "logging" /\ pending = <<>>
    /\ acked' = Append(acked, call)
    /\ pc' = "idle"
    /\ UNCHANGED <<book, nextId, wal, pending, call, counters>>

\* appendEvent returns Err (a full disk, a failed fsync): the call ends with an
\* error response, the book keeps the command, and the process goes on.
AppendFails(how) ==
    /\ pc = "logging" /\ pending # <<>> /\ appendErrors < MaxAppendErrors
    /\ wal' = Written(wal, Head(pending), how)
    /\ pending' = <<>>
    /\ pc' = "idle"
    /\ appendErrors' = appendErrors + 1
    /\ UNCHANGED <<book, nextId, call, acked, commands, crashes>>

\* The process dies, possibly in the middle of an append.
Crash(how) ==
    /\ pc \in {"idle", "logging"} /\ crashes < MaxCrashes
    /\ wal' = IF pending # <<>> THEN Written(wal, Head(pending), how) ELSE wal
    /\ book' = <<>> /\ nextId' = 1 /\ pending' = <<>>
    /\ pc' = "down"
    /\ crashes' = crashes + 1
    /\ UNCHANGED <<call, acked, commands, appendErrors>>

\* Mutant: the file is opened truncating, as createFreshWithNewWalFile does.
OpenRecoveringTruncating ==
    /\ pc = "down" /\ Readable(wal)
    /\ book' = Replay(EventRecords(wal))
    /\ nextId' = SubmissionsIn(RecordsOf(wal)) + 1
    /\ pc' = "idle"
    /\ wal' = <<>>
    /\ UNCHANGED <<pending, call, acked, counters>>

\* openRecoveringIfPresent: replay, then open the same file for appending; the
\* file is not truncated at the torn tail that was discarded.
OpenRecovering ==
    /\ pc = "down" /\ Readable(wal)
    /\ book' = Replay(EventRecords(wal))
    /\ nextId' = SubmissionsIn(RecordsOf(wal)) + 1
    /\ pc' = "idle"
    /\ UNCHANGED <<wal, pending, call, acked, counters>>

\* openRecoveringIfPresent returns Err and main.rs panics on it.
RecoveryRefused ==
    /\ pc = "down" /\ ~Readable(wal)
    /\ pc' = "refused"
    /\ UNCHANGED <<book, nextId, wal, pending, call, acked, counters>>

LogNext ==
    \/ \E order \in Orders : SubmitIncomingOrder(order)
    \/ \E id \in 1 .. MaxCommands : CancelOrder(id)
    \/ AppendEvent
    \/ Acknowledge
    \/ \E how \in PartialWrites : AppendFails(how) \/ Crash(how)
    \/ OpenRecovering
    \/ RecoveryRefused

LogSpec == LogInit /\ [][LogNext]_logVars

--------------------
(* Properties. *)

\* Every variable holds a value of its kind (what the book holds is said exactly
\* by BookIsTheReplayedLog).
LogTypeOK ==
    /\ nextId \in Nat
    /\ wal \in Seq(Lines)
    /\ pending \in Seq(Records)
    /\ call \in LoggedCalls
    /\ pc \in {"idle", "logging", "down", "refused"}
    /\ acked \in Seq(LoggedCalls)
    /\ commands \in Nat /\ crashes \in Nat /\ appendErrors \in Nat

Durable(ack) ==
    /\ ack.line \in 1 .. Len(wal)
    /\ wal[ack.line] = [record |-> ack.command, ended |-> TRUE]

\* An acknowledged command is in the log, whole, on a line no later append can
\* touch, whatever crashes and failed appends came before or after (the module
\* comment of walBackedOrderBook.rs), if the append that logged it started a
\* line of its own.
FreshlyLoggedAcksAreDurable ==
    \A n \in 1 .. Len(acked) : acked[n].fresh => Durable(acked[n])

\* The unqualified promise of walBackedOrderBook.rs: no crash and no failed
\* append makes the log forget a command that was acknowledged.
AckedCommandsAreDurable ==
    \A n \in 1 .. Len(acked) : Durable(acked[n])

\* No interrupted append has ever left part of a line: every line of the file is
\* one record and its newline.  (A part of a line never leaves the file.)
LogIsClean ==
    \A i \in 1 .. Len(wal) : wal[i].ended /\ wal[i].record.kind # "Unparseable"

\* Crashes and failed appends that leave nothing or a whole line lose no
\* acknowledged command.
AckedCommandsAreDurableInACleanLog == LogIsClean => AckedCommandsAreDurable

\* The first crash loses nothing either, however it tears the log: what it
\* leaves behind holds every command acknowledged before it.
FirstCrashLosesNoAcknowledgedCommand ==
    (pc = "down" /\ crashes = 1 /\ appendErrors = 0) => AckedCommandsAreDurable

\* As long as every append has succeeded or left nothing but whole lines in a
\* crash, the log tells all there is to tell.
LogIsComplete == LogIsClean /\ appendErrors = 0

\* Replay numbers an acknowledged order with the id its client was given
\* (WalEventRecord::OrderAccepted: replay "naturally re-derives the same id").
ReplayDerivesTheAcknowledgedIds ==
    LogIsComplete => \A n \in 1 .. Len(acked) :
        LET ack == acked[n]
        IN  ack.command.kind = "OrderAccepted" =>
              /\ Durable(ack)
              /\ SubmissionsIn(RecordsOf(SubSeq(wal, 1, ack.line))) = ack.command.id

\* Between calls the in-memory book is the one a restart would rebuild.
BookIsTheReplayedLog ==
    (pc = "idle" /\ LogIsComplete) => book = Replay(EventRecords(wal))

\* What the log says is what was acknowledged and what a restart rebuilds: after
\* the first crash, for the ids the clients hold, and for the whole book.
ReplayIsFaithful ==
    FirstCrashLosesNoAcknowledgedCommand /\ ReplayDerivesTheAcknowledgedIds /\ BookIsTheReplayedLog

\* The log is appended only: a line that has its newline is never changed.
EndedLinesNeverChange ==
    [][\A i \in 1 .. Len(wal) : wal[i].ended => i <= Len(wal') /\ wal'[i] = wal[i]]_wal

\* What domReplayHttpServer.rs replays for a reader of the live file.
History(log) == Replay(EventRecords(log))

\* The last line is a whole record; an interrupted append left its newline out.
EndsInATornRecord(log) ==
    /\ ~EndsWithNewline(log)
    /\ log[Len(log)].record.kind # "Unparseable"

\* A reader of the live file never sees history change, it only sees it grow,
\* through crashes, failed appends and recoveries - unless the reader refuses the
\* file, or the log ends in a torn record: the next append takes that one record
\* back from the history (and what it appends is not told either).
ReplayedHistoryIsKept ==
    [][Readable(wal') =>
          IF EndsInATornRecord(wal)
          THEN History(wal') = Replay(RecordsOf(SubSeq(wal, 1, Len(wal) - 1)))
          ELSE IsPrefix(History(wal), History(wal'))]_wal
====================
