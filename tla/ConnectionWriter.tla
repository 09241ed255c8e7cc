-------------------------- MODULE ConnectionWriter --------------------------
(***************************************************************************)
(* The writer task of one plugin connection (run_writer_observed) and the  *)
(* broker operations that feed it: deliver, deliver_batch, force_close and *)
(* the loss observation.  Broker and writer run on different threads and   *)
(* meet only at the unbounded channel rx and the atomic counter lost, so   *)
(* each try_recv, write, flush and send is a step of its own.              *)
(*                                                                         *)
(* A line is its position in the order of acceptance and whether the       *)
(* overflow policy applies to it; its bytes play no part.  A batch held in *)
(* the writer's queue is kept as its remaining lines: pop_next_line hands  *)
(* them out one at a time and no other code looks at where a batch ends.   *)
(***************************************************************************)
EXTENDS Integers, Sequences, FiniteSets, SequencesExt

CONSTANTS
    Cap,                \* capacity of the live queue (DEFAULT_QUEUE_CAPACITY)
    DrainBurst,         \* messages drained before one line is written (4096)
    MaxLines,           \* bound: lines the broker hands to this connection
    MaxBatch,           \* bound: lines of one lossless batch
    MaxRx               \* bound: messages waiting in the channel

ASSUME CapAssumption == Cap \in Nat
ASSUME BurstAssumption == DrainBurst \in Nat \ {0}
ASSUME BoundsAssumption == MaxLines \in Nat /\ MaxBatch \in Nat /\ MaxRx \in Nat

VARIABLES
    senders,            \* the broker still holds this connection's sender
    rx,                 \* the unbounded channel of ConnectionOutbound messages
    next,               \* number of the next line to be accepted
    q,                  \* the writer's queue
    queuedLossy,        \* queued_lossy
    closeAfterDrain,    \* close_after_drain
    burst,              \* iterations of the drain loop left
    pc,                 \* where the writer task stands
    hand,               \* the line taken from the queue and not yet written
    wire,               \* lines written to the plugin's stdin
    lost,               \* the atomic loss counter shared with the broker
    reported,           \* losses the broker has taken from the counter
    dropped,            \* the lines that were dropped (history)
    notices             \* WriterEnd notices sent to the broker

writerVars == <<q, queuedLossy, closeAfterDrain, burst, pc, hand, wire>>
vars == <<senders, rx, next, writerVars, lost, reported, dropped, notices>>

Line == [n : Nat \ {0}, lossy : BOOLEAN]
Message == [kind : {"Send", "Batch", "Close"}, lines : Seq(Line)]

(* Points at which the task is suspended in an await; only there can the   *)
(* abort of its JoinHandle take effect.                                    *)
AwaitPoints == {"write", "flush", "final", "wait", "fault"}
Ended == {"done", "aborted"}

TypeOK ==
    /\ senders \in BOOLEAN
    /\ rx \in Seq(Message)
    /\ next \in Nat \ {0}
    /\ q \in Seq(Line)
    /\ queuedLossy \in Nat
    /\ closeAfterDrain \in BOOLEAN
    /\ burst \in 0..DrainBurst
    /\ pc \in AwaitPoints \cup Ended \cup {"drain", "pop"}
    /\ hand \in Seq(Line) /\ Len(hand) <= 1
    /\ wire \in Seq(Line)
    /\ lost \in Nat /\ reported \in Nat
    /\ dropped \in SUBSET Line
    /\ notices \in Nat

(* rx.close() runs before the failure notice is sent, and the receiver is  *)
(* dropped with the task; after either, a send of the broker fails with    *)
(* WriterClosed and changes nothing.                                       *)
RxOpen == pc \notin {"fault"} \cup Ended

Init ==
    /\ senders = TRUE /\ rx = <<>> /\ next = 1
    /\ q = <<>> /\ queuedLossy = 0 /\ closeAfterDrain = FALSE
    /\ burst = DrainBurst /\ pc = "drain" /\ hand = <<>> /\ wire = <<>>
    /\ lost = 0 /\ reported = 0 /\ dropped = {} /\ notices = 0

-----------------------------------------------------------------------------
(* The broker's side. *)

Msg(kind, lines) == [kind |-> kind, lines |-> lines]

(* deliver: one live line for this plugin. *)
Deliver ==
    /\ senders /\ RxOpen /\ Len(rx) < MaxRx /\ next <= MaxLines
    /\ rx' = Append(rx, Msg("Send", <<[n |-> next, lossy |-> TRUE]>>))
    /\ next' = next + 1
    /\ UNCHANGED <<senders, writerVars, lost, reported, dropped, notices>>

(* deliver_batch: a replay chunk of k lines, possibly empty. *)
DeliverBatch(k) ==
    /\ senders /\ RxOpen /\ Len(rx) < MaxRx /\ next + k <= MaxLines + 1
    /\ rx' = Append(rx, Msg("Batch",
                            [i \in 1..k |-> [n |-> next + i - 1, lossy |-> FALSE]]))
    /\ next' = next + k
    /\ UNCHANGED <<senders, writerVars, lost, reported, dropped, notices>>

(* force_close: the sender leaves the routing map and its last message is  *)
(* Close.                                                                  *)
ForceClose ==
    /\ senders
    /\ senders' = FALSE
    /\ rx' = IF RxOpen THEN Append(rx, Msg("Close", <<>>)) ELSE rx
    /\ UNCHANGED <<next, writerVars, lost, reported, dropped, notices>>

(* transport_failed: the sender is dropped with no Close behind it. *)
DropSender ==
    /\ senders
    /\ senders' = FALSE
    /\ UNCHANGED <<rx, next, writerVars, lost, reported, dropped, notices>>

(* The broker aborts the task of a connection it has begun to close: at    *)
(* once after a transport failure, otherwise when close_deadline expires.  *)
AbortAt(points) ==
    /\ ~senders /\ pc \in points
    /\ pc' = "aborted"
    /\ UNCHANGED <<senders, rx, next, q, queuedLossy, closeAfterDrain, burst,
                   hand, wire, lost, reported, dropped, notices>>

(* Defect: the deadline only cancels an idle writer. *)
AbortIdleOnly == AbortAt({"wait", "fault"})

Abort == AbortAt(AwaitPoints)

(* observe_losses_and_local_deadlines: lost.swap(0). *)
ObserveLosses ==
    /\ lost > 0
    /\ reported' = reported + lost /\ lost' = 0
    /\ UNCHANGED <<senders, rx, next, writerVars, dropped, notices>>

-----------------------------------------------------------------------------
(* The writer task. *)

(* Defect: the front of the queue is dropped whatever it is. *)
OldestOfAnyKind(s) == IF s = <<>> THEN 0 ELSE 1

OldestLossy(s) == SelectInSeq(s, LAMBDA l : l.lossy)

(* Admission of one live line by the drain loop: at capacity the oldest    *)
(* live line makes room; with a capacity of zero the new line itself is    *)
(* the loss.                                                               *)
PushLossyWhen(full, l) ==
    LET victim == IF full THEN OldestLossy(q) ELSE 0
        kept == IF victim > 0 THEN RemoveAt(q, victim) ELSE q
        count == IF victim > 0 THEN queuedLossy - 1 ELSE queuedLossy
    IN  /\ lost' = IF full THEN lost + 1 ELSE lost
        /\ q' = IF Cap > 0 THEN Append(kept, l) ELSE kept
        /\ queuedLossy' = IF Cap > 0 THEN count + 1 ELSE count
        /\ dropped' = dropped
                        \cup (IF victim > 0 THEN {q[victim]} ELSE {})
                        \cup (IF Cap = 0 THEN {l} ELSE {})

(* Defect: off by one at the capacity. *)
PushLossyOffByOne(l) == PushLossyWhen(queuedLossy > Cap, l)

(* Defect: at capacity the arriving line is dropped, not the oldest. *)
PushLossyDropsNewest(l) ==
    IF queuedLossy >= Cap
    THEN /\ lost' = lost + 1 /\ dropped' = dropped \cup {l}
         /\ UNCHANGED <<q, queuedLossy>>
    ELSE PushLossyWhen(FALSE, l)

PushLossy(l) == PushLossyWhen(queuedLossy >= Cap, l)

PushLossless(lines) ==
    /\ q' = q \o lines
    /\ UNCHANGED <<queuedLossy, lost, dropped>>

(* One received message: both the drain loop and the blocking receive      *)
(* handle it this way (the blocking receive only runs on an empty queue,   *)
(* where the overflow test is the test for a capacity of zero).            *)
Accept(m) ==
    \/ /\ m.kind = "Send" /\ PushLossy(m.lines[1])
       /\ UNCHANGED closeAfterDrain
    \/ /\ m.kind = "Batch" /\ PushLossless(m.lines)
       /\ UNCHANGED closeAfterDrain
    \/ /\ m.kind = "Close" /\ closeAfterDrain' = TRUE
       /\ UNCHANGED <<q, queuedLossy, lost, dropped>>

(* rx.try_recv() in the drain loop with a message waiting. *)
DrainOne ==
    /\ pc = "drain" /\ burst > 0 /\ rx # <<>>
    /\ Accept(Head(rx))
    /\ rx' = Tail(rx)
    /\ burst' = burst - 1
    /\ pc' = IF Head(rx).kind = "Close" THEN "pop" ELSE "drain"
    /\ UNCHANGED <<senders, next, hand, wire, reported, notices>>

(* The drain loop ends: its burst is used up, the channel is empty, or it  *)
(* is empty and disconnected.                                              *)
DrainEnd ==
    /\ pc = "drain" /\ (burst = 0 \/ rx = <<>>)
    /\ pc' = "pop"
    /\ closeAfterDrain' = (closeAfterDrain \/ (burst > 0 /\ ~senders))
    /\ UNCHANGED <<senders, rx, next, q, queuedLossy, burst, hand, wire,
                   lost, reported, dropped, notices>>

(* pop_next_line takes the head of the queue and keeps queued_lossy. *)
PopCountingAll ==          \* Defect: a lossless line is counted out too.
    /\ hand' = <<Head(q)>> /\ q' = Tail(q)
    /\ queuedLossy' = queuedLossy - 1

Pop ==
    /\ hand' = <<Head(q)>> /\ q' = Tail(q)
    /\ queuedLossy' = queuedLossy - (IF Head(q).lossy THEN 1 ELSE 0)

(* The head of the queue is written; with an empty queue the writer closes *)
(* if it was told to and otherwise waits.                                  *)
PopNextLine ==
    /\ pc = "pop"
    /\ IF q # <<>>
       THEN Pop /\ pc' = "write"
       ELSE /\ pc' = IF closeAfterDrain THEN "final" ELSE "wait"
            /\ UNCHANGED <<hand, q, queuedLossy>>
    /\ UNCHANGED <<senders, rx, next, closeAfterDrain, burst, wire, lost,
                   reported, dropped, notices>>

(* writer.write_all: the line is on the wire, or the pipe is broken. *)
WriteAll ==
    /\ pc = "write"
    /\ \/ /\ wire' = wire \o hand /\ hand' = <<>> /\ pc' = "flush"
       \/ /\ pc' = "fault" /\ UNCHANGED <<wire, hand>>
    /\ UNCHANGED <<senders, rx, next, q, queuedLossy, closeAfterDrain, burst,
                   lost, reported, dropped, notices>>

(* writer.flush after a line, then back to the drain loop. *)
Flush ==
    /\ pc = "flush"
    /\ \/ pc' = "drain" /\ burst' = DrainBurst
       \/ pc' = "fault" /\ UNCHANGED burst
    /\ UNCHANGED <<senders, rx, next, q, queuedLossy, closeAfterDrain, hand,
                   wire, lost, reported, dropped, notices>>

(* The flush and shutdown of a drained writer that was told to close. *)
FinalFlush ==
    /\ pc = "final"
    /\ pc' \in {"done", "fault"}
    /\ UNCHANGED <<senders, rx, next, q, queuedLossy, closeAfterDrain, burst,
                   hand, wire, lost, reported, dropped, notices>>

(* rx.recv().await: one message, or None once the broker's sender is gone. *)
Recv ==
    /\ pc = "wait"
    /\ \/ /\ rx # <<>> /\ Accept(Head(rx)) /\ rx' = Tail(rx)
       \/ /\ rx = <<>> /\ ~senders
          /\ closeAfterDrain' = TRUE
          /\ UNCHANGED <<rx, q, queuedLossy, lost, dropped>>
    /\ pc' = "drain" /\ burst' = DrainBurst
    /\ UNCHANGED <<senders, next, hand, wire, reported, notices>>

(* The failure notice reaches the broker's channel and the task returns. *)
SendNotice ==
    /\ pc = "fault"
    /\ notices' = notices + 1
    /\ pc' = "done"
    /\ UNCHANGED <<senders, rx, next, q, queuedLossy, closeAfterDrain, burst,
                   hand, wire, lost, reported, dropped>>

-----------------------------------------------------------------------------
Broker ==
    \/ Deliver \/ ForceClose \/ DropSender \/ ObserveLosses
    \/ \E k \in 0..MaxBatch : DeliverBatch(k)

(* Steps of the task that wait for nobody. *)
Local == DrainOne \/ DrainEnd \/ PopNextLine \/ Recv \/ SendNotice

(* Steps that wait for the plugin to read its stdin. *)
Pipe == WriteAll \/ Flush \/ FinalFlush

(* The task has ended and the broker has let go of it. *)
Terminated == pc \in Ended /\ ~senders /\ lost = 0 /\ UNCHANGED vars

Next == Broker \/ Abort \/ Local \/ Pipe \/ Terminated

(* The runtime keeps polling a runnable task, and the broker re-examines   *)
(* every closing connection's deadline on each turn.  Nothing makes the    *)
(* plugin read its stdin, so Pipe has no fairness.                         *)
Spec == Init /\ [][Next]_vars /\ WF_vars(Local) /\ WF_vars(Abort)

-----------------------------------------------------------------------------
(* Accepted lines the writer has neither written nor dropped. *)
Queued == q \o FlattenSeq([i \in 1..Len(rx) |-> rx[i].lines])
InFlight == hand \o Queued

LossyIn(s) == {i \in 1..Len(s) : s[i].lossy}

(* Lines reach the plugin's stdin in the order in which deliver and        *)
(* deliver_batch accepted them, and none twice: what is written and what   *)
(* is still in flight form one increasing sequence.                        *)
InOrder ==
    LET all == wire \o InFlight
    IN  \A i, j \in 1..Len(all) : i < j => all[i].n < all[j].n

(* No line disappears silently: every accepted line is written, in flight, *)
(* or was dropped; only live lines are dropped; and the losses counted for *)
(* engine.plugin_delivery_lost are exactly the dropped lines, whatever the *)
(* interleaving of the broker's swap with the writer's increments.         *)
LossAccounted ==
    /\ \A l \in dropped : l.lossy
    /\ Cardinality(dropped) = lost + reported
    /\ {l.n : l \in ToSet(wire \o InFlight)} \cup {l.n : l \in dropped} = 1..(next - 1)
    /\ Len(wire \o InFlight) + Cardinality(dropped) = next - 1

(* queued_lossy counts the live lines of the queue, which never exceed the *)
(* capacity, however many lossless lines share the queue with them.        *)
QueueBounded ==
    /\ queuedLossy = Cardinality(LossyIn(q))
    /\ queuedLossy <= Cap

(* "Send, then close": a writer that ended by itself and reported no fault *)
(* has written every line accepted before Close; one that ended with lines *)
(* unwritten has told the broker, once.                                    *)
CloseDrains ==
    /\ pc = "done" /\ notices = 0 => InFlight = <<>>
    /\ notices <= 1

(* Whatever the order of sends, overflow, pipe faults and the close, each  *)
(* accepted line is written once and in order, dropped and counted, or     *)
(* left behind by a writer that said so.                                   *)
LinesAccounted == InOrder /\ LossAccounted /\ CloseDrains

(* Once the broker lets go of a connection its writer ends, even if the    *)
(* plugin never reads its stdin again.                                     *)
WriterEnds == ~senders ~> pc \in Ended

(* The writer implements the channel promised in OutboundChannel. *)
Channel == INSTANCE OutboundChannel
               WITH pending <- Queued, handed <- wire \o hand,
                    drops <- lost + reported

ImplementsChannel == Channel!Spec
=============================================================================
