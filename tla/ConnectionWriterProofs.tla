----------------------- MODULE ConnectionWriterProofs -----------------------
(***************************************************************************)
(* For every capacity, burst and workload: the writer's variables keep     *)
(* their types; queued_lossy counts the live lines of the queue and never  *)
(* exceeds the capacity; every line accepted is handed over, pending or a  *)
(* live line that was dropped and counted; and the writer with its channel *)
(* implements OutboundChannel.                                             *)
(***************************************************************************)
EXTENDS ConnectionWriter, SequenceLemmas

(* What deliver and deliver_batch put into the channel: a Send is one live *)
(* line, a batch holds lossless lines only, Close holds none.              *)
MessageShape(m) ==
    /\ m.kind = "Send" => Len(m.lines) = 1 /\ m.lines[1].lossy
    /\ m.kind = "Batch" => \A i \in 1..Len(m.lines) : ~m.lines[i].lossy
    /\ m.kind = "Close" => m.lines = <<>>

ChannelShape == \A i \in 1..Len(rx) : MessageShape(rx[i])

(* The inductive invariant: the count is only right because the channel    *)
(* never carries a lossless line in a Send or a live one in a batch.       *)
QueueInv == TypeOK /\ ChannelShape /\ QueueBounded

-----------------------------------------------------------------------------
(* The overflow victim is the first live line of the queue, if any. *)
LEMMA OldestLossyProperties ==
    ASSUME NEW s \in Seq(Line)
    PROVE  /\ OldestLossy(s) \in 0..Len(s)
           /\ OldestLossy(s) > 0 => s[OldestLossy(s)].lossy
           /\ OldestLossy(s) = 0 <=> LossyIn(s) = {}
           /\ \A j \in LossyIn(s) : OldestLossy(s) <= j
<1>1. OldestLossy(s) = IF LossyIn(s) # {} THEN Min(LossyIn(s)) ELSE 0
    BY DEF OldestLossy, SelectInSeq, LossyIn
<1>2. LossyIn(s) \in SUBSET (1..Len(s)) /\ Len(s) \in Nat
    BY LenProperties DEF LossyIn
<1>3. CASE LossyIn(s) = {}
    BY <1>1, <1>2, <1>3
<1>4. CASE LossyIn(s) # {}
  <2>1. Min(LossyIn(s)) \in LossyIn(s) /\ \A j \in LossyIn(s) : Min(LossyIn(s)) <= j
    BY <1>2, <1>4, MinOfNaturals
  <2> QED BY <1>1, <1>2, <1>4, <2>1 DEF LossyIn
<1> QED BY <1>3, <1>4

-----------------------------------------------------------------------------
(* How the queue operations change the number of live lines. *)
LEMMA LossyFinite ==
    ASSUME NEW s \in Seq(Line)
    PROVE  IsFiniteSet(LossyIn(s)) /\ Cardinality(LossyIn(s)) \in Nat
<1>1. Len(s) \in Nat
    BY LenProperties
<1>2. IsFiniteSet(1..Len(s))
    BY <1>1, FS_Interval
<1>3. LossyIn(s) \in SUBSET (1..Len(s))
    BY DEF LossyIn
<1>4. IsFiniteSet(LossyIn(s))
    BY <1>2, <1>3, FS_Subset
<1> QED BY <1>4, FS_CardinalityType

LEMMA LossyAppend ==
    ASSUME NEW s \in Seq(Line), NEW l \in Line, l.lossy
    PROVE  Cardinality(LossyIn(Append(s, l))) = Cardinality(LossyIn(s)) + 1
<1>1. LossyIn(Append(s, l)) = LossyIn(s) \cup {Len(s) + 1}
    BY LenProperties, AppendProperties DEF LossyIn
<1>2. Len(s) + 1 \notin LossyIn(s)
    BY LenProperties DEF LossyIn
<1> QED BY <1>1, <1>2, LossyFinite, FS_AddElement

LEMMA LosslessConcat ==
    ASSUME NEW s \in Seq(Line), NEW t \in Seq(Line),
           \A i \in 1..Len(t) : ~t[i].lossy
    PROVE  LossyIn(s \o t) = LossyIn(s)
    BY LenProperties, ConcatProperties DEF LossyIn

(* Removing element v shifts the later elements down by one. *)
LEMMA LossyShift ==
    ASSUME NEW s \in Seq(Line), NEW t \in Seq(Line), NEW v \in 1..Len(s),
           Len(t) = Len(s) - 1,
           \A j \in 1..Len(t) : t[j] = IF j < v THEN s[j] ELSE s[j + 1]
    PROVE  Cardinality(LossyIn(t)) =
               Cardinality(LossyIn(s)) - (IF s[v].lossy THEN 1 ELSE 0)
<1> DEFINE f == [j \in LossyIn(t) |-> IF j < v THEN j ELSE j + 1]
<1>0. Len(s) \in Nat /\ Len(t) \in Nat
    BY LenProperties
<1>1. f \in [LossyIn(t) -> LossyIn(s) \ {v}]
    BY <1>0 DEF LossyIn
<1>2. \A a, b \in LossyIn(t) : f[a] = f[b] => a = b
    BY <1>0 DEF LossyIn
<1>3. \A c \in LossyIn(s) \ {v} : \E a \in LossyIn(t) : f[a] = c
  <2> SUFFICES ASSUME NEW c \in LossyIn(s) \ {v}
               PROVE  \E a \in LossyIn(t) : f[a] = c
    OBVIOUS
  <2> DEFINE a == IF c < v THEN c ELSE c - 1
  <2>1. a \in LossyIn(t)
    BY <1>0 DEF LossyIn
  <2>2. f[a] = c
    BY <1>0, <2>1 DEF LossyIn
  <2> QED BY <2>1, <2>2
<1>4. f \in Bijection(LossyIn(t), LossyIn(s) \ {v})
    BY <1>1, <1>2, <1>3 DEF Bijection, Injection, Surjection, IsInjective
<1>5. ExistsBijection(LossyIn(t), LossyIn(s) \ {v})
    BY <1>4 DEF ExistsBijection
<1>6. Cardinality(LossyIn(t)) = Cardinality(LossyIn(s) \ {v})
    BY <1>5, LossyFinite, FS_Bijection
<1>7. v \in LossyIn(s) <=> s[v].lossy
    BY DEF LossyIn
<1>8. Cardinality(LossyIn(s) \ {v}) =
          IF v \in LossyIn(s) THEN Cardinality(LossyIn(s)) - 1
          ELSE Cardinality(LossyIn(s))
    BY LossyFinite, FS_RemoveElement
<1>9. Cardinality(LossyIn(s)) \in Nat
    BY LossyFinite
<1> QED BY <1>6, <1>7, <1>8, <1>9

-----------------------------------------------------------------------------
(* One live line pushed by either receive path keeps the count exact and   *)
(* within the capacity.                                                    *)
LEMMA PushLossyKeepsCount ==
    ASSUME TypeOK, QueueBounded, NEW l \in Line, l.lossy, PushLossy(l)
    PROVE  /\ q' \in Seq(Line) /\ queuedLossy' \in Nat
           /\ lost' \in Nat /\ dropped' \in SUBSET Line
           /\ QueueBounded'
<1> DEFINE full == queuedLossy >= Cap
           victim == IF full THEN OldestLossy(q) ELSE 0
           kept == IF victim > 0 THEN RemoveAt(q, victim) ELSE q
           count == IF victim > 0 THEN queuedLossy - 1 ELSE queuedLossy
<1>0. /\ q \in Seq(Line) /\ Cap \in Nat /\ queuedLossy \in Nat
      /\ lost \in Nat /\ dropped \in SUBSET Line
      /\ queuedLossy = Cardinality(LossyIn(q)) /\ queuedLossy <= Cap
    BY CapAssumption DEF TypeOK, QueueBounded
<1>1. /\ victim \in 0..Len(q)
      /\ victim > 0 => q[victim].lossy
      /\ full /\ victim = 0 => LossyIn(q) = {}
    BY <1>0, OldestLossyProperties, LenProperties
<1>2. /\ lost' = IF full THEN lost + 1 ELSE lost
      /\ q' = IF Cap > 0 THEN Append(kept, l) ELSE kept
      /\ queuedLossy' = IF Cap > 0 THEN count + 1 ELSE count
      /\ dropped' = dropped \cup (IF victim > 0 THEN {q[victim]} ELSE {})
                            \cup (IF Cap = 0 THEN {l} ELSE {})
    BY DEF PushLossy, PushLossyWhen
<1> HIDE DEF full, victim
<1>3. kept \in Seq(Line) /\ count = Cardinality(LossyIn(kept)) /\ count \in Nat
  <2>1. CASE victim > 0
    <3>1. victim \in 1..Len(q)
      BY <1>0, <1>1, <2>1, LenProperties
    <3>2. /\ RemoveAt(q, victim) \in Seq(Line)
          /\ Len(RemoveAt(q, victim)) = Len(q) - 1
          /\ \A j \in 1..Len(RemoveAt(q, victim)) :
                 RemoveAt(q, victim)[j] = IF j < victim THEN q[j] ELSE q[j + 1]
      BY <1>0, <3>1, RemoveAtShape
    <3>3. Cardinality(LossyIn(RemoveAt(q, victim))) = Cardinality(LossyIn(q)) - 1
      BY <1>0, <1>1, <2>1, <3>1, <3>2, LossyShift
    <3>4. Cardinality(LossyIn(RemoveAt(q, victim))) \in Nat
      BY <3>2, LossyFinite
    <3> QED BY <1>0, <2>1, <3>2, <3>3, <3>4
  <2>2. CASE ~(victim > 0)
    BY <1>0, <2>2
  <2> QED BY <2>1, <2>2
<1>4. count < Cap \/ Cap = 0
  <2>1. CASE full /\ victim = 0
    <3>1. Cardinality(LossyIn(q)) = 0
      BY <1>1, <2>1, FS_EmptySet
    <3> QED BY <1>0, <2>1, <3>1 DEF full
  <2>2. CASE ~full
    BY <1>0, <2>2 DEF full
  <2>3. CASE full /\ victim # 0
    BY <1>0, <1>1, <2>3, LenProperties
  <2> QED BY <2>1, <2>2, <2>3
<1>5. CASE Cap > 0
  <2>1. q' = Append(kept, l) /\ queuedLossy' = count + 1
    BY <1>2, <1>5
  <2>2. Cardinality(LossyIn(q')) = count + 1
    BY <1>3, <2>1, LossyAppend
  <2>3. q' \in Seq(Line)
    BY <1>3, <2>1, AppendProperties
  <2>4. dropped' \in SUBSET Line
    BY <1>0, <1>1, <1>2, <1>5, ElementOfSeq, LenProperties
  <2> HIDE DEF kept, count
  <2>5. lost' \in Nat
    BY <1>0, <1>2
  <2>6. queuedLossy' \in Nat /\ queuedLossy' <= Cap
    BY <1>0, <1>3, <1>4, <1>5, <2>1
  <2>7. queuedLossy' = Cardinality(LossyIn(q'))
    BY <2>1, <2>2
  <2>8. QueueBounded'
    BY <2>6, <2>7 DEF QueueBounded, LossyIn
  <2> QED BY <2>3, <2>4, <2>5, <2>6, <2>8
<1>6. CASE Cap = 0
  <2>1. q' = kept /\ queuedLossy' = count /\ count <= queuedLossy
    BY <1>0, <1>2, <1>6
  <2>2. dropped' \in SUBSET Line
    BY <1>0, <1>1, <1>2, <1>6, ElementOfSeq, LenProperties
  <2> HIDE DEF kept, count
  <2> QED BY <1>0, <1>2, <1>3, <1>6, <2>1, <2>2 DEF QueueBounded, LossyIn
<1> QED BY <1>0, <1>5, <1>6

(* A received message of the right shape keeps the queue's invariants. *)
LEMMA AcceptKeepsCount ==
    ASSUME TypeOK, QueueBounded, NEW m \in Message, MessageShape(m), Accept(m)
    PROVE  /\ q' \in Seq(Line) /\ queuedLossy' \in Nat
           /\ lost' \in Nat /\ dropped' \in SUBSET Line
           /\ closeAfterDrain' \in BOOLEAN
           /\ QueueBounded'
<1>0. m.lines \in Seq(Line)
    BY DEF Message
<1>1. CASE m.kind = "Send" /\ PushLossy(m.lines[1]) /\ UNCHANGED closeAfterDrain
  <2>1. m.lines[1] \in Line /\ m.lines[1].lossy
    BY <1>0, <1>1, ElementOfSeq DEF MessageShape
  <2>2. closeAfterDrain' \in BOOLEAN
    BY <1>1 DEF TypeOK
  <2> QED BY <1>1, <2>1, <2>2, PushLossyKeepsCount
<1>2. CASE m.kind = "Batch" /\ PushLossless(m.lines) /\ UNCHANGED closeAfterDrain
  <2>1. /\ q' = q \o m.lines /\ queuedLossy' = queuedLossy
        /\ lost' = lost /\ dropped' = dropped /\ closeAfterDrain' = closeAfterDrain
    BY <1>2 DEF PushLossless
  <2>2. q \in Seq(Line)
    BY DEF TypeOK
  <2>3. LossyIn(q \o m.lines) = LossyIn(q)
    BY <1>0, <1>2, <2>2, LosslessConcat DEF MessageShape
  <2>4. q' \in Seq(Line)
    BY <1>0, <2>1, <2>2, ConcatProperties
  <2>5. QueueBounded'
    BY <2>1, <2>3 DEF QueueBounded, LossyIn
  <2> QED BY <2>1, <2>4, <2>5 DEF TypeOK
<1>3. CASE /\ m.kind = "Close" /\ closeAfterDrain' = TRUE
           /\ UNCHANGED <<q, queuedLossy, lost, dropped>>
    BY <1>3 DEF TypeOK, QueueBounded, LossyIn
<1> QED BY <1>1, <1>2, <1>3 DEF Accept

-----------------------------------------------------------------------------
(* A message appended to the channel, or taken from it, keeps its shape. *)
LEMMA ChannelAppend ==
    ASSUME rx \in Seq(Message), ChannelShape, NEW m \in Message, MessageShape(m),
           rx' = Append(rx, m)
    PROVE  rx' \in Seq(Message) /\ ChannelShape'
<1>1. /\ Append(rx, m) \in Seq(Message) /\ Len(rx) \in Nat
      /\ Len(Append(rx, m)) = Len(rx) + 1
      /\ \A i \in 1..Len(rx) : Append(rx, m)[i] = rx[i]
      /\ Append(rx, m)[Len(rx) + 1] = m
    BY AppendProperties, LenProperties
<1>2. \A i \in 1..Len(rx) + 1 : MessageShape(Append(rx, m)[i])
  <2> SUFFICES ASSUME NEW i \in 1..Len(rx) + 1
               PROVE  MessageShape(Append(rx, m)[i])
    OBVIOUS
  <2>1. CASE i = Len(rx) + 1
    BY <1>1, <2>1
  <2>2. CASE i \in 1..Len(rx)
    BY <1>1, <2>2 DEF ChannelShape
  <2> QED BY <1>1, <2>1, <2>2
<1> QED BY <1>1, <1>2 DEF ChannelShape

LEMMA ChannelTail ==
    ASSUME rx \in Seq(Message), ChannelShape, rx # <<>>, rx' = Tail(rx)
    PROVE  /\ rx' \in Seq(Message) /\ ChannelShape'
           /\ Head(rx) \in Message /\ MessageShape(Head(rx))
<1>1. /\ Head(rx) \in Message /\ Tail(rx) \in Seq(Message) /\ Len(rx) \in Nat
      /\ Len(Tail(rx)) = Len(rx) - 1
      /\ \A i \in 1..Len(Tail(rx)) : Tail(rx)[i] = rx[i + 1]
    BY HeadTailProperties, LenProperties
<1>2. Len(rx) > 0 /\ Head(rx) = rx[1]
    BY <1>1, EmptySeq
<1>3. \A i \in 1..Len(Tail(rx)) : MessageShape(Tail(rx)[i])
    BY <1>1, <1>2 DEF ChannelShape
<1>4. MessageShape(Head(rx))
    BY <1>1, <1>2 DEF ChannelShape
<1> QED BY <1>1, <1>3, <1>4 DEF ChannelShape

(* The queue part of the invariant only reads q and queuedLossy. *)
LEMMA QueueUnchanged ==
    ASSUME QueueBounded, UNCHANGED <<q, queuedLossy>>
    PROVE  QueueBounded'
    BY DEF QueueBounded, LossyIn

LEMMA ChannelUnchanged ==
    ASSUME ChannelShape, UNCHANGED rx
    PROVE  ChannelShape'
    BY DEF ChannelShape

-----------------------------------------------------------------------------
LEMMA InitQueueInv == Init => QueueInv
<1> SUFFICES ASSUME Init PROVE QueueInv
    OBVIOUS
<1>1. TypeOK
  <2>1. rx \in Seq(Message) /\ q \in Seq(Line) /\ wire \in Seq(Line)
    BY EmptySeq DEF Init
  <2>2. hand \in Seq(Line) /\ Len(hand) <= 1
    BY EmptySeq DEF Init
  <2>3. senders \in BOOLEAN /\ closeAfterDrain \in BOOLEAN /\ dropped \in SUBSET Line
    BY Zenon DEF Init
  <2>4. /\ next \in Nat \ {0} /\ queuedLossy \in Nat
        /\ lost \in Nat /\ reported \in Nat /\ notices \in Nat
    BY DEF Init
  <2>5. burst \in 0..DrainBurst /\ pc \in AwaitPoints \cup Ended \cup {"drain", "pop"}
    BY BurstAssumption DEF Init
  <2> QED BY <2>1, <2>2, <2>3, <2>4, <2>5 DEF TypeOK
<1>2. ChannelShape
    BY DEF Init, ChannelShape
<1>3. LossyIn(q) = {}
    BY DEF Init, LossyIn
<1>4. QueueBounded
    BY <1>3, FS_EmptySet, CapAssumption DEF Init, QueueBounded
<1> QED BY <1>1, <1>2, <1>4 DEF QueueInv

LEMMA NextQueueInv == QueueInv /\ [Next]_vars => QueueInv'
<1> SUFFICES ASSUME QueueInv, [Next]_vars PROVE QueueInv'
    OBVIOUS
<1> USE DEF QueueInv
<1>1. CASE Deliver
  <2> DEFINE m == Msg("Send", <<[n |-> next, lossy |-> TRUE]>>)
  <2>1. m \in Message /\ MessageShape(m)
    BY DEF TypeOK, Msg, Message, Line, MessageShape
  <2>2. rx' = Append(rx, m)
    BY <1>1 DEF Deliver
  <2> HIDE DEF m
  <2>3. rx' \in Seq(Message) /\ ChannelShape'
    BY <2>1, <2>2, ChannelAppend DEF TypeOK
  <2>4. TypeOK'
    BY <1>1, <2>3 DEF TypeOK, Deliver, writerVars
  <2>5. QueueBounded'
    BY <1>1, QueueUnchanged DEF Deliver, writerVars
  <2> QED BY <2>3, <2>4, <2>5
<1>2. ASSUME NEW k \in 0..MaxBatch, DeliverBatch(k) PROVE QueueInv'
  <2> DEFINE ls == [i \in 1..k |-> [n |-> next + i - 1, lossy |-> FALSE]]
             m == Msg("Batch", ls)
  <2>0. k \in Nat /\ next \in Nat \ {0}
    BY BoundsAssumption DEF TypeOK
  <2>1. /\ ls \in Seq(Line) /\ Len(ls) = k
    <3>1. \A i \in 1..k : [n |-> next + i - 1, lossy |-> FALSE] \in Line
      BY <2>0 DEF Line
    <3> QED BY <2>0, <3>1, IsASeq
  <2>2. \A i \in 1..Len(ls) : ~ls[i].lossy
    BY <2>0, <2>1
  <2>3. rx' = Append(rx, m) /\ next' = next + k
    BY <1>2 DEF DeliverBatch
  <2> HIDE DEF ls
  <2>4. m \in Message /\ MessageShape(m)
    BY <2>1, <2>2 DEF Msg, Message, MessageShape
  <2> HIDE DEF m
  <2>5. rx' \in Seq(Message) /\ ChannelShape'
    BY <2>3, <2>4, ChannelAppend DEF TypeOK
  <2>6. next' \in Nat \ {0}
    BY <2>0, <2>3
  <2>7. TypeOK'
    BY <1>2, <2>5, <2>6 DEF TypeOK, DeliverBatch, writerVars
  <2>8. QueueBounded'
    BY <1>2, QueueUnchanged DEF DeliverBatch, writerVars
  <2> QED BY <2>5, <2>7, <2>8
<1>3. CASE ForceClose
  <2> DEFINE m == Msg("Close", <<>>)
  <2>1. m \in Message /\ MessageShape(m)
    BY EmptySeq DEF Msg, Message, MessageShape
  <2>2. rx' = Append(rx, m) \/ rx' = rx
    BY <1>3 DEF ForceClose
  <2> HIDE DEF m
  <2>3. rx' \in Seq(Message) /\ ChannelShape'
    BY <2>1, <2>2, ChannelAppend, ChannelUnchanged DEF TypeOK
  <2>4. TypeOK'
    BY <1>3, <2>3 DEF TypeOK, ForceClose, writerVars
  <2>5. QueueBounded'
    BY <1>3, QueueUnchanged DEF ForceClose, writerVars
  <2> QED BY <2>3, <2>4, <2>5
<1>4. CASE DropSender \/ ObserveLosses \/ Abort \/ FinalFlush \/ SendNotice
           \/ Terminated \/ UNCHANGED vars
  <2>1. UNCHANGED <<rx, q, queuedLossy>>
    BY <1>4 DEF DropSender, ObserveLosses, Abort, AbortAt, FinalFlush, SendNotice,
                Terminated, vars, writerVars
  <2>2. TypeOK'
    <3>1. CASE ObserveLosses
      BY <3>1 DEF TypeOK, ObserveLosses, writerVars
    <3>2. CASE SendNotice
      BY <3>2 DEF TypeOK, SendNotice, Ended
    <3>3. CASE DropSender
      BY <3>3 DEF TypeOK, DropSender, writerVars
    <3>4. CASE Abort \/ FinalFlush
      BY <3>4 DEF TypeOK, Abort, AbortAt, FinalFlush, AwaitPoints, Ended
    <3>5. CASE Terminated \/ UNCHANGED vars
      BY <3>5 DEF TypeOK, Terminated, vars, writerVars
    <3> QED BY <1>4, <3>1, <3>2, <3>3, <3>4, <3>5
  <2> QED BY <2>1, <2>2, QueueUnchanged, ChannelUnchanged
<1>5. CASE DrainOne
  <2>1. rx # <<>> /\ rx' = Tail(rx) /\ Accept(Head(rx))
    BY <1>5 DEF DrainOne
  <2>2. /\ rx' \in Seq(Message) /\ ChannelShape'
        /\ Head(rx) \in Message /\ MessageShape(Head(rx))
    BY <2>1, ChannelTail DEF TypeOK
  <2>3. /\ q' \in Seq(Line) /\ queuedLossy' \in Nat
        /\ lost' \in Nat /\ dropped' \in SUBSET Line
        /\ closeAfterDrain' \in BOOLEAN /\ QueueBounded'
    BY <2>1, <2>2, AcceptKeepsCount
  <2>4. burst' \in 0..DrainBurst
    BY <1>5, BurstAssumption DEF DrainOne, TypeOK
  <2>5. TypeOK'
    BY <1>5, <2>2, <2>3, <2>4 DEF DrainOne, TypeOK
  <2> QED BY <2>2, <2>3, <2>5
<1>6. CASE DrainEnd
    BY <1>6, QueueUnchanged, ChannelUnchanged DEF TypeOK, DrainEnd
<1>7. CASE PopNextLine
  <2>1. CASE q = <<>>
    BY <1>7, <2>1, QueueUnchanged, ChannelUnchanged
       DEF TypeOK, PopNextLine, AwaitPoints
  <2>2. CASE q # <<>>
    <3>1. /\ hand' = <<Head(q)>> /\ q' = Tail(q) /\ pc' = "write"
          /\ queuedLossy' = queuedLossy - (IF Head(q).lossy THEN 1 ELSE 0)
      BY <1>7, <2>2 DEF PopNextLine, Pop
    <3>2. /\ q \in Seq(Line) /\ Head(q) \in Line /\ Tail(q) \in Seq(Line)
          /\ Len(q) \in Nat /\ Len(q) > 0 /\ Head(q) = q[1]
          /\ Len(Tail(q)) = Len(q) - 1
          /\ \A j \in 1..Len(Tail(q)) : Tail(q)[j] = q[j + 1]
      BY <2>2, HeadTailProperties, LenProperties, EmptySeq DEF TypeOK
    <3>3. Cardinality(LossyIn(Tail(q))) =
              Cardinality(LossyIn(q)) - (IF q[1].lossy THEN 1 ELSE 0)
      <4>1. \A j \in 1..Len(Tail(q)) :
                Tail(q)[j] = IF j < 1 THEN q[j] ELSE q[j + 1]
        BY <3>2
      <4>2. 1 \in 1..Len(q)
        BY <3>2
      <4> HIDE DEF QueueInv
      <4> QED BY <3>2, <4>1, <4>2, LossyShift, Zenon
    <3>4. queuedLossy' = Cardinality(LossyIn(q'))
      BY <3>1, <3>2, <3>3 DEF QueueBounded
    <3>5. queuedLossy' \in Nat /\ queuedLossy' <= queuedLossy
      <4>1. Cardinality(LossyIn(q')) \in Nat
        BY <3>1, <3>2, LossyFinite
      <4> QED BY <3>1, <3>4, <4>1 DEF TypeOK
    <3>6. QueueBounded'
      BY <3>4, <3>5, CapAssumption DEF QueueBounded, LossyIn, TypeOK
    <3>7. hand' \in Seq(Line) /\ Len(hand') <= 1
      BY <3>1, <3>2
    <3>8. TypeOK'
      BY <1>7, <3>1, <3>2, <3>5, <3>7 DEF PopNextLine, TypeOK, AwaitPoints
    <3> QED BY <1>7, <3>6, <3>8, ChannelUnchanged DEF PopNextLine
  <2> QED BY <2>1, <2>2
<1>8. CASE WriteAll
  <2>0. wire \o hand \in Seq(Line) /\ <<>> \in Seq(Line) /\ Len(<<>>) = 0
    BY ConcatProperties, EmptySeq DEF TypeOK
  <2>1. wire' \in Seq(Line) /\ hand' \in Seq(Line) /\ Len(hand') <= 1
    <3>1. CASE wire' = wire \o hand /\ hand' = <<>>
      BY <2>0, <3>1
    <3>2. CASE UNCHANGED <<wire, hand>>
      BY <3>2 DEF TypeOK
    <3> QED BY <1>8, <3>1, <3>2 DEF WriteAll
  <2>2. TypeOK'
    BY <1>8, <2>1 DEF TypeOK, WriteAll, AwaitPoints
  <2> QED BY <1>8, <2>2, QueueUnchanged, ChannelUnchanged DEF WriteAll
<1>9. CASE Flush
    BY <1>9, BurstAssumption, QueueUnchanged, ChannelUnchanged
       DEF TypeOK, Flush, AwaitPoints
<1>10. CASE Recv
  <2>0. burst' \in 0..DrainBurst /\ pc' = "drain"
    BY <1>10, BurstAssumption DEF Recv
  <2>1. CASE rx # <<>> /\ Accept(Head(rx)) /\ rx' = Tail(rx)
    <3>2. /\ rx' \in Seq(Message) /\ ChannelShape'
          /\ Head(rx) \in Message /\ MessageShape(Head(rx))
      BY <2>1, ChannelTail DEF TypeOK
    <3>3. /\ q' \in Seq(Line) /\ queuedLossy' \in Nat
          /\ lost' \in Nat /\ dropped' \in SUBSET Line
          /\ closeAfterDrain' \in BOOLEAN /\ QueueBounded'
      BY <2>1, <3>2, AcceptKeepsCount
    <3>5. TypeOK'
      BY <1>10, <2>0, <3>2, <3>3 DEF Recv, TypeOK
    <3> QED BY <3>2, <3>3, <3>5
  <2>2. CASE /\ rx = <<>> /\ ~senders /\ closeAfterDrain' = TRUE
             /\ UNCHANGED <<rx, q, queuedLossy, lost, dropped>>
    BY <1>10, <2>0, <2>2, QueueUnchanged, ChannelUnchanged DEF Recv, TypeOK
  <2> QED BY <1>10, <2>1, <2>2 DEF Recv
<1> QED BY <1>1, <1>2, <1>3, <1>4, <1>5, <1>6, <1>7, <1>8, <1>9, <1>10
        DEF Next, Broker, Local, Pipe

(* Type correctness of the writer and the bound of its live queue, for     *)
(* every capacity, drain burst and workload of run_writer_observed.        *)
THEOREM WriterTypeCorrect == Spec => []TypeOK
<1>1. QueueInv => TypeOK
    BY DEF QueueInv
<1> QED BY InitQueueInv, NextQueueInv, <1>1, PTL DEF Spec

(* queued_lossy is exactly the number of live lines queued and never       *)
(* passes the capacity, whatever mix of live lines and replay batches the  *)
(* broker sends and however its steps interleave with the writer's.        *)
THEOREM LiveQueueBounded == Spec => []QueueBounded
<1>1. QueueInv => QueueBounded
    BY DEF QueueInv
<1> QED BY InitQueueInv, NextQueueInv, <1>1, PTL DEF Spec
-----------------------------------------------------------------------------
(* The lines waiting in the channel, and how they change. *)
LinesOf(r) == [i \in 1..Len(r) |-> r[i].lines]

Channelled(r) == FlattenSeq(LinesOf(r))

LEMMA LinesOfType ==
    ASSUME NEW r \in Seq(Message)
    PROVE  LinesOf(r) \in Seq(Seq(Line)) /\ Len(LinesOf(r)) = Len(r)
<1>1. Len(r) \in Nat
    BY LenProperties
<1>2. \A i \in 1..Len(r) : r[i].lines \in Seq(Line)
  <2> SUFFICES ASSUME NEW i \in 1..Len(r) PROVE r[i].lines \in Seq(Line)
    OBVIOUS
  <2>1. r[i] \in Message
    BY ElementOfSeq
  <2> QED BY <2>1 DEF Message
<1>3. LinesOf(r) \in [1..Len(r) -> Seq(Line)]
    BY <1>2, Zenon DEF LinesOf
<1> QED BY <1>1, <1>3

LEMMA ChannelledType ==
    ASSUME NEW r \in Seq(Message)
    PROVE  Channelled(r) \in Seq(Line)
BY LinesOfType, FlattenType DEF Channelled

LEMMA ChannelledEmpty == Channelled(<<>>) = <<>>
<1>1. LinesOf(<<>>) = <<>>
    BY DEF LinesOf
<1> QED BY <1>1, FlattenEmpty DEF Channelled

LEMMA ChannelledAppend ==
    ASSUME NEW r \in Seq(Message), NEW m \in Message
    PROVE  Channelled(Append(r, m)) = Channelled(r) \o m.lines
<1>0. m.lines \in Seq(Line)
    BY DEF Message
<1>1. /\ Append(r, m) \in Seq(Message) /\ Len(r) \in Nat
      /\ Len(Append(r, m)) = Len(r) + 1
      /\ \A i \in 1..Len(r) : Append(r, m)[i] = r[i]
      /\ Append(r, m)[Len(r) + 1] = m
    BY AppendProperties, LenProperties
<1> DEFINE x == LinesOf(r)
           z == LinesOf(Append(r, m))
           y == Append(x, m.lines)
<1>2. /\ x \in Seq(Seq(Line)) /\ Len(x) = Len(r)
      /\ z \in Seq(Seq(Line)) /\ Len(z) = Len(r) + 1
    BY <1>1, LinesOfType
<1>3. /\ \A i \in 1..Len(r) : x[i] = r[i].lines
      /\ \A i \in 1..Len(r) + 1 : z[i] = Append(r, m)[i].lines
    BY <1>1 DEF LinesOf
<1> HIDE DEF x, z
<1>4. /\ y \in Seq(Seq(Line)) /\ Len(y) = Len(x) + 1
      /\ \A i \in 1..Len(x) : y[i] = x[i]
      /\ y[Len(x) + 1] = m.lines
    BY <1>0, <1>2, AppendProperties
<1> HIDE DEF y
<1>5. ASSUME NEW i \in 1..Len(z) PROVE z[i] = y[i]
  <2>1. CASE i = Len(r) + 1
    BY <1>1, <1>2, <1>3, <1>4, <2>1
  <2>2. CASE i \in 1..Len(r)
    <3>1. z[i] = r[i].lines
      BY <1>1, <1>3, <2>2
    <3>2. y[i] = x[i]
      BY <1>2, <1>4, <2>2
    <3> QED BY <1>3, <2>2, <3>1, <3>2
  <2> QED BY <1>1, <1>2, <2>1, <2>2
<1>6. z = y
    BY <1>1, <1>2, <1>4, <1>5, SeqEqual
<1>7. FlattenSeq(y) = FlattenSeq(x) \o m.lines
    BY <1>0, <1>2, FlattenAppend DEF y
<1> QED BY <1>6, <1>7 DEF Channelled, x, z

LEMMA ChannelledHead ==
    ASSUME NEW r \in Seq(Message), r # <<>>
    PROVE  Channelled(r) = Head(r).lines \o Channelled(Tail(r))
<1>1. /\ Tail(r) \in Seq(Message) /\ Len(r) \in Nat \ {0}
      /\ Len(Tail(r)) = Len(r) - 1 /\ Head(r) = r[1]
      /\ \A i \in 1..Len(Tail(r)) : Tail(r)[i] = r[i + 1]
    BY HeadTailProperties, EmptySeq
<1> DEFINE x == LinesOf(r)
           z == LinesOf(Tail(r))
           y == Tail(x)
<1>2. /\ x \in Seq(Seq(Line)) /\ Len(x) = Len(r)
      /\ z \in Seq(Seq(Line)) /\ Len(z) = Len(r) - 1
    BY <1>1, LinesOfType
<1>3. /\ \A i \in 1..Len(r) : x[i] = r[i].lines
      /\ \A i \in 1..Len(r) - 1 : z[i] = Tail(r)[i].lines
    BY <1>1 DEF LinesOf
<1> HIDE DEF x, z
<1>4. x # <<>>
    BY <1>1, <1>2, EmptySeq
<1>5. /\ y \in Seq(Seq(Line)) /\ Len(y) = Len(x) - 1 /\ Head(x) = x[1]
      /\ \A i \in 1..Len(x) - 1 : y[i] = x[i + 1]
    BY <1>2, <1>4, HeadTailProperties
<1> HIDE DEF y
<1>6. ASSUME NEW i \in 1..Len(z) PROVE z[i] = y[i]
  <2>1. /\ i \in 1..Len(r) - 1 /\ i + 1 \in 1..Len(r) /\ i \in 1..Len(Tail(r))
        /\ i \in 1..Len(x) - 1
    BY <1>1, <1>2
  <2>2. /\ z[i] = Tail(r)[i].lines /\ Tail(r)[i] = r[i + 1]
        /\ x[i + 1] = r[i + 1].lines /\ y[i] = x[i + 1]
    BY <1>1, <1>3, <1>5, <2>1, Zenon
  <2> QED BY <2>2, Zenon
<1>7. z = y
    BY <1>1, <1>2, <1>5, <1>6, SeqEqual
<1>8. Head(x) = Head(r).lines
    BY <1>1, <1>3, <1>5
<1>9. FlattenSeq(x) = Head(x) \o FlattenSeq(y)
    BY <1>2, <1>4, FlattenHead DEF y
<1> QED BY <1>7, <1>8, <1>9 DEF Channelled, x, z

(* The lines accepted and not yet handed to the pipe. *)
LEMMA QueuedIs ==
    ASSUME TypeOK
    PROVE  /\ Queued = q \o Channelled(rx) /\ Queued \in Seq(Line)
           /\ Channelled(rx) \in Seq(Line)
<1>1. Queued = q \o Channelled(rx)
    BY DEF Queued, Channelled, LinesOf
<1>2. q \in Seq(Line) /\ rx \in Seq(Message)
    BY DEF TypeOK
<1>3. Channelled(rx) \in Seq(Line)
    BY <1>2, ChannelledType
<1> QED BY <1>1, <1>2, <1>3, ConcatProperties


(* The overflow policy as the channel sees it: the first live line that is *)
(* pending goes, at a time when more than Cap of them are.                 *)
OldestGoes ==
    \E v \in 1..Len(Queued) :
        /\ Queued[v].lossy /\ \A j \in 1..v - 1 : ~Queued[j].lossy
        /\ Queued' = RemoveAt(Queued, v)
        /\ dropped' = dropped \cup {Queued[v]} /\ lost' = lost + 1
        /\ Cardinality(LossyIn(Queued)) > Cap

(* More than Cap live lines are pending when one arrives at a full queue. *)
LEMMA LiveLinesPending ==
    ASSUME NEW s \in Seq(Line), NEW l \in Line, l.lossy, NEW t \in Seq(Line)
    PROVE  Cardinality(LossyIn(s \o (<<l>> \o t))) >= Cardinality(LossyIn(s)) + 1
<1> DEFINE u == <<l>> \o t
           all == s \o u
<1>0. <<l>> \in Seq(Line) /\ Len(<<l>>) = 1 /\ <<l>>[1] = l
    OBVIOUS
<1>1. /\ u \in Seq(Line) /\ Len(u) = 1 + Len(t) /\ u[1] = l /\ Len(t) \in Nat
  <2>1. Len(t) \in Nat
    BY LenProperties
  <2>2. /\ u \in Seq(Line) /\ Len(u) = Len(<<l>>) + Len(t)
        /\ \A i \in 1..Len(<<l>>) + Len(t) :
              u[i] = IF i <= Len(<<l>>) THEN <<l>>[i] ELSE t[i - Len(<<l>>)]
    BY <1>0, ConcatProperties
  <2> HIDE DEF u
  <2> QED BY <1>0, <2>1, <2>2
<1> HIDE DEF u
<1>2. /\ all \in Seq(Line) /\ Len(all) = Len(s) + Len(u) /\ Len(s) \in Nat
      /\ \A i \in 1..Len(s) + Len(u) :
            all[i] = IF i <= Len(s) THEN s[i] ELSE u[i - Len(s)]
  <2>1. Len(s) \in Nat
    BY LenProperties
  <2>2. Concatenates(Line)
    BY ConcatConcatenates, Zenon
  <2>3. s \in Seq(Line)
    OBVIOUS
  <2> QED BY <1>1, <2>1, <2>2, <2>3, Zenon DEF Concatenates
<1> HIDE DEF all
<1>3. all[Len(s) + 1] = l
  <2>1. (Len(s) + 1) - Len(s) = 1 /\ ~(Len(s) + 1 <= Len(s))
        /\ Len(s) + 1 \in 1..Len(s) + Len(u)
    BY <1>1, <1>2
  <2> QED BY <1>1, <1>2, <2>1
<1>4. LossyIn(s) \cup {Len(s) + 1} \subseteq LossyIn(all)
    BY <1>1, <1>2, <1>3 DEF LossyIn
<1>5. /\ IsFiniteSet(LossyIn(s) \cup {Len(s) + 1})
      /\ Cardinality(LossyIn(s) \cup {Len(s) + 1}) = Cardinality(LossyIn(s)) + 1
  <2>1. Len(s) + 1 \notin LossyIn(s)
    BY <1>2 DEF LossyIn
  <2> QED BY <2>1, LossyFinite, FS_AddElement
<1>6. Cardinality(LossyIn(s) \cup {Len(s) + 1}) <= Cardinality(LossyIn(all))
    BY <1>2, <1>4, LossyFinite, FS_Subset
<1> QED BY <1>2, <1>5, <1>6, LossyFinite DEF all, u

(* PushLossy on the line at the head of the channel. *)
LEMMA PushLossyMoves ==
    ASSUME TypeOK, QueueBounded, NEW l \in Line, l.lossy, PushLossy(l),
           NEW t \in Seq(Line), Queued = q \o (<<l>> \o t), Queued' = q' \o t
    PROVE  \/ Queued' = Queued /\ UNCHANGED <<lost, dropped>>
           \/ OldestGoes
<1> DEFINE full == queuedLossy >= Cap
           victim == IF full THEN OldestLossy(q) ELSE 0
           kept == IF victim > 0 THEN RemoveAt(q, victim) ELSE q
<1>0. /\ q \in Seq(Line) /\ Cap \in Nat /\ queuedLossy \in Nat /\ Len(q) \in Nat
      /\ queuedLossy = Cardinality(LossyIn(q)) /\ queuedLossy <= Cap
    BY CapAssumption, LenProperties DEF TypeOK, QueueBounded
<1>1. /\ victim \in 0..Len(q)
      /\ victim > 0 => q[victim].lossy /\ \A j \in LossyIn(q) : victim <= j
      /\ full /\ victim = 0 => LossyIn(q) = {}
    BY <1>0, OldestLossyProperties
<1>2. /\ lost' = IF full THEN lost + 1 ELSE lost
      /\ q' = IF Cap > 0 THEN Append(kept, l) ELSE kept
      /\ dropped' = dropped \cup (IF victim > 0 THEN {q[victim]} ELSE {})
                            \cup (IF Cap = 0 THEN {l} ELSE {})
    BY DEF PushLossy, PushLossyWhen
<1> DEFINE u == <<l>> \o t
<1>3. <<l>> \in Seq(Line) /\ Len(<<l>>) = 1 /\ <<l>>[1] = l
    OBVIOUS
<1>4. /\ u \in Seq(Line) /\ Len(u) = 1 + Len(t) /\ u[1] = l /\ Len(t) \in Nat
  <2>1. Len(t) \in Nat
    BY LenProperties
  <2>2. /\ u \in Seq(Line) /\ Len(u) = Len(<<l>>) + Len(t)
        /\ \A i \in 1..Len(<<l>>) + Len(t) :
              u[i] = IF i <= Len(<<l>>) THEN <<l>>[i] ELSE t[i - Len(<<l>>)]
    BY <1>3, ConcatProperties
  <2> HIDE DEF u
  <2> QED BY <1>3, <2>1, <2>2
<1>5. Cardinality(LossyIn(Queued)) >= queuedLossy + 1
    BY <1>0, LiveLinesPending
<1> HIDE DEF u
<1>6. /\ Queued = q \o u /\ Queued \in Seq(Line) /\ Len(Queued) = Len(q) + Len(u)
      /\ \A i \in 1..Len(q) + Len(u) :
            Queued[i] = IF i <= Len(q) THEN q[i] ELSE u[i - Len(q)]
  <2>1. Queued = q \o u
    BY DEF u
  <2>2. /\ q \o u \in Seq(Line) /\ Len(q \o u) = Len(q) + Len(u)
        /\ \A i \in 1..Len(q) + Len(u) :
              (q \o u)[i] = IF i <= Len(q) THEN q[i] ELSE u[i - Len(q)]
    BY <1>0, <1>4, ConcatProperties
  <2> QED BY <2>1, <2>2
<1>7. ASSUME NEW k \in Seq(Line) PROVE Append(k, l) \o t = k \o u
  <2>1. Append(k, l) = k \o <<l>>
    BY AppendIsConcat
  <2>2. (k \o <<l>>) \o t = k \o (<<l>> \o t)
    BY <1>3, ConcatAssociative
  <2> QED BY <2>1, <2>2 DEF u
<1> HIDE DEF full, victim
<1>8. CASE ~full
  <2>1. Cap > 0 /\ victim = 0
    BY <1>0, <1>8 DEF full, victim
  <2>2. q' = Append(q, l) /\ UNCHANGED lost
    BY <1>2, <1>8, <2>1
  <2>3. UNCHANGED dropped
    BY <1>2, <2>1
  <2> QED BY <1>0, <1>6, <1>7, <2>2, <2>3
<1>9. CASE full /\ victim > 0
  <2>1. victim \in 1..Len(q) /\ Cap > 0
    <3>1. victim \in 1..Len(q)
      BY <1>0, <1>1, <1>9
    <3>2. victim \in LossyIn(q)
      BY <1>1, <1>9, <3>1 DEF LossyIn
    <3>3. Cardinality(LossyIn(q)) # 0
      BY <1>0, <3>2, LossyFinite, FS_EmptySet
    <3> QED BY <1>0, <3>1, <3>3
  <2>2. /\ q' = Append(RemoveAt(q, victim), l) /\ lost' = lost + 1
        /\ dropped' = dropped \cup {q[victim]}
    BY <1>0, <1>2, <1>9, <2>1
  <2>3. RemoveAt(q, victim) \in Seq(Line)
    BY <1>0, <2>1, RemoveAtShape
  <2>4. Queued' = RemoveAt(q, victim) \o u
    BY <1>7, <2>2, <2>3
  <2>5. RemoveAt(q \o u, victim) = RemoveAt(q, victim) \o u
    BY <1>0, <1>4, <2>1, RemoveFromLeft
  <2>6. victim \in 1..Len(Queued) /\ Queued[victim] = q[victim]
    BY <1>0, <1>4, <1>6, <2>1
  <2>7. \A j \in 1..victim - 1 : ~Queued[j].lossy
    <3> SUFFICES ASSUME NEW j \in 1..victim - 1, Queued[j].lossy PROVE FALSE
      OBVIOUS
    <3>1. j \in 1..Len(q) /\ Queued[j] = q[j]
      BY <1>0, <1>4, <1>6, <2>1
    <3>2. j \in LossyIn(q)
      BY <3>1 DEF LossyIn
    <3> QED BY <1>0, <1>1, <1>9, <2>1, <3>2
  <2>8. Cardinality(LossyIn(Queued)) > Cap
    <3>1. Cardinality(LossyIn(Queued)) \in Nat
      BY <1>6, LossyFinite
    <3>2. queuedLossy >= Cap /\ queuedLossy \in Nat /\ Cap \in Nat
      BY <1>0, <1>9 DEF full
    <3>3. \A c \in Nat : c >= queuedLossy + 1 => c > Cap
      BY <3>2
    <3> QED BY <1>5, <3>1, <3>3, Zenon
  <2>9. Queued' = RemoveAt(Queued, victim)
    BY <1>6, <2>4, <2>5
  <2> QED BY <1>1, <1>9, <2>2, <2>6, <2>7, <2>8, <2>9 DEF OldestGoes
<1>10. CASE full /\ victim = 0
  <2>0. LossyIn(q) = {}
    BY <1>1, <1>10
  <2>1. Cap = 0
    <3>1. Cardinality(LossyIn(q)) = 0
      BY <2>0, FS_EmptySet
    <3> QED BY <1>0, <1>10, <3>1 DEF full
  <2>2. q' = q /\ lost' = lost + 1 /\ dropped' = dropped \cup {l}
    BY <1>2, <1>10, <2>1
  <2> DEFINE v == Len(q) + 1
  <2>3. v \in 1..Len(Queued) /\ Queued[v] = l
    <3>1. v \in 1..Len(q) + Len(u) /\ ~(v <= Len(q)) /\ v - Len(q) = 1
      BY <1>0, <1>4
    <3> QED BY <1>4, <1>6, <3>1
  <2>4. Queued' = RemoveAt(Queued, v)
    <3>1. 1 \in 1..Len(u)
      BY <1>4
    <3>2. RemoveAt(q \o u, Len(q) + 1) = q \o RemoveAt(u, 1)
      BY <1>0, <1>4, <3>1, RemoveFromRight
    <3> DEFINE one == <<l>>
    <3>o. one \in Seq(Line) /\ Len(one) = 1 /\ 1 \in 1..Len(one) /\ u = one \o t
      BY <1>3 DEF u
    <3> HIDE DEF one
    <3>3. RemoveAt(one \o t, 1) = RemoveAt(one, 1) \o t
      BY <3>o, RemoveFromLeft
    <3>4. RemoveAt(one, 1) = <<>>
      <4>1. RemoveAt(one, 1) \in Seq(Line) /\ Len(RemoveAt(one, 1)) = 0
        <5>1. /\ RemoveAt(one, 1) \in Seq(Line)
              /\ Len(RemoveAt(one, 1)) = Len(one) - 1
          BY <3>o, RemoveAtShape, Zenon
        <5> QED BY <3>o, <5>1
      <4> QED BY <4>1, EmptySeq
    <3>5. <<>> \o t = t
      BY ConcatEmptySeq
    <3>6. RemoveAt(u, 1) = t
      BY <3>o, <3>3, <3>4, <3>5
    <3> QED BY <1>6, <2>2, <3>2, <3>6
  <2>5. \A j \in 1..v - 1 : ~Queued[j].lossy
    <3> SUFFICES ASSUME NEW j \in 1..v - 1, Queued[j].lossy PROVE FALSE
      OBVIOUS
    <3>1. j \in 1..Len(q) /\ Queued[j] = q[j]
      BY <1>0, <1>4, <1>6
    <3> QED BY <2>0, <3>1 DEF LossyIn
  <2>6. Cardinality(LossyIn(Queued)) > Cap
    <3>1. Cardinality(LossyIn(Queued)) \in Nat
      BY <1>6, LossyFinite
    <3>2. Cardinality(LossyIn(Queued)) >= queuedLossy + 1 /\ queuedLossy \in Nat
      BY <1>0, <1>5
    <3>3. ASSUME NEW c \in Nat, NEW k \in Nat, c >= k + 1 PROVE c > 0
      BY <3>3
    <3> QED BY <2>1, <3>1, <3>2, <3>3, Zenon
  <2> HIDE DEF v
  <2> QED BY <2>2, <2>3, <2>4, <2>5, <2>6 DEF OldestGoes
<1> QED BY <1>1, <1>8, <1>9, <1>10


(* A message taken from the channel: its lines are queued and nothing is   *)
(* lost, or the oldest live line makes room.                               *)
LEMMA AcceptMoves ==
    ASSUME QueueInv, QueueInv', rx # <<>>, Accept(Head(rx)), rx' = Tail(rx)
    PROVE  \/ Queued' = Queued /\ UNCHANGED <<lost, dropped>>
           \/ OldestGoes
<1> DEFINE m == Head(rx)
           t == Channelled(Tail(rx))
<1>1. /\ TypeOK /\ QueueBounded /\ q \in Seq(Line) /\ rx \in Seq(Message)
      /\ Tail(rx) \in Seq(Message)
    BY HeadTailProperties DEF QueueInv, TypeOK
<1>2. m \in Message /\ MessageShape(m) /\ m.lines \in Seq(Line)
    BY <1>1, ChannelTail DEF QueueInv, Message
<1>3. t \in Seq(Line)
    BY <1>1, ChannelledType
<1>4. Queued = q \o (m.lines \o t)
    BY <1>1, QueuedIs, ChannelledHead
<1>5. Queued' = q' \o t
  <2>1. Queued' = q' \o Channelled(rx')
    BY DEF Queued, Channelled, LinesOf
  <2> QED BY <2>1
<1>6. Accept(m)
    OBVIOUS
<1> HIDE DEF m, t
<1>7. CASE m.kind = "Send" /\ PushLossy(m.lines[1])
  <2>1. Len(m.lines) = 1 /\ m.lines[1].lossy
    BY <1>2, <1>7 DEF MessageShape
  <2>2. m.lines[1] \in Line
    BY <1>2, <2>1, ElementOfSeq
  <2>3. m.lines = <<m.lines[1]>>
    <3> DEFINE x == m.lines
               y == <<m.lines[1]>>
    <3>1. /\ x \in Seq(Line) /\ y \in Seq(Line) /\ Len(x) = Len(y)
          /\ \A i \in 1..Len(x) : x[i] = y[i]
      BY <1>2, <2>1, <2>2
    <3> HIDE DEF x, y
    <3>2. x = y
      BY <3>1, SeqEqual
    <3> QED BY <3>2 DEF x, y
  <2> DEFINE l == m.lines[1]
  <2>4. l \in Line /\ l.lossy /\ PushLossy(l) /\ Queued = q \o (<<l>> \o t)
    BY <1>4, <1>7, <2>1, <2>2, <2>3
  <2> HIDE DEF l
  <2> QED BY <1>1, <1>3, <1>5, <2>4, PushLossyMoves
<1>8. CASE m.kind = "Batch" /\ PushLossless(m.lines)
  <2>1. q' = q \o m.lines /\ UNCHANGED <<lost, dropped>>
    BY <1>8 DEF PushLossless
  <2>2. (q \o m.lines) \o t = q \o (m.lines \o t)
    <3>1. ASSUME NEW x \in Seq(Line), NEW y \in Seq(Line), NEW z \in Seq(Line)
          PROVE  (x \o y) \o z = x \o (y \o z)
      BY ConcatAssociative
    <3> QED BY <1>1, <1>2, <1>3, <3>1, Zenon
  <2> QED BY <1>4, <1>5, <2>1, <2>2
<1>9. CASE m.kind = "Close" /\ UNCHANGED <<q, lost, dropped>>
  <2>1. m.lines = <<>>
    BY <1>2, <1>9 DEF MessageShape
  <2>2. <<>> \o t = t
    BY <1>3, ConcatEmptySeq
  <2>3. Queued = q \o t
    BY <1>4, <2>1, <2>2
  <2> QED BY <1>5, <1>9, <2>3
<1> QED BY <1>6, <1>7, <1>8, <1>9 DEF Accept

-----------------------------------------------------------------------------
(* The books of one connection: s holds the lines accepted and not dropped *)
(* in order of acceptance, gone the dropped ones, count their number, and  *)
(* n is the number of the next line.                                       *)
Ordered(s) == \A i, j \in 1..Len(s) : i < j => s[i].n < s[j].n

Books(s, gone, count, n) ==
    /\ s \in Seq(Line) /\ gone \in SUBSET Line /\ count \in Nat /\ n \in Nat \ {0}
    /\ IsFiniteSet(gone) /\ Cardinality(gone) = count
    /\ Ordered(s)
    /\ \A l \in gone : l.lossy /\ l.n < n
    /\ \A i \in 1..Len(s) : s[i].n < n /\ \A l \in gone : s[i].n # l.n
    /\ \A k \in 1..n - 1 :
          (\E i \in 1..Len(s) : s[i].n = k) \/ (\E l \in gone : l.n = k)
    /\ Len(s) + count = n - 1

LEMMA LineNumber ==
    ASSUME NEW l \in Line
    PROVE  l.n \in Nat /\ l.n > 0
BY DEF Line

(* As many lines more, as many numbers more. *)
CountsAppend(a, b, c, d) ==
    a + b = c - 1 => (a + d) + b = (c + d) - 1 /\ c + d \in Nat \ {0}

LEMMA CountsDoAppend ==
    ASSUME NEW a \in Nat, NEW b \in Nat, NEW c \in Nat \ {0}, NEW d \in Nat
    PROVE  CountsAppend(a, b, c, d)
BY DEF CountsAppend

(* Lines accepted with the next numbers keep the books. *)
LEMMA BooksAppend ==
    ASSUME NEW s, NEW gone, NEW count, NEW n, Books(s, gone, count, n),
           NEW t \in Seq(Line), \A i \in 1..Len(t) : t[i].n = n + i - 1
    PROVE  Books(s \o t, gone, count, n + Len(t))
<1>0. /\ s \in Seq(Line) /\ gone \in SUBSET Line /\ count \in Nat /\ n \in Nat \ {0}
      /\ IsFiniteSet(gone) /\ Cardinality(gone) = count /\ Len(s) + count = n - 1
      /\ Len(s) \in Nat /\ Len(t) \in Nat
    BY LenProperties DEF Books
<1> DEFINE u == s \o t
           m == n + Len(t)
<1>1. /\ u \in Seq(Line) /\ Len(u) = Len(s) + Len(t)
      /\ \A i \in 1..Len(s) + Len(t) :
            u[i] = IF i <= Len(s) THEN s[i] ELSE t[i - Len(s)]
    BY <1>0, ConcatProperties
<1> HIDE DEF u
<1>2. ASSUME NEW i \in 1..Len(s) PROVE u[i] = s[i] /\ u[i].n < n /\ u[i].n \in Nat
  <2>1. u[i] = s[i] /\ s[i] \in Line
    BY <1>0, <1>1, ElementOfSeq
  <2> QED BY <2>1, LineNumber DEF Books
<1>3. ASSUME NEW i \in Len(s) + 1..Len(u)
      PROVE  u[i].n = n + (i - Len(s)) - 1
  <2>1. i \in 1..Len(s) + Len(t) /\ ~(i <= Len(s)) /\ i - Len(s) \in 1..Len(t)
    BY <1>0, <1>1
  <2>2. u[i] = t[i - Len(s)]
    BY <1>1, <2>1
  <2> QED BY <2>1, <2>2
<1>4. \A i \in 1..Len(u) : i \in 1..Len(s) \/ i \in Len(s) + 1..Len(u)
    BY <1>0, <1>1
<1>5. Ordered(u)
  <2> SUFFICES ASSUME NEW i \in 1..Len(u), NEW j \in 1..Len(u), i < j
               PROVE  u[i].n < u[j].n
    BY DEF Ordered
  <2>1. CASE j \in 1..Len(s)
    <3>1. i \in 1..Len(s)
      BY <1>0, <2>1
    <3>2. s[i].n < s[j].n
      BY <2>1, <3>1 DEF Books, Ordered
    <3> QED BY <1>2, <2>1, <3>1, <3>2
  <2>2. CASE i \in 1..Len(s) /\ j \in Len(s) + 1..Len(u)
    <3>1. u[i].n \in Nat /\ u[i].n < n /\ u[j].n = n + (j - Len(s)) - 1
      BY <1>2, <1>3, <2>2
    <3> QED BY <1>0, <2>2, <3>1
  <2>3. CASE i \in Len(s) + 1..Len(u) /\ j \in Len(s) + 1..Len(u)
    <3>1. u[i].n = n + (i - Len(s)) - 1 /\ u[j].n = n + (j - Len(s)) - 1
      BY <1>3, <2>3
    <3> QED BY <1>0, <2>3, <3>1
  <2>4. CASE i \in Len(s) + 1..Len(u) /\ j \in 1..Len(s)
    BY <1>0, <2>4
  <2> QED BY <1>4, <2>1, <2>2, <2>3, <2>4
<1>6. ASSUME NEW l \in gone PROVE l.lossy /\ l.n < m /\ l.n < n /\ l.n \in Nat
  <2>1. l.lossy /\ l.n < n /\ l \in Line
    BY <1>0 DEF Books
  <2> QED BY <1>0, <2>1, LineNumber
<1>7. ASSUME NEW i \in 1..Len(u) PROVE u[i].n < m /\ \A l \in gone : u[i].n # l.n
  <2>1. CASE i \in 1..Len(s)
    <3>1. \A l \in gone : s[i].n # l.n
      BY <2>1 DEF Books
    <3> QED BY <1>0, <1>2, <2>1, <3>1
  <2>2. CASE i \in Len(s) + 1..Len(u)
    <3>1. u[i].n = n + (i - Len(s)) - 1
      BY <1>3, <2>2
    <3>2. u[i].n < m /\ u[i].n >= n /\ u[i].n \in Nat
      BY <1>0, <1>1, <2>2, <3>1
    <3> QED BY <1>0, <1>6, <3>2
  <2> QED BY <1>4, <2>1, <2>2
<1>8. ASSUME NEW k \in 1..m - 1
      PROVE  (\E i \in 1..Len(u) : u[i].n = k) \/ (\E l \in gone : l.n = k)
  <2>1. CASE k \in 1..n - 1
    <3>1. CASE \E l \in gone : l.n = k
      BY <3>1
    <3>2. CASE \E i \in 1..Len(s) : s[i].n = k
      <4>1. PICK i \in 1..Len(s) : s[i].n = k
        BY <3>2
      <4>2. i \in 1..Len(u)
        BY <1>0, <1>1
      <4> QED BY <1>2, <4>1, <4>2
    <3> QED BY <2>1, <3>1, <3>2 DEF Books
  <2>2. CASE k \in n..m - 1
    <3> DEFINE i == (k - n) + 1 + Len(s)
    <3>1. i \in Len(s) + 1..Len(u) /\ i \in 1..Len(u) /\ n + (i - Len(s)) - 1 = k
      BY <1>0, <1>1, <2>2
    <3> HIDE DEF i
    <3> QED BY <1>3, <3>1
  <2> QED BY <1>0, <2>1, <2>2
<1>9. Len(u) + count = m - 1 /\ m \in Nat \ {0}
  <2>2. (Len(s) + Len(t)) + count = (n + Len(t)) - 1 /\ n + Len(t) \in Nat \ {0}
    <3>1. /\ Len(s) \in Nat /\ Len(t) \in Nat /\ n \in Nat \ {0} /\ count \in Nat
          /\ Len(s) + count = n - 1
      BY <1>0, Zenon
    <3>2. CountsAppend(Len(s), count, n, Len(t))
      BY <3>1, CountsDoAppend, Zenon
    <3> QED BY <3>1, <3>2, Zenon DEF CountsAppend
  <2>3. Len(u) = Len(s) + Len(t)
    BY <1>1
  <2> QED BY <2>2, <2>3, Zenon
<1> QED BY <1>0, <1>1, <1>5, <1>6, <1>7, <1>8, <1>9 DEF Books, u

(* A live line that is dropped and counted keeps the books. *)
LEMMA BooksDrop ==
    ASSUME NEW s, NEW gone, NEW count, NEW n, Books(s, gone, count, n),
           NEW v \in 1..Len(s), s[v].lossy
    PROVE  Books(RemoveAt(s, v), gone \cup {s[v]}, count + 1, n)
<1>0. /\ s \in Seq(Line) /\ gone \in SUBSET Line /\ count \in Nat /\ n \in Nat \ {0}
      /\ IsFiniteSet(gone) /\ Cardinality(gone) = count /\ Len(s) + count = n - 1
      /\ Len(s) \in Nat /\ s[v] \in Line
    BY LenProperties, ElementOfSeq DEF Books
<1> DEFINE u == RemoveAt(s, v)
<1>1. /\ u \in Seq(Line) /\ Len(u) = Len(s) - 1
      /\ \A j \in 1..Len(s) - 1 : u[j] = IF j < v THEN s[j] ELSE s[j + 1]
    BY <1>0, RemoveAtShape
<1> HIDE DEF u
<1> DEFINE p(j) == IF j < v THEN j ELSE j + 1
<1>2. ASSUME NEW j \in 1..Len(u)
      PROVE  p(j) \in 1..Len(s) /\ p(j) # v /\ u[j] = s[p(j)] /\ s[p(j)].n \in Nat
  <2>1. p(j) \in 1..Len(s) /\ p(j) # v /\ u[j] = s[p(j)]
    BY <1>0, <1>1
  <2>2. s[p(j)] \in Line
    BY <1>0, <2>1, ElementOfSeq
  <2> QED BY <2>1, <2>2, LineNumber
<1>3. Ordered(u)
  <2> SUFFICES ASSUME NEW i \in 1..Len(u), NEW j \in 1..Len(u), i < j
               PROVE  u[i].n < u[j].n
    BY DEF Ordered
  <2>1. p(i) < p(j)
    BY <1>0, <1>1
  <2> HIDE DEF p
  <2>2. s[p(i)].n < s[p(j)].n
    BY <1>2, <2>1 DEF Books, Ordered
  <2> QED BY <1>2, <2>2
<1>4. s[v].n \in Nat /\ s[v].n < n /\ \A l \in gone : s[v].n # l.n
    BY <1>0, LineNumber DEF Books
<1>5. /\ IsFiniteSet(gone \cup {s[v]}) /\ Cardinality(gone \cup {s[v]}) = count + 1
      /\ gone \cup {s[v]} \in SUBSET Line
  <2>1. s[v] \notin gone
    BY <1>4
  <2> QED BY <1>0, <2>1, FS_AddElement
<1>6. \A l \in gone \cup {s[v]} : l.lossy /\ l.n < n
    BY <1>4 DEF Books
<1>7. ASSUME NEW j \in 1..Len(u)
      PROVE  u[j].n < n /\ \A l \in gone \cup {s[v]} : u[j].n # l.n
  <2>1. u[j] = s[p(j)] /\ p(j) \in 1..Len(s) /\ p(j) # v /\ s[p(j)].n \in Nat
    BY <1>2
  <2> HIDE DEF p
  <2>2. s[p(j)].n < n /\ \A l \in gone : s[p(j)].n # l.n
    BY <2>1 DEF Books
  <2>3. s[p(j)].n # s[v].n
    <3>1. p(j) < v \/ v < p(j)
      BY <1>0, <2>1
    <3>2. s[p(j)].n < s[v].n \/ s[v].n < s[p(j)].n
      BY <2>1, <3>1 DEF Books, Ordered
    <3> QED BY <1>4, <2>1, <3>2
  <2> QED BY <2>1, <2>2, <2>3
<1>8. ASSUME NEW k \in 1..n - 1
      PROVE  \/ \E j \in 1..Len(u) : u[j].n = k
             \/ \E l \in gone \cup {s[v]} : l.n = k
  <2>1. CASE \E l \in gone : l.n = k
    BY <2>1
  <2>2. CASE \E i \in 1..Len(s) : s[i].n = k
    <3>1. PICK i \in 1..Len(s) : s[i].n = k
      BY <2>2
    <3>2. CASE i = v
      BY <3>1, <3>2
    <3>3. CASE i # v
      <4> DEFINE j == IF i < v THEN i ELSE i - 1
      <4>1. j \in 1..Len(u) /\ u[j] = s[i]
        BY <1>0, <1>1, <3>3
      <4> HIDE DEF j
      <4> QED BY <3>1, <4>1
    <3> QED BY <3>2, <3>3
  <2> QED BY <2>1, <2>2 DEF Books
<1>9. Len(u) + (count + 1) = n - 1 /\ count + 1 \in Nat
    BY <1>0, <1>1
<1> QED BY <1>0, <1>1, <1>3, <1>5, <1>6, <1>7, <1>8, <1>9 DEF Books, u


-----------------------------------------------------------------------------
(* The writer's control. *)

(* force_close sends Close last, and gives up the sender with it. *)
CloseIsLast ==
    \A i \in 1..Len(rx) : rx[i].kind = "Close" => ~senders /\ i = Len(rx)

(* A writer told to close has received everything it will ever receive. *)
Told == closeAfterDrain => ~senders /\ rx = <<>>

(* Where a line may be in hand, and what an end without notice has left. *)
Stands ==
    /\ pc \in {"drain", "pop", "flush", "final", "wait"} => hand = <<>>
    /\ pc = "final" => closeAfterDrain /\ q = <<>>
    /\ pc = "done" /\ notices = 0 => hand = <<>> /\ q = <<>> /\ rx = <<>>
    /\ notices <= 1
    /\ pc # "done" => notices = 0

ControlInv == CloseIsLast /\ Told /\ Stands

LEMMA CloseLastAppend ==
    ASSUME rx \in Seq(Message), CloseIsLast, senders, NEW m \in Message,
           rx' = Append(rx, m), m.kind = "Close" => ~senders'
    PROVE  CloseIsLast'
<1>1. /\ Len(rx) \in Nat /\ Len(rx') = Len(rx) + 1 /\ rx'[Len(rx) + 1] = m
      /\ \A i \in 1..Len(rx) : rx'[i] = rx[i]
    BY AppendProperties, LenProperties
<1> SUFFICES ASSUME NEW i \in 1..Len(rx'), rx'[i].kind = "Close"
             PROVE  ~senders' /\ i = Len(rx')
    BY DEF CloseIsLast
<1>2. CASE i \in 1..Len(rx)
    BY <1>1, <1>2 DEF CloseIsLast
<1>3. CASE i = Len(rx) + 1
    BY <1>1, <1>3
<1> QED BY <1>1, <1>2, <1>3

LEMMA CloseLastTail ==
    ASSUME rx \in Seq(Message), CloseIsLast, rx # <<>>, rx' = Tail(rx), UNCHANGED senders
    PROVE  /\ CloseIsLast'
           /\ Head(rx).kind = "Close" => ~senders /\ rx' = <<>>
<1>1. /\ Tail(rx) \in Seq(Message) /\ Len(rx) \in Nat \ {0} /\ Head(rx) = rx[1]
      /\ Len(Tail(rx)) = Len(rx) - 1
      /\ \A i \in 1..Len(Tail(rx)) : Tail(rx)[i] = rx[i + 1]
    BY HeadTailProperties, EmptySeq
<1>2. CloseIsLast'
  <2> SUFFICES ASSUME NEW i \in 1..Len(rx'), rx'[i].kind = "Close"
               PROVE  ~senders' /\ i = Len(rx')
    BY DEF CloseIsLast
  <2>1. i + 1 \in 1..Len(rx) /\ rx[i + 1].kind = "Close"
    BY <1>1
  <2>2. ~senders /\ i + 1 = Len(rx)
    BY <2>1 DEF CloseIsLast
  <2>3. i = Len(rx')
    <3>1. Len(rx') = Len(rx) - 1 /\ Len(rx) \in Nat /\ i \in Nat
      BY <1>1
    <3>2. \A a, b, c \in Nat : a = b - 1 /\ c + 1 = b => c = a
      OBVIOUS
    <3>3. Len(rx') \in Nat
      BY <1>1
    <3> QED BY <2>2, <3>1, <3>2, <3>3, Zenon
  <2> QED BY <2>2, <2>3
<1>3. ASSUME Head(rx).kind = "Close" PROVE ~senders /\ rx' = <<>>
  <2>1. 1 \in 1..Len(rx) /\ rx[1].kind = "Close"
    BY <1>1, <1>3
  <2>2. ~senders /\ 1 = Len(rx)
    BY <2>1 DEF CloseIsLast
  <2>3. Len(Tail(rx)) = 0
    BY <1>1, <2>2
  <2> QED BY <1>1, <2>2, <2>3, EmptySeq
<1> QED BY <1>2, <1>3

LEMMA CloseLastUnchanged ==
    ASSUME CloseIsLast, UNCHANGED rx, senders' \in {senders, FALSE}
    PROVE  CloseIsLast'
BY DEF CloseIsLast

(* What Accept does to the order to close. *)
LEMMA AcceptTells ==
    ASSUME QueueInv, ControlInv, rx # <<>>, Accept(Head(rx)), rx' = Tail(rx),
           UNCHANGED senders
    PROVE  CloseIsLast' /\ Told'
<1>1. rx \in Seq(Message)
    BY DEF QueueInv, TypeOK
<1>2. ~closeAfterDrain
    BY DEF ControlInv, Told
<1>3. CloseIsLast' /\ (Head(rx).kind = "Close" => ~senders /\ rx' = <<>>)
    BY <1>1, CloseLastTail DEF ControlInv
<1>4. closeAfterDrain' => Head(rx).kind = "Close"
    BY <1>2 DEF Accept
<1> QED BY <1>3, <1>4 DEF Told

LEMMA ControlKeeps ==
    ASSUME QueueInv, ControlInv, [Next]_vars
    PROVE  ControlInv'
<1>0. /\ CloseIsLast /\ Told /\ Stands /\ TypeOK /\ rx \in Seq(Message)
    BY DEF ControlInv, QueueInv, TypeOK
<1>1. CASE Deliver \/ \E k \in 0..MaxBatch : DeliverBatch(k)
  <2>1. PICK m : rx' = Append(rx, m) /\ m.kind # "Close"
    <3>1. ASSUME NEW lines, NEW kind \in {"Send", "Batch"}, rx' = Append(rx, Msg(kind, lines))
          PROVE  \E m : rx' = Append(rx, m) /\ m.kind # "Close"
      <4>1. Msg(kind, lines).kind # "Close"
        BY DEF Msg
      <4> QED BY <3>1, <4>1
    <3>2. CASE Deliver
      BY <3>1, <3>2 DEF Deliver
    <3>3. CASE \E k \in 0..MaxBatch : DeliverBatch(k)
      BY <3>1, <3>3 DEF DeliverBatch
    <3> QED BY <1>1, <3>2, <3>3
  <2>2. m \in Message
    <3>1. rx' \in Seq(Message)
      BY NextQueueInv DEF QueueInv, TypeOK
    <3>2. /\ Len(Append(rx, m)) = Len(rx) + 1 /\ Append(rx, m)[Len(rx) + 1] = m
          /\ Len(rx) \in Nat
      BY <1>0, LenProperties
    <3>3. Len(rx) + 1 \in 1..Len(rx')
      BY <2>1, <3>2
    <3>4. rx'[Len(rx) + 1] \in Message
      BY <3>1, <3>3, ElementOfSeq
    <3> QED BY <2>1, <3>2, <3>4
  <2>3. /\ senders /\ UNCHANGED <<senders, hand, q, pc, notices, closeAfterDrain>>
        /\ pc # "done"
    BY <1>1 DEF Deliver, DeliverBatch, writerVars, RxOpen, Ended
  <2>4. CloseIsLast'
    BY <1>0, <2>1, <2>2, <2>3, CloseLastAppend
  <2>5. Told' /\ Stands'
    BY <1>0, <2>3 DEF Told, Stands
  <2> QED BY <2>4, <2>5 DEF ControlInv
<1>2. CASE ForceClose
  <2>1. /\ senders /\ senders' = FALSE
        /\ UNCHANGED <<hand, q, pc, notices, closeAfterDrain>>
    BY <1>2 DEF ForceClose, writerVars
  <2>2. ~closeAfterDrain
    BY <1>0, <2>1 DEF Told
  <2>3. CASE RxOpen
    <3>1. Msg("Close", <<>>) \in Message /\ rx' = Append(rx, Msg("Close", <<>>))
      BY <1>2, <2>3, EmptySeq DEF ForceClose, Msg, Message
    <3>2. CloseIsLast'
      BY <1>0, <2>1, <3>1, CloseLastAppend
    <3>3. Told' /\ Stands'
      BY <1>0, <2>1, <2>2, <2>3 DEF Told, Stands, RxOpen, Ended
    <3> QED BY <3>2, <3>3 DEF ControlInv
  <2>4. CASE ~RxOpen
    <3>1. UNCHANGED rx
      BY <1>2, <2>4 DEF ForceClose
    <3> QED BY <1>0, <2>1, <2>2, <3>1, CloseLastUnchanged DEF ControlInv, Told, Stands
  <2> QED BY <2>3, <2>4
<1>3. CASE DropSender \/ ObserveLosses \/ Terminated \/ UNCHANGED vars
  <2>1. /\ UNCHANGED <<rx, hand, q, pc, notices, closeAfterDrain>>
        /\ senders' \in {senders, FALSE}
    BY <1>3 DEF DropSender, ObserveLosses, Terminated, vars, writerVars
  <2>2. CloseIsLast'
    BY <1>0, <2>1, CloseLastUnchanged
  <2>3. Told'
    BY <1>0, <2>1, Zenon DEF Told
  <2>4. Stands'
    BY <1>0, <2>1 DEF Stands
  <2> QED BY <2>2, <2>3, <2>4 DEF ControlInv
<1>4. CASE Abort \/ WriteAll \/ Flush \/ FinalFlush \/ SendNotice
  <2>1. UNCHANGED <<rx, senders, q, closeAfterDrain>>
    BY <1>4 DEF Abort, AbortAt, WriteAll, Flush, FinalFlush, SendNotice
  <2>2. CloseIsLast' /\ Told'
    BY <1>0, <2>1, CloseLastUnchanged DEF Told
  <2>3. Stands'
    <3>1. CASE Abort
      BY <1>0, <3>1 DEF Stands, Abort, AbortAt, AwaitPoints
    <3>2. CASE WriteAll
      BY <1>0, <3>2 DEF Stands, WriteAll
    <3>3. CASE Flush
      BY <1>0, <3>3 DEF Stands, Flush
    <3>4. CASE FinalFlush
      BY <1>0, <3>4 DEF Stands, FinalFlush, Told
    <3>5. CASE SendNotice
      BY <1>0, <3>5 DEF Stands, SendNotice
    <3> QED BY <1>4, <3>1, <3>2, <3>3, <3>4, <3>5
  <2> QED BY <2>2, <2>3 DEF ControlInv
<1>5. CASE DrainOne
  <2>1. /\ rx # <<>> /\ Accept(Head(rx)) /\ rx' = Tail(rx) /\ pc = "drain"
        /\ pc' \in {"pop", "drain"} /\ UNCHANGED <<senders, hand, notices>>
    BY <1>5 DEF DrainOne
  <2>2. CloseIsLast' /\ Told'
    BY <2>1, AcceptTells
  <2>3. Stands'
    BY <1>0, <2>1 DEF Stands
  <2> QED BY <2>2, <2>3 DEF ControlInv
<1>6. CASE DrainEnd
  <2>1. CloseIsLast'
    BY <1>0, <1>6, CloseLastUnchanged DEF DrainEnd
  <2>2. Told'
    <3>1. CASE burst > 0 /\ ~senders
      <4>1. burst # 0
        BY <1>0, <3>1 DEF TypeOK
      <4> QED BY <1>6, <3>1, <4>1 DEF DrainEnd, Told
    <3>2. CASE ~(burst > 0 /\ ~senders)
      BY <1>0, <1>6, <3>2 DEF DrainEnd, Told
    <3> QED BY <3>1, <3>2
  <2>3. Stands'
    BY <1>0, <1>6 DEF DrainEnd, Stands
  <2> QED BY <2>1, <2>2, <2>3 DEF ControlInv
<1>7. CASE PopNextLine
  <2>1. UNCHANGED <<rx, senders, closeAfterDrain>>
    BY <1>7 DEF PopNextLine
  <2>2. CloseIsLast' /\ Told'
    BY <1>0, <2>1, CloseLastUnchanged DEF Told
  <2>3. Stands'
    BY <1>0, <1>7 DEF PopNextLine, Pop, Stands
  <2> QED BY <2>2, <2>3 DEF ControlInv
<1>8. CASE Recv
  <2>1. /\ pc = "wait" /\ pc' = "drain" /\ UNCHANGED <<senders, hand, notices>>
    BY <1>8 DEF Recv
  <2>2. Stands'
    BY <1>0, <2>1 DEF Stands
  <2>3. CASE rx # <<>> /\ Accept(Head(rx)) /\ rx' = Tail(rx)
    BY <2>1, <2>2, <2>3, AcceptTells DEF ControlInv
  <2>4. CASE rx = <<>> /\ ~senders /\ UNCHANGED rx
    BY <1>0, <2>1, <2>2, <2>4, CloseLastUnchanged DEF ControlInv, Told
  <2> QED BY <1>8, <2>3, <2>4 DEF Recv
<1> QED BY <1>1, <1>2, <1>3, <1>4, <1>5, <1>6, <1>7, <1>8
        DEF Next, Broker, Local, Pipe


-----------------------------------------------------------------------------
(* Every step, as the channel of OutboundChannel sees it. *)
Handed == wire \o hand

Losses == lost + reported

Quiet ==
    /\ Queued' = Queued /\ Handed' = Handed /\ Losses' = Losses
    /\ dropped' = dropped /\ next' = next

Accepts ==
    \E t \in Seq(Line) :
        /\ Queued' = Queued \o t /\ \A i \in 1..Len(t) : t[i].n = next + i - 1
        /\ next' = next + Len(t)
        /\ Handed' = Handed /\ Losses' = Losses /\ dropped' = dropped

HandsOver ==
    /\ Queued # <<>> /\ Handed' = Append(Handed, Head(Queued)) /\ Queued' = Tail(Queued)
    /\ Losses' = Losses /\ dropped' = dropped /\ next' = next

DropsOldest ==
    /\ OldestGoes /\ Losses' = Losses + 1 /\ Handed' = Handed /\ next' = next

(* An accepted message. *)
LEMMA DeliverMoves ==
    ASSUME TypeOK, NEW m \in Message, rx' = Append(rx, m),
           UNCHANGED <<q, hand, wire, lost, reported, dropped>>,
           \A i \in 1..Len(m.lines) : m.lines[i].n = next + i - 1,
           next' = next + Len(m.lines)
    PROVE  Accepts
<1>0. m.lines \in Seq(Line) /\ q \in Seq(Line) /\ rx \in Seq(Message)
    BY DEF Message, TypeOK
<1>1. Channelled(rx') = Channelled(rx) \o m.lines
    BY <1>0, ChannelledAppend
<1>2. Queued' = q' \o Channelled(rx')
    BY DEF Queued, Channelled, LinesOf
<1>3. Queued = q \o Channelled(rx) /\ Channelled(rx) \in Seq(Line)
    BY QueuedIs
<1>4. (q \o Channelled(rx)) \o m.lines = q \o (Channelled(rx) \o m.lines)
  <2>1. ASSUME NEW x \in Seq(Line), NEW y \in Seq(Line), NEW z \in Seq(Line)
        PROVE  (x \o y) \o z = x \o (y \o z)
    BY ConcatAssociative
  <2> QED BY <1>0, <1>3, <2>1, Zenon
<1>5. q' = q
    OBVIOUS
<1>6. Queued' = Queued \o m.lines
    BY <1>1, <1>2, <1>3, <1>4, <1>5, Zenon
<1>7. Handed' = Handed /\ Losses' = Losses /\ dropped' = dropped
    BY DEF Handed, Losses
<1> QED BY <1>0, <1>6, <1>7 DEF Accepts

LEMMA QuietWhenUnchanged ==
    ASSUME UNCHANGED <<rx, q, hand, wire, dropped, next>>, Losses' = Losses
    PROVE  Quiet
BY DEF Quiet, Queued, Handed

LEMMA ChannelMoves ==
    ASSUME QueueInv, ControlInv, [Next]_vars
    PROVE  Quiet \/ Accepts \/ HandsOver \/ DropsOldest
<1>0. /\ TypeOK /\ Stands /\ rx \in Seq(Message) /\ q \in Seq(Line) /\ hand \in Seq(Line)
      /\ wire \in Seq(Line) /\ next \in Nat \ {0} /\ lost \in Nat /\ reported \in Nat
    BY DEF ControlInv, QueueInv, TypeOK
<1>q. QueueInv'
    BY NextQueueInv
<1>1. CASE Deliver
  <2> DEFINE m == Msg("Send", <<[n |-> next, lossy |-> TRUE]>>)
  <2>1. /\ m \in Message /\ Len(m.lines) = 1
        /\ \A i \in 1..Len(m.lines) : m.lines[i].n = next + i - 1
    BY <1>0 DEF Msg, Message, Line
  <2>2. /\ rx' = Append(rx, m) /\ next' = next + 1
        /\ UNCHANGED <<q, hand, wire, lost, reported, dropped>>
    BY <1>1 DEF Deliver, writerVars
  <2> HIDE DEF m
  <2>3. next' = next + Len(m.lines)
    BY <2>1, <2>2
  <2> QED BY <1>0, <2>1, <2>2, <2>3, DeliverMoves
<1>2. ASSUME NEW k \in 0..MaxBatch, DeliverBatch(k) PROVE Accepts
  <2> DEFINE ls == [i \in 1..k |-> [n |-> next + i - 1, lossy |-> FALSE]]
             m == Msg("Batch", ls)
  <2>0. k \in Nat
    BY BoundsAssumption
  <2>1. /\ ls \in Seq(Line) /\ Len(ls) = k
    <3>1. \A i \in 1..k : [n |-> next + i - 1, lossy |-> FALSE] \in Line
      BY <1>0, <2>0 DEF Line
    <3> QED BY <2>0, <3>1, IsASeq
  <2>2. \A i \in 1..Len(ls) : ls[i].n = next + i - 1
    BY <2>0, <2>1
  <2>3. /\ rx' = Append(rx, m) /\ next' = next + k
        /\ UNCHANGED <<q, hand, wire, lost, reported, dropped>>
    BY <1>2 DEF DeliverBatch, writerVars
  <2> HIDE DEF ls
  <2>4. m \in Message /\ m.lines = ls
    BY <2>1 DEF Msg, Message
  <2> HIDE DEF m
  <2>5. /\ next' = next + Len(m.lines)
        /\ \A i \in 1..Len(m.lines) : m.lines[i].n = next + i - 1
    BY <2>1, <2>2, <2>3, <2>4
  <2> QED BY <1>0, <2>3, <2>4, <2>5, DeliverMoves
<1>3. CASE ForceClose
  <2>1. UNCHANGED <<q, hand, wire, lost, reported, dropped, next>>
    BY <1>3 DEF ForceClose, writerVars
  <2>2. CASE RxOpen
    <3> DEFINE m == Msg("Close", <<>>)
    <3>1. m \in Message /\ m.lines = <<>> /\ rx' = Append(rx, m)
      BY <1>3, <2>2, EmptySeq DEF ForceClose, Msg, Message
    <3> HIDE DEF m
    <3>2. /\ next' = next + Len(m.lines)
          /\ \A i \in 1..Len(m.lines) : m.lines[i].n = next + i - 1
      BY <1>0, <2>1, <3>1
    <3> QED BY <1>0, <2>1, <3>1, <3>2, DeliverMoves
  <2>3. CASE ~RxOpen
    <3>1. UNCHANGED rx /\ Losses' = Losses
      BY <1>3, <2>1, <2>3 DEF ForceClose, Losses
    <3> QED BY <2>1, <3>1, QuietWhenUnchanged
  <2> QED BY <2>2, <2>3
<1>4. CASE DropSender \/ Abort \/ FinalFlush \/ SendNotice \/ Terminated
           \/ Flush \/ DrainEnd \/ UNCHANGED vars
  <2>1. UNCHANGED <<rx, q, hand, wire, lost, reported, dropped, next>>
    BY <1>4 DEF DropSender, Abort, AbortAt, FinalFlush, SendNotice,
                Terminated, Flush, DrainEnd, vars, writerVars
  <2> QED BY <2>1, QuietWhenUnchanged DEF Losses
<1>5. CASE ObserveLosses
  <2>1. UNCHANGED <<rx, q, hand, wire, dropped, next>> /\ Losses' = Losses
    BY <1>0, <1>5 DEF ObserveLosses, writerVars, Losses
  <2> QED BY <2>1, QuietWhenUnchanged
<1>6. ASSUME rx # <<>>, Accept(Head(rx)), rx' = Tail(rx),
             UNCHANGED <<hand, wire, reported, next>>
      PROVE  Quiet \/ DropsOldest
  <2>1. (Queued' = Queued /\ UNCHANGED <<lost, dropped>>) \/ OldestGoes
    BY <1>q, <1>6, AcceptMoves
  <2>2. Handed' = Handed
    BY <1>6 DEF Handed
  <2>3. CASE Queued' = Queued /\ UNCHANGED <<lost, dropped>>
    BY <1>6, <2>2, <2>3 DEF Quiet, Losses
  <2>4. CASE OldestGoes
    <3>1. lost' = lost + 1
      BY <2>4 DEF OldestGoes
    <3>2. Losses' = Losses + 1
      BY <1>0, <1>6, <3>1 DEF Losses
    <3> QED BY <1>6, <2>2, <2>4, <3>2 DEF DropsOldest
  <2> QED BY <2>1, <2>3, <2>4
<1>7. CASE DrainOne
    BY <1>6, <1>7 DEF DrainOne
<1>8. CASE Recv
  <2>1. CASE rx # <<>> /\ Accept(Head(rx)) /\ rx' = Tail(rx)
    BY <1>6, <1>8, <2>1 DEF Recv
  <2>2. CASE UNCHANGED <<rx, q, queuedLossy, lost, dropped>>
    BY <1>8, <2>2, QuietWhenUnchanged DEF Recv, Losses
  <2> QED BY <1>8, <2>1, <2>2 DEF Recv
<1>9. CASE WriteAll
  <2>1. UNCHANGED <<rx, q, lost, reported, dropped, next>>
    BY <1>9 DEF WriteAll
  <2>2. CASE UNCHANGED <<wire, hand>>
    BY <2>1, <2>2, QuietWhenUnchanged DEF Losses
  <2>3. CASE wire' = wire \o hand /\ hand' = <<>>
    <3>1. wire \o hand \in Seq(Line)
      BY <1>0, ConcatProperties
    <3>2. (wire \o hand) \o <<>> = wire \o hand
      BY <3>1, ConcatEmptySeq
    <3>3. Handed' = Handed
      BY <2>3, <3>2 DEF Handed
    <3>4. Queued' = Queued /\ Losses' = Losses
      BY <2>1 DEF Queued, Losses
    <3> QED BY <2>1, <3>3, <3>4 DEF Quiet
  <2> QED BY <1>9, <2>2, <2>3 DEF WriteAll
<1>10. CASE PopNextLine
  <2>1. UNCHANGED <<rx, wire, lost, reported, dropped, next>> /\ pc = "pop"
    BY <1>10 DEF PopNextLine
  <2>2. CASE q = <<>>
    BY <1>10, <2>1, <2>2, QuietWhenUnchanged DEF PopNextLine, Losses
  <2>3. CASE q # <<>>
    <3> DEFINE t == Channelled(rx)
               h == Head(q)
               r == Tail(q)
    <3>1. hand' = <<h>> /\ q' = r /\ hand = <<>>
      BY <1>0, <1>10, <2>1, <2>3 DEF PopNextLine, Pop, Stands
    <3>2. Queued = q \o t /\ t \in Seq(Line) /\ Queued \in Seq(Line)
      BY <1>0, QueuedIs
    <3>3. Queued' = q' \o t
      <4>1. Queued' = q' \o Channelled(rx')
        BY DEF Queued, Channelled, LinesOf
      <4>2. rx' = rx
        BY <2>1
      <4> QED BY <4>1, <4>2
    <3>4. /\ h \in Line /\ r \in Seq(Line) /\ Len(q) \in Nat \ {0} /\ Len(r) = Len(q) - 1
          /\ h = q[1] /\ \A i \in 1..Len(r) : r[i] = q[i + 1]
      BY <1>0, <2>3, HeadTailProperties, EmptySeq
    <3> HIDE DEF t, h, r
    <3>5. Handed' = Append(Handed, h)
      <4>1. Handed = wire
        BY <1>0, <3>1, ConcatEmptySeq DEF Handed
      <4>2. Handed' = wire \o <<h>>
        BY <2>1, <3>1 DEF Handed
      <4>3. Append(wire, h) = wire \o <<h>>
        BY <1>0, <3>4, AppendIsConcat
      <4> QED BY <4>1, <4>2, <4>3
    <3> DEFINE a == q \o t
               b == r \o t
    <3>6. /\ a \in Seq(Line) /\ Len(a) = Len(q) + Len(t)
          /\ \A i \in 1..Len(q) + Len(t) :
                a[i] = IF i <= Len(q) THEN q[i] ELSE t[i - Len(q)]
      BY <1>0, <3>2, ConcatProperties
    <3>7. /\ b \in Seq(Line) /\ Len(b) = Len(r) + Len(t)
          /\ \A i \in 1..Len(r) + Len(t) :
                b[i] = IF i <= Len(r) THEN r[i] ELSE t[i - Len(r)]
      BY <3>2, <3>4, ConcatProperties
    <3>8. Len(t) \in Nat
      BY <3>2, LenProperties
    <3> HIDE DEF a, b
    <3>9. Len(a) # 0 /\ a # <<>> /\ a[1] = h
      BY <3>4, <3>6, <3>8
    <3>10. /\ Head(a) = a[1] /\ Tail(a) \in Seq(Line) /\ Len(Tail(a)) = Len(a) - 1
           /\ \A i \in 1..Len(a) - 1 : Tail(a)[i] = a[i + 1]
      BY <3>6, <3>9, HeadTailProperties
    <3>11. Tail(a) = b
      <4>1. Len(Tail(a)) = Len(b)
        BY <3>4, <3>6, <3>7, <3>8, <3>10
      <4>2. ASSUME NEW i \in 1..Len(b) PROVE Tail(a)[i] = b[i]
        <5>0. /\ i \in 1..Len(a) - 1 /\ i + 1 \in 1..Len(q) + Len(t)
              /\ i \in 1..Len(r) + Len(t)
          BY <3>4, <3>6, <3>7, <3>8
        <5>1. Tail(a)[i] = a[i + 1]
          BY <3>10, <5>0
        <5>2. CASE i <= Len(r)
          BY <3>4, <3>6, <3>7, <5>0, <5>1, <5>2
        <5>3. CASE i > Len(r)
          <6>1. a[i + 1] = t[(i + 1) - Len(q)] /\ b[i] = t[i - Len(r)]
            BY <3>4, <3>6, <3>7, <5>0, <5>3
          <6>2. (i + 1) - Len(q) = i - Len(r)
            BY <3>4, <5>0
          <6> QED BY <5>1, <6>1, <6>2
        <5> QED BY <3>4, <5>0, <5>2, <5>3
      <4> QED BY <3>7, <3>10, <4>1, <4>2, SeqEqual
    <3>12. Queued = a /\ Queued' = b
      BY <3>1, <3>2, <3>3 DEF a, b
    <3>13. Losses' = Losses
      BY <2>1 DEF Losses
    <3> QED BY <2>1, <3>5, <3>9, <3>10, <3>11, <3>12, <3>13 DEF HandsOver
  <2> QED BY <2>2, <2>3
<1> QED BY <1>1, <1>2, <1>3, <1>4, <1>5, <1>7, <1>8, <1>9, <1>10
        DEF Next, Broker, Local, Pipe


-----------------------------------------------------------------------------
(* The inductive invariant of the books. *)
AccountInv ==
    QueueInv /\ ControlInv /\ Books(Handed \o Queued, dropped, Losses, next)

LEMMA InitAccountInv == Init => AccountInv
<1> SUFFICES ASSUME Init PROVE AccountInv
    OBVIOUS
<1>1. QueueInv /\ TypeOK
    BY InitQueueInv DEF QueueInv
<1>2. ControlInv
    BY DEF Init, ControlInv, CloseIsLast, Told, Stands
<1>3. /\ wire = <<>> /\ hand = <<>> /\ q = <<>> /\ rx = <<>> /\ next = 1
      /\ lost = 0 /\ reported = 0 /\ dropped = {}
    BY DEF Init
<1>4. /\ Queued = <<>> /\ Handed = <<>>
  <2>1. Queued = q \o Channelled(rx)
    BY <1>1, QueuedIs
  <2>2. <<>> \o <<>> = <<>>
    BY ConcatEmptySeq, EmptySeq
  <2> QED BY <1>3, <2>1, <2>2, ChannelledEmpty DEF Handed
<1>5. Handed \o Queued = <<>>
    BY <1>4, ConcatEmptySeq, EmptySeq
<1>6. Losses = 0
    BY <1>3 DEF Losses
<1>7. Books(<<>>, {}, 0, 1)
    BY FS_EmptySet, EmptySeq DEF Books, Ordered
<1> QED BY <1>1, <1>2, <1>3, <1>5, <1>6, <1>7 DEF AccountInv

LEMMA NextAccountInv == AccountInv /\ [Next]_vars => AccountInv'
<1> SUFFICES ASSUME AccountInv, [Next]_vars PROVE AccountInv'
    OBVIOUS
<1>1. QueueInv /\ ControlInv /\ TypeOK /\ Books(Handed \o Queued, dropped, Losses, next)
    BY DEF AccountInv, QueueInv
<1>2. QueueInv' /\ ControlInv'
    BY <1>1, NextQueueInv, ControlKeeps
<1>3. Handed \in Seq(Line) /\ Queued \in Seq(Line)
    BY <1>1, QueuedIs, ConcatProperties DEF Handed, TypeOK
<1>a. ASSUME NEW x \in Seq(Line), NEW y \in Seq(Line), NEW z \in Seq(Line)
      PROVE  (x \o y) \o z = x \o (y \o z)
    BY ConcatAssociative
<1> DEFINE h == Handed
           u == Queued
<1>4. CASE Quiet
    BY <1>1, <1>2, <1>4 DEF Quiet, AccountInv
<1>5. CASE Accepts
  <2>1. PICK t \in Seq(Line) :
          /\ Queued' = Queued \o t /\ \A i \in 1..Len(t) : t[i].n = next + i - 1
          /\ next' = next + Len(t)
          /\ Handed' = Handed /\ Losses' = Losses /\ dropped' = dropped
    BY <1>5 DEF Accepts
  <2>2. Books((Handed \o Queued) \o t, dropped, Losses, next + Len(t))
    BY <1>1, <2>1, BooksAppend
  <2>3. (Handed \o Queued) \o t = Handed \o (Queued \o t)
    BY <1>3, <1>a
  <2>4. Books(Handed' \o Queued', dropped', Losses', next')
    BY <2>1, <2>2, <2>3
  <2> QED BY <1>2, <2>4 DEF AccountInv
<1>6. CASE HandsOver
  <2>1. /\ Head(Queued) \in Line /\ Tail(Queued) \in Seq(Line)
        /\ Queued = <<Head(Queued)>> \o Tail(Queued)
    <3>1. Queued # <<>>
      BY <1>6 DEF HandsOver
    <3> HIDE DEF u
    <3>2. u \in Seq(Line) /\ u # <<>>
      BY <1>3, <3>1 DEF u
    <3>3. /\ Head(u) \in Line /\ Tail(u) \in Seq(Line) /\ Len(Tail(u)) = Len(u) - 1
          /\ \A i \in 1..Len(Tail(u)) : Tail(u)[i] = u[i + 1]
          /\ Len(u) \in Nat \ {0} /\ Head(u) = u[1]
      BY <3>2, HeadTailProperties, EmptySeq
    <3> DEFINE one == <<Head(u)>>
               r == Tail(u)
               v == one \o r
    <3>4. one \in Seq(Line) /\ Len(one) = 1 /\ one[1] = u[1]
      BY <3>3
    <3> HIDE DEF one, r
    <3>5. r \in Seq(Line) /\ Len(r) = Len(u) - 1 /\ \A i \in 1..Len(r) : r[i] = u[i + 1]
      BY <3>3 DEF r
    <3>6. /\ v \in Seq(Line) /\ Len(v) = Len(one) + Len(r)
          /\ \A i \in 1..Len(one) + Len(r) :
                v[i] = IF i <= Len(one) THEN one[i] ELSE r[i - Len(one)]
      <4>1. Concatenates(Line)
        BY ConcatConcatenates, Zenon
      <4> QED BY <3>4, <3>5, <4>1, Zenon DEF Concatenates
    <3> HIDE DEF v
    <3>7. Len(v) = Len(u)
      BY <3>3, <3>4, <3>5, <3>6
    <3>8. ASSUME NEW i \in 1..Len(v) PROVE v[i] = u[i]
      <4>1. CASE i = 1
        BY <3>3, <3>4, <3>5, <3>6, <3>7, <4>1
      <4>2. CASE i # 1
        <5>1. v[i] = r[i - 1] /\ i - 1 \in 1..Len(r)
          BY <3>3, <3>4, <3>5, <3>6, <3>7, <4>2
        <5>2. (i - 1) + 1 = i
          BY <3>3, <3>7
        <5> QED BY <3>5, <5>1, <5>2
      <4> QED BY <4>1, <4>2
    <3>9. v = u
      BY <3>2, <3>6, <3>7, <3>8, SeqEqual
    <3> QED BY <3>3, <3>9 DEF v, one, r, u
  <2> DEFINE e == Head(Queued)
             r == Tail(Queued)
             one == <<e>>
  <2>2. /\ Handed' = Append(Handed, e) /\ Queued' = r
        /\ Losses' = Losses /\ dropped' = dropped /\ next' = next
    BY <1>6 DEF HandsOver
  <2>3. e \in Line /\ r \in Seq(Line) /\ one \in Seq(Line) /\ Queued = one \o r
    BY <2>1
  <2>4. Handed' = Handed \o one
    BY <1>3, <2>2, <2>3, AppendIsConcat
  <2> HIDE DEF e, r, one
  <2>5. (Handed \o one) \o r = Handed \o (one \o r)
    BY <1>3, <1>a, <2>3
  <2>6. Handed' \o Queued' = Handed \o Queued
    BY <2>2, <2>3, <2>4, <2>5
  <2> QED BY <1>1, <1>2, <2>2, <2>6 DEF AccountInv
<1>7. CASE DropsOldest
  <2>1. PICK v \in 1..Len(Queued) :
          /\ Queued[v].lossy /\ Queued' = RemoveAt(Queued, v)
          /\ dropped' = dropped \cup {Queued[v]}
    BY <1>7 DEF DropsOldest, OldestGoes
  <2>2. Losses' = Losses + 1 /\ Handed' = Handed /\ next' = next
    BY <1>7 DEF DropsOldest
  <2> HIDE DEF h, u
  <2>3. h \in Seq(Line) /\ u \in Seq(Line) /\ v \in 1..Len(u)
    BY <1>3 DEF h, u
  <2> DEFINE s == h \o u
             w == Len(h) + v
  <2>4. /\ Len(h) \in Nat /\ Len(u) \in Nat /\ s \in Seq(Line) /\ Len(s) = Len(h) + Len(u)
        /\ \A i \in 1..Len(h) + Len(u) : s[i] = IF i <= Len(h) THEN h[i] ELSE u[i - Len(h)]
    BY <2>3, LenProperties, ConcatProperties
  <2>5. RemoveAt(s, w) = h \o RemoveAt(u, v)
    BY <2>3, RemoveFromRight
  <2>6. w \in 1..Len(s) /\ ~(w <= Len(h)) /\ w - Len(h) = v
    <3> HIDE DEF s
    <3> QED BY <2>3, <2>4
  <2> HIDE DEF s, w
  <2>7. s[w] = u[v]
    BY <2>4, <2>6
  <2>8. Books(s, dropped, Losses, next) /\ s[w].lossy
    BY <1>1, <2>1, <2>7 DEF s, h, u
  <2>9. Books(RemoveAt(s, w), dropped \cup {s[w]}, Losses + 1, next)
    BY <2>6, <2>8, BooksDrop
  <2>10. Books(Handed' \o Queued', dropped', Losses', next')
    BY <2>1, <2>2, <2>5, <2>7, <2>9 DEF h, u
  <2> QED BY <1>2, <2>10 DEF AccountInv
<1> QED BY <1>1, <1>4, <1>5, <1>6, <1>7, ChannelMoves

LEMMA AccountInvHolds == Spec => []AccountInv
BY InitAccountInv, NextAccountInv, PTL DEF Spec

(* Whatever the order of sends, overflow, pipe faults and the close, and   *)
(* for every capacity and workload: run_writer_observed writes each line   *)
(* once and in order of acceptance, or drops it and counts it, or leaves   *)
(* it behind and says so; only live lines are dropped.                     *)
THEOREM EveryLineAccounted == Spec => []LinesAccounted
<1>1. ASSUME AccountInv PROVE LinesAccounted
  <2> DEFINE s == Handed \o Queued
  <2>1. TypeOK /\ Stands /\ Books(s, dropped, Losses, next)
    BY <1>1 DEF AccountInv, QueueInv, ControlInv
  <2>2. wire \o InFlight = s
    <3>1. wire \in Seq(Line) /\ hand \in Seq(Line) /\ Queued \in Seq(Line)
      BY <2>1, QueuedIs DEF TypeOK
    <3>2. ASSUME NEW x \in Seq(Line), NEW y \in Seq(Line), NEW z \in Seq(Line)
          PROVE  (x \o y) \o z = x \o (y \o z)
      BY ConcatAssociative
    <3> QED BY <3>1, <3>2 DEF InFlight, Handed
  <2> HIDE DEF s
  <2>3. InOrder
    BY <2>1, <2>2 DEF InOrder, Books, Ordered
  <2>4. LossAccounted
    <3>1. /\ \A l \in dropped : l.lossy
          /\ Cardinality(dropped) = lost + reported
          /\ Len(s) + Cardinality(dropped) = next - 1
      BY <2>1 DEF Books, Losses
    <3>2. {l.n : l \in ToSet(s)} \cup {l.n : l \in dropped} = 1..(next - 1)
      <4>0. s \in Seq(Line) /\ dropped \in SUBSET Line /\ next \in Nat \ {0}
        BY <2>1 DEF Books
      <4>1. ToSet(s) = {s[i] : i \in 1..Len(s)}
        BY <4>0, LenProperties DEF ToSet
      <4>2. ASSUME NEW i \in 1..Len(s) PROVE s[i].n \in 1..(next - 1)
        <5>1. s[i] \in Line /\ s[i].n < next
          BY <2>1, <4>0, ElementOfSeq DEF Books
        <5> QED BY <4>0, <5>1, LineNumber
      <4>3. ASSUME NEW l \in dropped PROVE l.n \in 1..(next - 1)
        <5>1. l \in Line /\ l.n < next
          BY <2>1, <4>0 DEF Books
        <5> QED BY <4>0, <5>1, LineNumber
      <4>4. ASSUME NEW k \in 1..(next - 1)
            PROVE  k \in {l.n : l \in ToSet(s)} \cup {l.n : l \in dropped}
        <5>1. (\E i \in 1..Len(s) : s[i].n = k) \/ (\E l \in dropped : l.n = k)
          BY <2>1 DEF Books
        <5> QED BY <4>1, <5>1
      <4> QED BY <4>1, <4>2, <4>3, <4>4
    <3> QED BY <2>2, <3>1, <3>2 DEF LossAccounted
  <2>5. CloseDrains
    <3>1. notices <= 1
      BY <2>1 DEF Stands
    <3>2. ASSUME pc = "done", notices = 0 PROVE InFlight = <<>>
      <4>1. hand = <<>> /\ q = <<>> /\ rx = <<>>
        BY <2>1, <3>2 DEF Stands
      <4>2. Queued = q \o Channelled(rx)
        BY <2>1, QueuedIs
      <4>3. <<>> \o <<>> = <<>>
        BY ConcatEmptySeq, EmptySeq
      <4> QED BY <4>1, <4>2, <4>3, ChannelledEmpty DEF InFlight
    <3> QED BY <3>1, <3>2 DEF CloseDrains
  <2> QED BY <2>3, <2>4, <2>5 DEF LinesAccounted
<1> QED BY <1>1, AccountInvHolds, PTL

(* The writer implements the channel the engine promises: under the        *)
(* mapping of ConnectionWriter every step of broker and writer accepts     *)
(* lines at the end, hands over the oldest, drops the oldest live line at  *)
(* a time when more than Cap are pending, or changes nothing.              *)
THEOREM WriterImplementsChannel == Spec => ImplementsChannel
<1>1. Init => Channel!Init
  <2> SUFFICES ASSUME Init PROVE Channel!Init
    OBVIOUS
  <2>1. Queued = q \o Channelled(rx)
    BY InitQueueInv, QueuedIs DEF QueueInv
  <2>2. <<>> \o <<>> = <<>>
    BY ConcatEmptySeq, EmptySeq
  <2> QED BY <2>1, <2>2, ChannelledEmpty DEF Init, Channel!Init
<1>2. ASSUME QueueInv, ControlInv, [Next]_vars
      PROVE  [Channel!Next]_(Channel!chanVars)
  <2>0. Queued \in Seq(Line) /\ Len(Queued) \in Nat
    BY <1>2, QueuedIs, LenProperties DEF QueueInv
  <2>1. CASE Quiet
    BY <2>1 DEF Quiet, Handed, Losses, Channel!chanVars
  <2>2. CASE Accepts
    <3>1. PICK t \in Seq(Line) : Queued' = Queued \o t /\ Handed' = Handed
                                 /\ Losses' = Losses
      BY <2>2 DEF Accepts
    <3>2. Len(Queued') >= Len(Queued)
      BY <2>0, <3>1, ConcatProperties, LenProperties
    <3>3. SubSeq(Queued', 1, Len(Queued)) = Queued
      <4> DEFINE u == Queued
                 w == u \o t
                 x == SubSeq(w, 1, Len(u))
      <4>1. u \in Seq(Line) /\ Len(u) \in Nat
        BY <2>0
      <4> HIDE DEF u
      <4>2. /\ w \in Seq(Line) /\ Len(w) = Len(u) + Len(t) /\ Len(t) \in Nat
            /\ \A i \in 1..Len(u) + Len(t) : w[i] = IF i <= Len(u) THEN u[i] ELSE t[i - Len(u)]
        BY <4>1, ConcatProperties, LenProperties
      <4> HIDE DEF w
      <4>3. \A i \in 1..Len(u) : w[i] = u[i] /\ w[i] \in Line
        BY <4>1, <4>2, ElementOfSeq
      <4>4. /\ x \in Seq(Line) /\ Len(x) = Len(u) /\ \A i \in 1..Len(u) : x[i] = w[i]
        BY <4>1, <4>3, SubSeqProperties
      <4> HIDE DEF x
      <4>5. x = u
        BY <4>1, <4>3, <4>4, SeqEqual
      <4> QED BY <3>1, <4>5 DEF x, w, u
    <3> QED BY <3>1, <3>2, <3>3 DEF Handed, Losses, Channel!Next, Channel!Accept
  <2>3. CASE HandsOver
    BY <2>3 DEF HandsOver, Handed, Losses, Channel!Next, Channel!Hand
  <2>4. CASE DropsOldest
    <3>1. PICK v \in 1..Len(Queued) :
            /\ Queued[v].lossy /\ \A j \in 1..v - 1 : ~Queued[j].lossy
            /\ Queued' = RemoveAt(Queued, v)
            /\ Cardinality(LossyIn(Queued)) > Cap
      BY <2>4 DEF DropsOldest, OldestGoes
    <3>2. Channel!LossyCount(Queued) > Cap
      <4>1. \A S : Channel!Cardinality(S) = Cardinality(S)
        BY DEF Channel!Cardinality, Cardinality
      <4> QED BY <3>1, <4>1 DEF Channel!LossyCount, LossyIn
    <3>3. OldestLossy(Queued) = v
      <4>1. v \in LossyIn(Queued)
        BY <3>1 DEF LossyIn
      <4>2. /\ OldestLossy(Queued) \in 0..Len(Queued)
            /\ OldestLossy(Queued) # 0 /\ OldestLossy(Queued) <= v
            /\ OldestLossy(Queued) > 0 => Queued[OldestLossy(Queued)].lossy
        BY <2>0, <4>1, OldestLossyProperties
      <4>3. ~(OldestLossy(Queued) \in 1..v - 1)
        BY <2>0, <3>1, <4>2
      <4> QED BY <2>0, <4>2, <4>3
    <3>4. Channel!RemoveFirstMatch(Queued, Channel!IsLossy) = RemoveAt(Queued, v)
      <4>1. Channel!SelectInSeq(Queued, Channel!IsLossy) = OldestLossy(Queued)
        BY DEF OldestLossy, SelectInSeq, Channel!SelectInSeq, Channel!IsLossy, Min, Channel!Min
      <4>2. \E i \in 1..Len(Queued) : Channel!IsLossy(Queued[i])
        BY <3>1 DEF Channel!IsLossy
      <4>3. Channel!RemoveAt(Queued, v) = RemoveAt(Queued, v)
        BY DEF Channel!RemoveAt, RemoveAt
      <4> QED BY <3>3, <4>1, <4>2, <4>3 DEF Channel!RemoveFirstMatch
    <3>5. Losses' = Losses + 1 /\ Handed' = Handed
      BY <2>4 DEF DropsOldest
    <3> QED BY <3>1, <3>2, <3>4, <3>5 DEF Handed, Losses, Channel!Next, Channel!Drop
  <2> QED BY <1>2, <2>1, <2>2, <2>3, <2>4, ChannelMoves
<1>3. AccountInv => QueueInv /\ ControlInv
    BY DEF AccountInv
<1> QED BY <1>1, <1>2, <1>3, AccountInvHolds, PTL DEF Spec, ImplementsChannel, Channel!Spec


=============================================================================
