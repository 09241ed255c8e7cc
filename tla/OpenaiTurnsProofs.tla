-------------------------- MODULE OpenaiTurnsProofs --------------------------
(***************************************************************************)
(* Proofs about the turns of the OpenAI provider, for any sets of chats,   *)
(* requests and call ids, any batches of tool calls and any limits: who    *)
(* holds a chat or a completion id, that every turn answers, that the      *)
(* broker's waiters are the waits of the turns, that no tool call of a     *)
(* history is forgotten, and that a suppressed turn stays silent.          *)
(***************************************************************************)
EXTENDS OpenaiTurns, TLAPS

TurnType ==
    [pc : Pcs, of : Chats \cup Requests \cup {None}, legacy : BOOLEAN,
     cancel : BOOLEAN, suppress : BOOLEAN, queued : 0..QueueCap,
     attempt : 1..MaxAttempts, round : 1..MaxRounds, limited : BOOLEAN,
     shown : BOOLEAN, iteration : 1..MaxIterations,
     calls : Seq(Ids), reply : {"none", "result", "closed"},
     finish : Finishes, terminal : Finishes \cup {"admission"},
     failed : BOOLEAN]

ChatType ==
    [slot : TurnIds \cup {None, Vacant}, restored : BOOLEAN,
     open : SUBSET Ids, left : SUBSET Ids]

\* The points at which a `prompt` turn works on its calls, those at which it
\* is registered at the broker, and those at which the token is looked at.
ToolPcs == {"tool", "invoke", "await", "report"}
WaitPcs == {"invoke", "await"}
HeedPcs == {"request", "stream", "backoff"} \cup ToolPcs

\* An untouched restored chat has no turn.
RestoredVacant == \A c \in Chats : chat[c].restored => chat[c].slot = Vacant

\* What a turn's own record says of the point it is at.
WellTurn(w) ==
    /\ w.pc \notin {"unused", "ended"} => w.of # None
    /\ w.pc \in ToolPcs => w.calls # <<>> /\ w.of \in Chats
    /\ w.pc \notin ToolPcs => w.calls = <<>>
    /\ w.legacy => w.of \in Chats
    /\ w.pc = "conclude" => w.finish # "none"
    /\ w.pc \in {"closing", "terminal"} =>
           /\ w.terminal = "none" => w.failed \/ w.suppress \/ ~Dispatching
           /\ w.failed => w.terminal = "none"
    /\ w.pc = "release" =>
           /\ w.terminal = "none" => w.suppress \/ ~Dispatching
           /\ w.failed => w.terminal \in {"none", "admission"}

\* A reply that is there was taken from the broker, and only turns of chats
\* were ever registered.
RepliesTaken ==
    /\ \A t \in TurnIds :
           turn[t].pc \in WaitPcs /\ turn[t].reply # "none" =>
               broker[Head(turn[t].calls)] # t
    /\ \A i \in Ids : broker[i] # None => turn[broker[i]].of \in Chats

TurnsInv ==
    /\ TurnsAccounted /\ WaitersMatch /\ CallsAreAnswered
    /\ RestoredVacant /\ RepliesTaken
    /\ \A t \in TurnIds : WellTurn(turn[t])

-----------------------------------------------------------------------------
(* Records. *)

\* Limits are positive, and the marks are none of the things they stand for.
LEMMA Bounds ==
    /\ QueueCap \in Nat \ {0} /\ MaxAttempts \in Nat \ {0} /\ MaxRounds \in Nat \ {0}
    /\ MaxIterations \in Nat \ {0} /\ Default \in Chats /\ CallerIds \subseteq Ids
    /\ None \notin TurnIds /\ Vacant \notin TurnIds /\ None # Vacant
    /\ None \notin Chats /\ None \notin Requests /\ Chats \cap Requests = {}
BY BoundsAssumption, NamesAssumption DEF TurnIds

\* The turn that has not begun is a well-formed one.
LEMMA IdleFacts ==
    /\ Idle \in TurnType /\ Idle.pc = "unused" /\ Idle.of = None /\ Idle.calls = <<>>
    /\ ~Idle.legacy /\ ~Idle.cancel /\ ~Idle.suppress /\ ~Idle.failed
    /\ Idle.terminal = "none" /\ Idle.finish = "none" /\ Idle.reply = "none"
<1>1. /\ 0 \in 0..QueueCap /\ 1 \in 1..MaxAttempts /\ 1 \in 1..MaxRounds
      /\ 1 \in 1..MaxIterations
  BY Bounds
<1>2. <<>> \in Seq(Ids)
  OBVIOUS
<1>3. Idle \in TurnType
  BY <1>1, <1>2, Zenon DEF Idle, TurnType, Pcs, Finishes
<1> QED
  BY <1>3 DEF Idle

\* What is left of a turn when its work is over.
LEMMA ClosingFacts ==
    ASSUME TypeOK, NEW t \in TurnIds
    PROVE  /\ Closing(t) \in TurnType /\ Closing(t).pc = "closing"
           /\ Closing(t).of = turn[t].of /\ Closing(t).suppress = turn[t].suppress
           /\ Closing(t).calls = <<>> /\ ~Closing(t).legacy /\ ~Closing(t).failed
           /\ Closing(t).terminal = "none"
<1>1. turn[t].of \in Chats \cup Requests \cup {None} /\ turn[t].suppress \in BOOLEAN
  BY DEF TypeOK
<1>2. /\ Closing(t) \in TurnType /\ Closing(t).pc = "closing"
      /\ Closing(t).of = turn[t].of
      /\ Closing(t).suppress = turn[t].suppress
  BY <1>1, IdleFacts, Zenon DEF Closing, TurnType, Pcs
<1>3. /\ Closing(t).calls = <<>> /\ ~Closing(t).legacy /\ ~Closing(t).failed
      /\ Closing(t).terminal = "none"
  BY DEF Closing, Idle
<1> QED
  BY <1>2, <1>3

\* A turn whose work was cut off.
LEMMA DroppedFacts ==
    ASSUME TypeOK, NEW t \in TurnIds, NEW failed \in BOOLEAN
    PROVE  \E w \in TurnType :
            /\ Dropped(t, failed) = [turn EXCEPT ![t] = w]
            /\ w.pc = "closing" /\ w.of = turn[t].of /\ w.suppress = turn[t].suppress
            /\ w.calls = <<>> /\ ~w.legacy /\ w.failed = failed /\ w.terminal = "none"
<1> DEFINE w == [Closing(t) EXCEPT !.failed = failed]
<1>0. Closing(t) \in TurnType
  BY ClosingFacts
<1>1. w \in TurnType
  BY <1>0, Zenon DEF TurnType
<1>2. /\ w.pc = "closing" /\ w.of = turn[t].of /\ w.suppress = turn[t].suppress
      /\ w.calls = <<>> /\ ~w.legacy /\ w.failed = failed /\ w.terminal = "none"
  BY ClosingFacts DEF TurnType
<1>3. Dropped(t, failed) = [turn EXCEPT ![t] = w]
  BY DEF Dropped
<1> QED
  BY <1>1, <1>2, <1>3

\* A turn whose work has its outcome.
LEMMA ConcludingFacts ==
    ASSUME TypeOK, NEW t \in TurnIds, NEW finish \in Finishes
    PROVE  \E w \in TurnType :
            /\ Concluding(t, finish) = [turn EXCEPT ![t] = w]
            /\ Concluding(t, finish)[t] = w
            /\ w.pc = "conclude" /\ w.of = turn[t].of /\ w.suppress = turn[t].suppress
            /\ w.calls = <<>> /\ ~w.legacy /\ w.finish = finish /\ w.terminal = "none"
<1> DEFINE w == [Idle EXCEPT !.pc = "conclude", !.of = turn[t].of,
                !.suppress = turn[t].suppress, !.queued = turn[t].queued,
                !.finish = finish]
<1>1. /\ turn[t].of \in Chats \cup Requests \cup {None} /\ turn[t].suppress \in BOOLEAN
      /\ turn[t].queued \in 0..QueueCap
  BY DEF TypeOK
<1>2. w \in TurnType
  BY <1>1, IdleFacts, Zenon DEF TurnType, Pcs
<1>3. /\ w.pc = "conclude" /\ w.of = turn[t].of /\ w.suppress = turn[t].suppress
      /\ w.calls = <<>> /\ ~w.legacy /\ w.finish = finish /\ w.terminal = "none"
  BY DEF Idle
<1>4. /\ Concluding(t, finish) = [turn EXCEPT ![t] = w]
      /\ Concluding(t, finish)[t] = w
  BY DEF TypeOK, Concluding
<1> QED
  BY <1>2, <1>3, <1>4

-----------------------------------------------------------------------------
(* The parts of the invariant, and what a step has to respect to keep them. *)

\* Ownership: no turn changes its owner, begins or ends, none that was told to
\* stop is untold, and the slots that turns hold stay.
LEMMA OwnersKept ==
    ASSUME TurnsInv, runs' = runs,
           \A u \in TurnIds :
                /\ turn'[u].of = turn[u].of
                /\ Running(u)' <=> Running(u)
                /\ Heeds(u)' /\ ~turn'[u].cancel => Heeds(u) /\ ~turn[u].cancel,
           \A c \in Chats :
                /\ \/ chat'[c].slot = chat[c].slot
                   \/ chat'[c].slot \notin TurnIds /\ chat[c].slot \notin TurnIds
                /\ chat'[c].restored => \/ chat'[c].slot = Vacant
                                        \/ chat[c].restored /\ chat'[c].slot = chat[c].slot
    PROVE  BusyMeansRunning' /\ RestoredVacant'
<1>0. TypeOK /\ BusyMeansRunning /\ RestoredVacant
      /\ \A t \in TurnIds : WellTurn(turn[t])
  BY DEF TurnsInv, TurnsAccounted
<1>1. RestoredVacant'
  BY <1>0 DEF RestoredVacant
<1>2. BusyMeansRunning'
  <2>1. \A c \in Chats : chat'[c].slot \in TurnIds => chat'[c].slot = chat[c].slot
    OBVIOUS
  <2>2. \A u \in TurnIds : Running(u) /\ ~IsDirect(u) => turn[u].of \in Chats
    BY <1>0 DEF WellTurn, Running, IsDirect, TypeOK
  <2>3. \A u \in TurnIds : Heeds(u) => Running(u)
    BY DEF Heeds, Running
  <2>4. \A c \in Chats : chat[c].slot \in TurnIds => chat'[c].slot = chat[c].slot
    OBVIOUS
  <2>5. \A r \in Requests : runs[r] # None => runs[r] \in TurnIds
    BY <1>0 DEF TypeOK
  <2> QED
    BY <1>0, <2>1, <2>2, <2>3, <2>4, <2>5 DEF BusyMeansRunning, IsDirect
<1> QED
  BY <1>1, <1>2

\* Waiters: the broker is untouched, who waits did so before, for the same
\* call, and who stops waiting has its reply or is closing.
LEMMA WaitersKept ==
    ASSUME TurnsInv, broker' = broker,
           \A u \in TurnIds :
                /\ turn'[u].of = turn[u].of
                /\ turn'[u].pc \in WaitPcs =>
                        /\ turn[u].pc \in WaitPcs
                        /\ turn'[u].reply = turn[u].reply /\ turn'[u].calls = turn[u].calls
                /\ turn[u].pc \in WaitPcs /\ turn'[u].pc \notin WaitPcs =>
                        turn'[u].pc = "closing" \/ turn[u].reply # "none"
                /\ turn[u].pc = "closing" => turn'[u].pc = "closing"
    PROVE  WaitersMatch' /\ RepliesTaken'
<1>0. TypeOK /\ WaitersRegistered /\ NoWaiterLeaks /\ RepliesTaken
  BY DEF TurnsInv, TurnsAccounted, WaitersMatch
<1>1. WaitersRegistered'
  BY <1>0 DEF WaitersRegistered, WaitPcs
<1>2. NoWaiterLeaks'
  <2> SUFFICES ASSUME NEW i \in Ids, broker[i] # None
               PROVE  \/ turn'[broker[i]].pc \in WaitPcs /\ Head(turn'[broker[i]].calls) = i
                      \/ turn'[broker[i]].pc = "closing"
    BY DEF NoWaiterLeaks, WaitPcs
  <2>1. broker[i] \in TurnIds
    BY <1>0 DEF TypeOK
  <2>2. \/ turn[broker[i]].pc \in WaitPcs /\ Head(turn[broker[i]].calls) = i
        \/ turn[broker[i]].pc = "closing"
    BY <1>0 DEF NoWaiterLeaks, WaitPcs
  <2>3. turn[broker[i]].pc \in WaitPcs /\ turn[broker[i]].reply # "none" =>
            broker[Head(turn[broker[i]].calls)] # broker[i]
    BY <1>0, <2>1 DEF RepliesTaken
  <2> QED
    BY <2>1, <2>2, <2>3
<1>3. RepliesTaken'
  BY <1>0 DEF RepliesTaken, TypeOK
<1> QED
  BY <1>1, <1>2, <1>3 DEF WaitersMatch

\* Calls: what is open and not left was so before, and whoever was going to
\* answer it still is.
LEMMA CallsKept ==
    ASSUME TurnsInv,
           \A c \in Chats : \A i \in chat'[c].open \ chat'[c].left :
                /\ i \in chat[c].open \ chat[c].left
                /\ \A u \in TurnIds :
                      turn[u].of = c /\ i \in Range(turn[u].calls) =>
                          turn'[u].of = c /\ i \in Range(turn'[u].calls)
    PROVE  CallsAreAnswered'
BY DEF TurnsInv, CallsAreAnswered

-----------------------------------------------------------------------------
(* A turn moves on. *)

\* One turn's record changes and nothing else that others rely on.
LEMMA TurnMoves ==
    ASSUME TurnsInv, NEW t \in TurnIds, NEW w \in TurnType,
           turn' = [turn EXCEPT ![t] = w],
           UNCHANGED <<chat, runs, broker, loop>>, noTools' \subseteq {"chats", "runs"},
           Running(t), w.pc \notin {"unused", "ended"}, w.of = turn[t].of,
           w.pc \in HeedPcs /\ ~w.cancel => Heeds(t) /\ ~turn[t].cancel,
           WellTurn(w), turn[t].pc # "closing",
           w.calls = turn[t].calls \/ turn[t].calls = <<>>,
           w.pc \in WaitPcs => turn[t].pc \in WaitPcs /\ w.reply = turn[t].reply
                                /\ w.calls = turn[t].calls,
           turn[t].pc \in WaitPcs /\ w.pc \notin WaitPcs =>
                w.pc = "closing" \/ turn[t].reply # "none"
    PROVE  TurnsInv'
<1>0. TypeOK /\ Dispatching' = Dispatching /\ \A u \in TurnIds : WellTurn(turn[u])
  BY DEF TurnsInv, TurnsAccounted, Dispatching
<1>1. /\ turn'[t] = w
      /\ \A u \in TurnIds : u # t => turn'[u] = turn[u]
      /\ turn' \in [TurnIds -> TurnType]
  BY <1>0 DEF TypeOK, TurnType
<1>2. TypeOK'
  BY <1>0, <1>1 DEF TypeOK, TurnType
<1>3. \A u \in TurnIds : WellTurn(turn[u])'
  BY <1>0, <1>1 DEF WellTurn
<1>4. BusyMeansRunning' /\ RestoredVacant'
  BY <1>0, <1>1, OwnersKept DEF Running, Heeds, HeedPcs, ToolPcs
<1>5. WaitersMatch' /\ RepliesTaken'
  BY <1>0, <1>1, WaitersKept
<1>6. CallsAreAnswered'
  <2>1. \A u \in TurnIds : \A i : i \in Range(turn[u].calls) => i \in Range(turn'[u].calls)
    BY <1>1 DEF Range
  <2> QED
    BY <1>1, <2>1, CallsKept
<1>7. EveryTurnAnswers'
  BY <1>3 DEF WellTurn, EveryTurnAnswers
<1> QED
  BY <1>2, <1>3, <1>4, <1>5, <1>6, <1>7 DEF TurnsInv, TurnsAccounted

\* A working turn that is at no tool concludes.
LEMMA ConcludesKeeps ==
    ASSUME TurnsInv, NEW t \in TurnIds, NEW finish \in Finishes \ {"none"},
           turn' = Concluding(t, finish), turn[t].pc \in {"request", "stream", "backoff"},
           UNCHANGED <<chat, runs, broker, noTools, loop>>
    PROVE  TurnsInv'
<1>0. TypeOK /\ WellTurn(turn[t]) /\ noTools \subseteq {"chats", "runs"}
  BY DEF TurnsInv, TurnsAccounted, TypeOK
<1>1. PICK w \in TurnType :
            /\ turn' = [turn EXCEPT ![t] = w]
            /\ w.pc = "conclude" /\ w.of = turn[t].of
            /\ w.calls = <<>> /\ ~w.legacy /\ w.finish = finish
  BY <1>0, ConcludingFacts
<1>2. WellTurn(w)
  BY <1>0, <1>1 DEF WellTurn, ToolPcs
<1> QED
  BY <1>0, <1>1, <1>2, TurnMoves DEF WellTurn, Running, HeedPcs, ToolPcs, WaitPcs

\* A turn without calls is dropped because its queue is full.
LEMMA OverflowKeeps ==
    ASSUME TurnsInv, NEW t \in TurnIds, turn' = Dropped(t, TRUE), turn[t].pc = "stream",
           UNCHANGED <<chat, runs, broker, noTools, loop>>
    PROVE  TurnsInv'
<1>0. TypeOK /\ WellTurn(turn[t]) /\ noTools \subseteq {"chats", "runs"}
  BY DEF TurnsInv, TurnsAccounted, TypeOK
<1>1. PICK w \in TurnType :
            /\ turn' = [turn EXCEPT ![t] = w]
            /\ w.pc = "closing" /\ w.of = turn[t].of
            /\ w.calls = <<>> /\ ~w.legacy /\ w.failed /\ w.terminal = "none"
  BY <1>0, DroppedFacts
<1>2. WellTurn(w)
  BY <1>0, <1>1 DEF WellTurn, ToolPcs
<1> QED
  BY <1>0, <1>1, <1>2, TurnMoves DEF WellTurn, Running, HeedPcs, ToolPcs, WaitPcs

\* The steps of a turn that concern nobody else.
LEMMA OwnStepKeeps ==
    ASSUME TurnsInv, NEW t \in TurnIds,
           \/ Drain(t) \/ Request(t) \/ Delta(t) \/ StreamInterrupted(t)
           \/ (\E is429 \in BOOLEAN : Transient(t, is429))
           \/ Backoff(t) \/ StreamFails(t) \/ ToolsUnsupported(t) \/ StreamCompletes(t)
           \/ BadCall(t) \/ Invoke(t) \/ ToolReplied(t) \/ Conclude(t) \/ Terminal(t)
    PROVE  TurnsInv'
<1>0. /\ TypeOK /\ WellTurn(turn[t]) /\ turn[t] \in TurnType
      /\ noTools \subseteq {"chats", "runs"}
  BY DEF TurnsInv, TurnsAccounted, TypeOK, TurnType
<1>f. {"result", "interrupted", "error"} \subseteq Finishes \ {"none"}
  BY DEF Finishes
<1>n. turn[t].queued \in 0..QueueCap /\ QueueCap \in Nat
  BY <1>0, Bounds DEF TurnType
<1>1. CASE Drain(t)
  <2> DEFINE w == [turn[t] EXCEPT !.queued = @ - 1]
  <2>1. turn[t].queued - 1 \in 0..QueueCap
    BY <1>n, <1>1 DEF Drain
  <2>2. w \in TurnType
    BY <1>0, <2>1, Zenon DEF TurnType
  <2>3. turn' = [turn EXCEPT ![t] = w]
    BY <1>0, <1>1 DEF Drain, TypeOK
  <2>4. /\ w.pc = turn[t].pc /\ w.of = turn[t].of /\ w.cancel = turn[t].cancel
        /\ w.calls = turn[t].calls /\ w.reply = turn[t].reply /\ w.legacy = turn[t].legacy
        /\ w.finish = turn[t].finish
    BY <1>0 DEF TurnType
  <2>5. Running(t) /\ turn[t].pc \notin {"closing", "terminal", "release"}
    BY <1>1 DEF Drain, Working
  <2>6. WellTurn(w)
    BY <1>0, <2>4, <2>5 DEF WellTurn, ToolPcs
  <2> HIDE DEF w
  <2> QED
    BY <1>0, <1>1, <2>2, <2>3, <2>4, <2>5, <2>6, TurnMoves
       DEF Drain, HeedPcs, ToolPcs, Heeds, Running, WaitPcs
<1>2. CASE Request(t)
  <2>1. CASE turn' = Concluding(t, "error")
    BY <1>2, <1>f, <2>1, ConcludesKeeps DEF Request
  <2>2. CASE turn' = [turn EXCEPT ![t].pc = "stream"]
    <3> DEFINE w == [turn[t] EXCEPT !.pc = "stream"]
    <3>1. w \in TurnType
      BY <1>0, Zenon DEF TurnType, Pcs
    <3>2. turn' = [turn EXCEPT ![t] = w]
      BY <1>0, <2>2 DEF TypeOK
    <3>3. /\ w.pc = "stream" /\ w.of = turn[t].of /\ w.cancel = turn[t].cancel
          /\ w.calls = turn[t].calls /\ w.reply = turn[t].reply /\ w.legacy = turn[t].legacy
      BY <1>0 DEF TurnType
    <3>4. WellTurn(w) /\ turn[t].pc = "request"
      BY <1>0, <1>2, <3>3 DEF WellTurn, ToolPcs, Request
    <3> HIDE DEF w
    <3> QED
      BY <1>0, <1>2, <3>1, <3>2, <3>3, <3>4, TurnMoves
         DEF Request, HeedPcs, ToolPcs, Heeds, Running, WaitPcs
  <2> QED
    BY <1>2, <2>1, <2>2 DEF Request
<1>3. CASE Delta(t)
  <2>1. turn[t].pc = "stream" /\ ~turn[t].cancel
    BY <1>3 DEF Delta, Streaming
  <2>2. CASE turn[t].queued < QueueCap
    <3> DEFINE w == [turn[t] EXCEPT !.queued = @ + 1, !.shown = TRUE]
    <3>1. turn[t].queued + 1 \in 0..QueueCap
      BY <1>n, <2>2
    <3>2. w \in TurnType
      BY <1>0, <3>1, Zenon DEF TurnType
    <3>3. turn' = [turn EXCEPT ![t] = w]
      BY <1>0, <1>3, <2>2 DEF Delta, TypeOK
    <3>4. /\ w.pc = "stream" /\ w.of = turn[t].of /\ w.cancel = turn[t].cancel
          /\ w.calls = turn[t].calls /\ w.reply = turn[t].reply /\ w.legacy = turn[t].legacy
      BY <1>0, <2>1 DEF TurnType
    <3>5. WellTurn(w)
      BY <1>0, <2>1, <3>4 DEF WellTurn, ToolPcs
    <3> HIDE DEF w
    <3> QED
      BY <1>0, <1>3, <2>1, <3>2, <3>3, <3>4, <3>5, TurnMoves
         DEF Delta, HeedPcs, ToolPcs, Heeds, Running, WaitPcs
  <2>3. CASE ~(turn[t].queued < QueueCap)
    BY <1>3, <2>1, <2>3, OverflowKeeps DEF Delta
  <2> QED
    BY <2>2, <2>3
<1>4. CASE StreamInterrupted(t)
  BY <1>4, <1>f, ConcludesKeeps DEF StreamInterrupted
<1>5. ASSUME NEW is429 \in BOOLEAN, Transient(t, is429) PROVE TurnsInv'
  <2> DEFINE limited == turn[t].limited \/ is429
             exhausted == turn[t].attempt = MaxAttempts
  <2>1. /\ turn[t].pc = "stream" /\ ~turn[t].cancel
        /\ UNCHANGED <<chat, runs, broker, noTools, loop>>
    BY <1>5 DEF Transient, Streaming
  <2>2. CASE exhausted /\ (~limited \/ turn[t].round = MaxRounds)
    BY <1>5, <1>f, <2>1, <2>2, ConcludesKeeps DEF Transient
  <2>3. CASE ~(exhausted /\ (~limited \/ turn[t].round = MaxRounds))
             /\ turn[t].queued = QueueCap
    BY <1>5, <2>1, <2>3, OverflowKeeps DEF Transient
  <2>4. CASE ~(exhausted /\ (~limited \/ turn[t].round = MaxRounds))
             /\ turn[t].queued # QueueCap
    <3> DEFINE q == turn[t].queued + 1
               a == IF exhausted THEN 1 ELSE turn[t].attempt + 1
               r == IF exhausted THEN turn[t].round + 1 ELSE turn[t].round
               l == ~exhausted /\ limited
               w == [turn[t] EXCEPT !.pc = "backoff", !.queued = q, !.attempt = a,
                                    !.round = r, !.limited = l]
    <3>1. q \in 0..QueueCap /\ a \in 1..MaxAttempts /\ r \in 1..MaxRounds
      <4>0. /\ turn[t].attempt \in 1..MaxAttempts /\ turn[t].round \in 1..MaxRounds
            /\ MaxAttempts \in Nat \ {0} /\ MaxRounds \in Nat \ {0}
        BY <1>0, Bounds DEF TurnType
      <4>1. q \in 0..QueueCap
        BY <1>n, <2>4
      <4>2. a \in 1..MaxAttempts
        BY <4>0
      <4>3. r \in 1..MaxRounds
        BY <2>4, <4>0
      <4> QED
        BY <4>1, <4>2, <4>3
    <3>2. l \in BOOLEAN
      OBVIOUS
    <3>3. turn' = [turn EXCEPT ![t].pc = "backoff", ![t].queued = @ + 1,
                    ![t].attempt = IF exhausted THEN 1 ELSE @ + 1,
                    ![t].round = IF exhausted THEN @ + 1 ELSE @,
                    ![t].limited = ~exhausted /\ limited]
      BY <1>5, <2>4 DEF Transient
    <3>4. turn' = [turn EXCEPT ![t] = w]
      BY <1>0, <3>3 DEF TypeOK
    <3> HIDE DEF q, a, r, l
    <3>5. w \in TurnType
      BY <1>0, <3>1, <3>2, Zenon DEF TurnType, Pcs
    <3>6. /\ w.pc = "backoff" /\ w.of = turn[t].of /\ w.cancel = turn[t].cancel
          /\ w.calls = turn[t].calls /\ w.reply = turn[t].reply /\ w.legacy = turn[t].legacy
      BY <1>0 DEF TurnType
    <3>7. WellTurn(w)
      BY <1>0, <2>1, <3>6 DEF WellTurn, ToolPcs
    <3> HIDE DEF w
    <3> QED
      BY <1>0, <2>1, <3>4, <3>5, <3>6, <3>7, TurnMoves
         DEF HeedPcs, ToolPcs, Heeds, Running, WaitPcs
  <2> QED
    BY <2>2, <2>3, <2>4
<1>6. CASE Backoff(t)
  <2> DEFINE w == [turn[t] EXCEPT !.pc = "stream"]
  <2>1. w \in TurnType
    BY <1>0, Zenon DEF TurnType, Pcs
  <2>2. turn' = [turn EXCEPT ![t] = w]
    BY <1>0, <1>6 DEF Backoff, TypeOK
  <2>3. /\ w.pc = "stream" /\ w.of = turn[t].of /\ w.cancel = turn[t].cancel
        /\ w.calls = turn[t].calls /\ w.reply = turn[t].reply /\ w.legacy = turn[t].legacy
    BY <1>0 DEF TurnType
  <2>4. WellTurn(w) /\ turn[t].pc = "backoff"
    BY <1>0, <1>6, <2>3 DEF WellTurn, ToolPcs, Backoff
  <2> HIDE DEF w
  <2> QED
    BY <1>0, <1>6, <2>1, <2>2, <2>3, <2>4, TurnMoves
       DEF Backoff, HeedPcs, ToolPcs, Heeds, Running, WaitPcs
<1>7. CASE StreamFails(t)
  BY <1>7, <1>f, ConcludesKeeps DEF StreamFails, Streaming
<1>8. CASE ToolsUnsupported(t)
  <2> DEFINE w == [Responded(t) EXCEPT !.pc = "request"]
  <2>1. /\ Responded(t) \in TurnType /\ Responded(t).of = turn[t].of
        /\ Responded(t).cancel = turn[t].cancel /\ Responded(t).calls = turn[t].calls
        /\ Responded(t).reply = turn[t].reply /\ Responded(t).legacy = turn[t].legacy
    <3>1. 1 \in 1..MaxAttempts /\ 1 \in 1..MaxRounds
      BY Bounds
    <3> QED
      BY <1>0, <3>1, Zenon DEF TurnType, Responded
  <2>2. w \in TurnType
    BY <2>1, Zenon DEF TurnType, Pcs
  <2>3. turn' = [turn EXCEPT ![t] = w]
    BY <1>8 DEF ToolsUnsupported
  <2>4. /\ w.pc = "request" /\ w.of = turn[t].of /\ w.cancel = turn[t].cancel
        /\ w.calls = turn[t].calls /\ w.reply = turn[t].reply /\ w.legacy = turn[t].legacy
    BY <2>1 DEF TurnType
  <2>5. WellTurn(w) /\ turn[t].pc = "stream"
    BY <1>0, <1>8, <2>4 DEF WellTurn, ToolPcs, ToolsUnsupported, Streaming
  <2>6. noTools' \subseteq {"chats", "runs"}
    BY <1>0, <1>8 DEF ToolsUnsupported, Side
  <2> HIDE DEF w
  <2> QED
    BY <1>0, <1>8, <2>2, <2>3, <2>4, <2>5, <2>6, TurnMoves
       DEF ToolsUnsupported, HeedPcs, ToolPcs, Heeds, Running, WaitPcs
<1>9. CASE StreamCompletes(t)
  BY <1>9, <1>f, ConcludesKeeps DEF StreamCompletes, Streaming
<1>10. CASE BadCall(t)
  <2> DEFINE w == [turn[t] EXCEPT !.pc = "report"]
  <2>1. w \in TurnType
    BY <1>0, Zenon DEF TurnType, Pcs
  <2>2. turn' = [turn EXCEPT ![t] = w]
    BY <1>0, <1>10 DEF BadCall, TypeOK
  <2>3. /\ w.pc = "report" /\ w.of = turn[t].of /\ w.cancel = turn[t].cancel
        /\ w.calls = turn[t].calls /\ w.reply = turn[t].reply /\ w.legacy = turn[t].legacy
    BY <1>0 DEF TurnType
  <2>4. WellTurn(w) /\ turn[t].pc = "tool"
    BY <1>0, <1>10, <2>3 DEF WellTurn, ToolPcs, BadCall
  <2> HIDE DEF w
  <2> QED
    BY <1>0, <1>10, <2>1, <2>2, <2>3, <2>4, TurnMoves
       DEF BadCall, HeedPcs, ToolPcs, Heeds, Running, WaitPcs
<1>11. CASE Invoke(t)
  <2> DEFINE w == [turn[t] EXCEPT !.pc = "await"]
  <2>1. w \in TurnType
    BY <1>0, Zenon DEF TurnType, Pcs
  <2>2. turn' = [turn EXCEPT ![t] = w]
    BY <1>0, <1>11 DEF Invoke, TypeOK
  <2>3. /\ w.pc = "await" /\ w.of = turn[t].of /\ w.cancel = turn[t].cancel
        /\ w.calls = turn[t].calls /\ w.reply = turn[t].reply /\ w.legacy = turn[t].legacy
    BY <1>0 DEF TurnType
  <2>4. WellTurn(w) /\ turn[t].pc = "invoke"
    BY <1>0, <1>11, <2>3 DEF WellTurn, ToolPcs, Invoke
  <2> HIDE DEF w
  <2> QED
    BY <1>0, <1>11, <2>1, <2>2, <2>3, <2>4, TurnMoves
       DEF Invoke, HeedPcs, ToolPcs, Heeds, Running, WaitPcs
<1>12. CASE ToolReplied(t)
  <2> DEFINE w == [turn[t] EXCEPT !.pc = "report", !.reply = "none"]
  <2>1. w \in TurnType
    BY <1>0, Zenon DEF TurnType, Pcs
  <2>2. turn' = [turn EXCEPT ![t] = w]
    BY <1>0, <1>12 DEF ToolReplied, TypeOK
  <2>3. /\ w.pc = "report" /\ w.of = turn[t].of /\ w.cancel = turn[t].cancel
        /\ w.calls = turn[t].calls /\ w.legacy = turn[t].legacy
    BY <1>0 DEF TurnType
  <2>4. WellTurn(w) /\ turn[t].pc = "await" /\ turn[t].reply # "none"
    BY <1>0, <1>12, <2>3 DEF WellTurn, ToolPcs, ToolReplied
  <2> HIDE DEF w
  <2> QED
    BY <1>0, <1>12, <2>1, <2>2, <2>3, <2>4, TurnMoves
       DEF ToolReplied, HeedPcs, ToolPcs, Heeds, Running, WaitPcs
<1>13. CASE Conclude(t)
  <2> DEFINE w == [Closing(t) EXCEPT !.terminal = turn[t].finish]
  <2>1. /\ w \in TurnType /\ w.pc = "closing" /\ w.of = turn[t].of
        /\ w.calls = <<>> /\ ~w.legacy
        /\ w.terminal = turn[t].finish /\ ~w.failed
    <3>1. turn[t].finish \in Finishes
      BY <1>0 DEF TurnType
    <3>a. Closing(t) \in TurnType
      BY <1>0, ClosingFacts
    <3>2. w \in TurnType
      BY <3>1, <3>a, Zenon DEF TurnType
    <3> QED
      BY <1>0, <3>2, ClosingFacts DEF TurnType
  <2>2. turn' = [turn EXCEPT ![t] = w]
    BY <1>13 DEF Conclude
  <2> HIDE DEF w
  <2>3. WellTurn(w) /\ turn[t].pc = "conclude"
    BY <1>0, <1>13, <2>1 DEF WellTurn, ToolPcs, Conclude
  <2> QED
    BY <1>0, <1>13, <2>1, <2>2, <2>3, TurnMoves
       DEF Conclude, WellTurn, HeedPcs, ToolPcs, Running, WaitPcs
<1>14. CASE Terminal(t)
  <2> DEFINE x == IF turn[t].failed /\ ~Cut(t) THEN "admission" ELSE turn[t].terminal
             w == [turn[t] EXCEPT !.pc = "release", !.terminal = x]
  <2>1. x \in Finishes \cup {"admission"}
    BY <1>0 DEF TurnType
  <2>2. turn' = [turn EXCEPT ![t] = w]
    BY <1>0, <1>14 DEF Terminal, TypeOK
  <2>3. /\ turn[t].failed => x \in {turn[t].terminal, "admission"}
        /\ ~turn[t].failed => x = turn[t].terminal
        /\ turn[t].failed /\ x = "none" => turn[t].suppress \/ ~Dispatching
    BY DEF Cut
  <2> HIDE DEF x
  <2>4. w \in TurnType
    BY <1>0, <2>1, Zenon DEF TurnType, Pcs
  <2>5. /\ w.pc = "release" /\ w.of = turn[t].of /\ w.cancel = turn[t].cancel
        /\ w.calls = turn[t].calls /\ w.legacy = turn[t].legacy /\ w.terminal = x
        /\ w.failed = turn[t].failed /\ w.suppress = turn[t].suppress
    BY <1>0 DEF TurnType
  <2>6. turn[t].pc = "terminal"
    BY <1>14 DEF Terminal
  <2>7. WellTurn(w)
    BY <1>0, <2>3, <2>5, <2>6 DEF WellTurn, ToolPcs
  <2> HIDE DEF w
  <2> QED
    BY <1>0, <1>14, <2>2, <2>4, <2>5, <2>6, <2>7, TurnMoves
       DEF Terminal, HeedPcs, ToolPcs, Running, WaitPcs
<1> QED
  BY <1>1, <1>2, <1>3, <1>4, <1>5, <1>6, <1>7, <1>8, <1>9, <1>10, <1>11, <1>12, <1>13,
     <1>14

-----------------------------------------------------------------------------
(* A turn is cut off, or its response asks for tools. *)

\* The work of a turn is dropped: the calls it had not answered are left.
LEMMA CutKeeps ==
    ASSUME TurnsInv, NEW t \in TurnIds, PublisherStops(t) \/ OutputRefused(t)
    PROVE  TurnsInv'
<1>0. /\ TypeOK /\ WellTurn(turn[t]) /\ \A u \in TurnIds : WellTurn(turn[u])
      /\ Dispatching' = Dispatching /\ UNCHANGED <<runs, broker, noTools, loop>>
  BY DEF TurnsInv, TurnsAccounted, PublisherStops, OutputRefused, Dispatching
<1>1. /\ Running(t) /\ turn[t].pc \notin {"closing", "terminal", "release"}
      /\ chat' = Abandoned(t)
  BY DEF PublisherStops, OutputRefused, Working
<1>2. PICK failed \in BOOLEAN : turn' = Dropped(t, failed) /\ (failed \/ Cut(t))
  BY DEF PublisherStops, OutputRefused
<1>3. PICK w \in TurnType :
            /\ turn' = [turn EXCEPT ![t] = w]
            /\ w.pc = "closing" /\ w.of = turn[t].of /\ w.suppress = turn[t].suppress
            /\ w.calls = <<>> /\ ~w.legacy /\ w.failed = failed /\ w.terminal = "none"
  BY <1>0, <1>2, DroppedFacts
<1>4. /\ turn'[t] = w
      /\ \A u \in TurnIds : u # t => turn'[u] = turn[u]
      /\ turn' \in [TurnIds -> TurnType]
  BY <1>0, <1>3 DEF TypeOK, TurnType
<1>5. \A u \in TurnIds : WellTurn(turn[u])'
  <2>1. WellTurn(w)
    BY <1>0, <1>1, <1>2, <1>3 DEF WellTurn, ToolPcs, Running, Cut
  <2> QED
    BY <1>0, <1>4, <2>1 DEF WellTurn
<1>6. chat \in [Chats -> ChatType] /\ \A c \in Chats : chat[c].left \subseteq chat[c].open
  BY <1>0 DEF TypeOK, ChatType
<1>7. /\ chat' \in [Chats -> ChatType]
      /\ \A c \in Chats :
            /\ chat'[c].slot = chat[c].slot /\ chat'[c].restored = chat[c].restored
            /\ chat'[c].open = chat[c].open /\ chat[c].left \subseteq chat'[c].left
            /\ chat'[c].left \subseteq chat'[c].open
            /\ turn[t].of = c =>
                    Range(turn[t].calls) \cap chat[c].open \subseteq chat'[c].left
  <2>1. CASE IsDirect(t)
    <3>1. turn[t].calls = <<>> /\ turn[t].of \notin Chats
      BY <1>0, <2>1, Bounds DEF WellTurn, IsDirect
    <3>2. chat' = chat
      BY <1>1, <2>1 DEF Abandoned
    <3> QED
      BY <1>6, <3>1, <3>2
  <2>2. CASE ~IsDirect(t)
    <3> DEFINE c == turn[t].of
               l == chat[c].left \cup (Range(turn[t].calls) \cap chat[c].open)
               ch == [chat[c] EXCEPT !.left = l]
    <3>1. c \in Chats
      BY <1>0, <1>1, <2>2 DEF WellTurn, IsDirect, Running, TypeOK
    <3>2. chat' = [chat EXCEPT ![c] = ch]
      BY <1>1, <1>6, <2>2, <3>1 DEF Abandoned
    <3>3. l \subseteq chat[c].open /\ l \in SUBSET Ids /\ chat[c] \in ChatType
      BY <1>6, <3>1 DEF ChatType
    <3>4. Range(turn[t].calls) \cap chat[c].open \subseteq l /\ chat[c].left \subseteq l
      OBVIOUS
    <3> HIDE DEF l
    <3>5. /\ ch \in ChatType /\ ch.left = l /\ ch.slot = chat[c].slot
          /\ ch.restored = chat[c].restored /\ ch.open = chat[c].open
      BY <3>3 DEF ChatType
    <3> HIDE DEF ch, c
    <3>6. /\ chat'[c] = ch /\ \A d \in Chats : d # c => chat'[d] = chat[d]
          /\ chat' \in [Chats -> ChatType]
      BY <1>6, <3>1, <3>2, <3>5
    <3> QED
      BY <1>6, <3>3, <3>4, <3>5, <3>6 DEF c
  <2> QED
    BY <2>1, <2>2
<1>8. TypeOK'
  BY <1>0, <1>4, <1>7 DEF TypeOK, TurnType, ChatType
<1>9. BusyMeansRunning' /\ RestoredVacant'
  <2>1. \A u \in TurnIds : /\ turn'[u].of = turn[u].of /\ (Running(u)' <=> Running(u))
                           /\ (Heeds(u)' /\ ~turn'[u].cancel => Heeds(u) /\ ~turn[u].cancel)
    BY <1>1, <1>3, <1>4 DEF Running, Heeds
  <2> QED
    BY <1>0, <1>7, <2>1, OwnersKept
<1>10. WaitersMatch' /\ RepliesTaken'
  <2>1. "closing" \notin WaitPcs
    BY DEF WaitPcs
  <2> QED
    BY <1>0, <1>1, <1>3, <1>4, <2>1, WaitersKept
<1>11. CallsAreAnswered'
  BY <1>4, <1>7, CallsKept
<1>12. EveryTurnAnswers'
  BY <1>5 DEF WellTurn, EveryTurnAnswers
<1> QED
  BY <1>5, <1>8, <1>9, <1>10, <1>11, <1>12 DEF TurnsInv, TurnsAccounted


\* The record of a chat after one of the edits of its history.
LEMMA ChatEdited ==
    ASSUME TypeOK, NEW c \in Chats, NEW ch \in ChatType, ch.left \subseteq ch.open,
           chat' = [chat EXCEPT ![c] = ch]
    PROVE  /\ chat' \in [Chats -> ChatType] /\ chat'[c] = ch
           /\ \A d \in Chats : d # c => chat'[d] = chat[d]
           /\ \A d \in Chats : chat'[d].left \subseteq chat'[d].open
<1>1. chat \in [Chats -> ChatType] /\ \A d \in Chats : chat[d].left \subseteq chat[d].open
  BY DEF TypeOK, ChatType
<1>2. /\ chat' \in [Chats -> ChatType] /\ chat'[c] = ch
      /\ \A d \in Chats : d # c => chat'[d] = chat[d]
  BY <1>1
<1> QED
  BY <1>1, <1>2

\* Chats::append_for_model of the messages a turn or the caller appends.
LEMMA HistoryEdits ==
    ASSUME NEW ch \in ChatType, ch.left \subseteq ch.open, NEW ids \in SUBSET Ids
    PROVE  /\ Asked(ch, ids) \in ChatType /\ Asked(ch, ids).open = ch.open \cup ids
           /\ Asked(ch, ids).left = ch.left /\ Asked(ch, ids).slot = ch.slot
           /\ ~Asked(ch, ids).restored
           /\ Answered(ch, ids) \in ChatType /\ Answered(ch, ids).open = ch.open \ ids
           /\ Answered(ch, ids).left = ch.left \ ids /\ Answered(ch, ids).slot = ch.slot
           /\ Answered(ch, ids).restored => ch.restored
<1>1. /\ Asked(ch, ids) \in ChatType /\ Asked(ch, ids).open = ch.open \cup ids
      /\ Asked(ch, ids).left = ch.left /\ Asked(ch, ids).slot = ch.slot
      /\ ~Asked(ch, ids).restored
  BY DEF Asked, ChatType
<1>2. /\ Answered(ch, ids) \in ChatType /\ Answered(ch, ids).open = ch.open \ ids
      /\ Answered(ch, ids).left = ch.left \ ids /\ Answered(ch, ids).slot = ch.slot
      /\ Answered(ch, ids).restored => ch.restored
  <2> DEFINE o == ch.open \ ids
             l == ch.left \ ids
             r == ch.restored /\ ids \cap ch.open = {}
             a == [ch EXCEPT !.open = o, !.left = l, !.restored = r]
  <2>1. o \in SUBSET Ids /\ l \in SUBSET Ids
    BY DEF ChatType
  <2>2. r \in BOOLEAN
    OBVIOUS
  <2>3. Answered(ch, ids) = a
    BY DEF Answered
  <2>4. r => ch.restored
    OBVIOUS
  <2> HIDE DEF o, l, r
  <2>5. a \in ChatType /\ a.open = o /\ a.left = l /\ a.slot = ch.slot /\ a.restored = r
    BY <2>1, <2>2, Zenon DEF ChatType
  <2> HIDE DEF a
  <2> QED
    BY <2>3, <2>4, <2>5 DEF o, l
<1> QED
  BY <1>1, <1>2

\* A response with tool calls: its calls are open, for the turn that is going
\* to run them or left to the caller.
LEMMA CallsOpenKeeps ==
    ASSUME TurnsInv, NEW t \in TurnIds, NEW calls \in Batches,
           StreamCompletesWithCalls(t, calls)
    PROVE  TurnsInv'
<1>0. /\ TypeOK /\ WellTurn(turn[t]) /\ \A u \in TurnIds : WellTurn(turn[u])
      /\ Dispatching' = Dispatching /\ UNCHANGED <<runs, broker, noTools, loop>>
      /\ CallsAreAnswered
  BY DEF TurnsInv, TurnsAccounted, StreamCompletesWithCalls, Dispatching
<1>1. turn[t].pc = "stream" /\ ~turn[t].cancel /\ turn[t] \in TurnType
  BY <1>0 DEF StreamCompletesWithCalls, Streaming, TypeOK, TurnType
<1>2. calls \in Seq(Ids) /\ calls # <<>> /\ Range(calls) \in SUBSET Ids
  BY BoundsAssumption DEF Range
<1>3. turn[t].calls = <<>> /\ turn[t].of # None
  BY <1>0, <1>1 DEF WellTurn, ToolPcs
<1>4. \E w \in TurnType :
            /\ turn' = [turn EXCEPT ![t] = w] /\ w.of = turn[t].of
            /\ w.pc = IF turn[t].legacy THEN "tool" ELSE "conclude"
            /\ w.calls = IF turn[t].legacy THEN calls ELSE <<>>
            /\ WellTurn(w)
  <2>1. CASE turn[t].legacy
    <3> DEFINE w == [Responded(t) EXCEPT !.pc = "tool", !.calls = calls]
    <3>1. Responded(t) \in TurnType /\ Responded(t).of = turn[t].of
      <4>1. 1 \in 1..MaxAttempts /\ 1 \in 1..MaxRounds
        BY Bounds
      <4> QED
        BY <1>1, <4>1, Zenon DEF TurnType, Responded
    <3>2. w \in TurnType
      BY <1>2, <3>1, Zenon DEF TurnType, Pcs
    <3>3. w.pc = "tool" /\ w.of = turn[t].of /\ w.calls = calls
      BY <3>1 DEF TurnType
    <3>4. turn' = [turn EXCEPT ![t] = w]
      BY <2>1 DEF StreamCompletesWithCalls
    <3> HIDE DEF w
    <3>5. turn[t].of \in Chats
      BY <1>0, <2>1 DEF WellTurn
    <3>6. WellTurn(w)
      BY <1>2, <1>3, <3>3, <3>5 DEF WellTurn, ToolPcs
    <3> QED
      BY <2>1, <3>2, <3>3, <3>4, <3>6
  <2>2. CASE ~turn[t].legacy
    <3>1. turn' = Concluding(t, "result") /\ "result" \in Finishes
      BY <2>2 DEF StreamCompletesWithCalls, Finishes
    <3>2. PICK w \in TurnType :
            /\ turn' = [turn EXCEPT ![t] = w]
            /\ w.pc = "conclude" /\ w.of = turn[t].of
            /\ w.calls = <<>> /\ ~w.legacy /\ w.finish = "result"
      BY <1>0, <3>1, ConcludingFacts
    <3>3. WellTurn(w)
      BY <1>3, <3>2 DEF WellTurn, ToolPcs
    <3> QED
      BY <2>2, <3>2, <3>3
  <2> QED
    BY <2>1, <2>2
<1>5. PICK w \in TurnType :
            /\ turn' = [turn EXCEPT ![t] = w] /\ w.of = turn[t].of
            /\ w.pc = IF turn[t].legacy THEN "tool" ELSE "conclude"
            /\ w.calls = IF turn[t].legacy THEN calls ELSE <<>>
            /\ WellTurn(w)
  BY <1>4
<1>6. /\ turn'[t] = w
      /\ \A u \in TurnIds : u # t => turn'[u] = turn[u]
      /\ turn' \in [TurnIds -> TurnType]
  BY <1>0, <1>5 DEF TypeOK, TurnType
<1>7. \A u \in TurnIds : WellTurn(turn[u])'
  BY <1>0, <1>5, <1>6 DEF WellTurn
<1>8. /\ chat' \in [Chats -> ChatType]
      /\ \A c \in Chats :
            /\ chat'[c].left \subseteq chat'[c].open
            /\ chat'[c].slot = chat[c].slot /\ (chat'[c].restored => chat[c].restored)
            /\ \A i \in chat'[c].open \ chat'[c].left :
                    \/ i \in chat[c].open \ chat[c].left
                    \/ turn[t].legacy /\ turn[t].of = c /\ i \in Range(calls)
  <2>0. chat \in [Chats -> ChatType] /\ \A d \in Chats : chat[d].left \subseteq chat[d].open
    BY <1>0 DEF TypeOK, ChatType
  <2>1. CASE IsDirect(t) \/ chat[turn[t].of].slot = None
    <3>1. chat' = chat
      BY <2>1 DEF StreamCompletesWithCalls
    <3> QED
      BY <2>0, <3>1
  <2>2. CASE ~(IsDirect(t) \/ chat[turn[t].of].slot = None)
    <3> DEFINE c == turn[t].of
               a == Asked(chat[c], Range(calls))
               l == IF turn[t].legacy THEN chat[c].left \ Range(calls)
                    ELSE chat[c].left \cup Range(calls)
               ch == [a EXCEPT !.left = l]
    <3>1. c \in Chats /\ chat[c] \in ChatType
      BY <1>0, <1>3, <2>0, <2>2 DEF IsDirect, TypeOK
    <3>2. a \in ChatType /\ a.open = chat[c].open \cup Range(calls)
          /\ a.left = chat[c].left /\ a.slot = chat[c].slot /\ ~a.restored
      BY <1>2, <2>0, <3>1, HistoryEdits
    <3>3. chat' = [chat EXCEPT ![c] = ch]
      <4>1. chat' = [chat EXCEPT ![c] =
                        [a EXCEPT !.left = IF turn[t].legacy THEN a.left \ Range(calls)
                                           ELSE a.left \cup Range(calls)]]
        BY <2>2 DEF StreamCompletesWithCalls
      <4> HIDE DEF a
      <4> QED
        BY <3>2, <4>1
    <3> HIDE DEF a, c
    <3>4. l \in SUBSET Ids
      BY <1>2, <3>1 DEF ChatType
    <3>5. /\ l \subseteq a.open
          /\ \A i \in a.open \ l : \/ i \in chat[c].open \ chat[c].left
                                   \/ turn[t].legacy /\ i \in Range(calls)
      BY <2>0, <3>1, <3>2
    <3> HIDE DEF l
    <3>6. /\ ch \in ChatType /\ ch.left = l /\ ch.open = a.open /\ ch.slot = a.slot
          /\ ~ch.restored
      BY <3>2, <3>4 DEF ChatType
    <3> HIDE DEF ch
    <3>7. /\ chat' \in [Chats -> ChatType] /\ chat'[c] = ch
          /\ \A d \in Chats : d # c => chat'[d] = chat[d]
          /\ \A d \in Chats : chat'[d].left \subseteq chat'[d].open
      BY <1>0, <3>1, <3>3, <3>5, <3>6, ChatEdited
    <3> QED
      BY <3>2, <3>5, <3>6, <3>7 DEF c
  <2> QED
    BY <2>1, <2>2
<1>9. TypeOK'
  BY <1>0, <1>6, <1>8 DEF TypeOK, TurnType, ChatType
<1>10. BusyMeansRunning' /\ RestoredVacant'
  <2>1. \A u \in TurnIds : /\ turn'[u].of = turn[u].of /\ (Running(u)' <=> Running(u))
                           /\ (Heeds(u)' /\ ~turn'[u].cancel => Heeds(u) /\ ~turn[u].cancel)
    BY <1>1, <1>5, <1>6 DEF Running, Heeds
  <2> QED
    BY <1>0, <1>8, <2>1, OwnersKept
<1>11. WaitersMatch' /\ RepliesTaken'
  <2>1. "tool" \notin WaitPcs /\ "conclude" \notin WaitPcs /\ "stream" \notin WaitPcs
    BY DEF WaitPcs
  <2> QED
    BY <1>0, <1>1, <1>5, <1>6, <2>1, WaitersKept
<1>12. CallsAreAnswered'
  <2> SUFFICES ASSUME NEW c \in Chats, NEW i \in chat'[c].open \ chat'[c].left
               PROVE  \E u \in TurnIds : turn'[u].of = c /\ i \in Range(turn'[u].calls)
    BY DEF CallsAreAnswered
  <2>1. CASE turn[t].legacy /\ turn[t].of = c /\ i \in Range(calls)
    BY <1>5, <1>6, <2>1
  <2>2. CASE i \in chat[c].open \ chat[c].left
    <3>1. PICK u \in TurnIds : turn[u].of = c /\ i \in Range(turn[u].calls)
      BY <1>0, <2>2 DEF CallsAreAnswered
    <3>2. u # t
      BY <1>3, <3>1 DEF Range
    <3> QED
      BY <1>6, <3>1, <3>2
  <2> QED
    BY <1>8, <2>1, <2>2
<1>13. EveryTurnAnswers'
  BY <1>7 DEF WellTurn, EveryTurnAnswers
<1> QED
  BY <1>7, <1>9, <1>10, <1>11, <1>12, <1>13 DEF TurnsInv, TurnsAccounted


-----------------------------------------------------------------------------
(* The broker. *)

\* The entry of one id changes: to none, or to a turn that begins to wait for
\* that id.  Whoever was registered there, if it still waits, has a reply now.
LEMMA EntryChanges ==
    ASSUME TurnsInv, NEW i \in Ids, NEW v \in TurnIds \cup {None},
           broker' = [broker EXCEPT ![i] = v],
           \A u \in TurnIds :
                /\ turn'[u].of = turn[u].of
                /\ turn'[u].pc \in WaitPcs =>
                      \/ u = v /\ turn'[u].reply = "none" /\ Head(turn'[u].calls) = i
                      \/ /\ u # v /\ turn[u].pc \in WaitPcs /\ turn'[u].calls = turn[u].calls
                         /\ u = broker[i] => turn'[u].reply # "none"
                         /\ u # broker[i] => turn'[u].reply = turn[u].reply
                /\ turn[u].pc \in WaitPcs /\ turn'[u].pc \notin WaitPcs =>
                      Head(turn[u].calls) = i
                /\ turn[u].pc = "closing" => turn'[u].pc = "closing",
           v # None => /\ turn'[v].pc \in WaitPcs /\ turn'[v].reply = "none"
                       /\ Head(turn'[v].calls) = i
                       /\ turn[v].pc \notin WaitPcs \cup {"closing"} /\ turn[v].of \in Chats
    PROVE  WaitersMatch' /\ RepliesTaken'
<1>0. TypeOK /\ WaitersRegistered /\ NoWaiterLeaks /\ RepliesTaken /\ None \notin TurnIds
  BY Bounds DEF TurnsInv, TurnsAccounted, WaitersMatch
<1>1. /\ broker \in [Ids -> TurnIds \cup {None}] /\ broker'[i] = v
      /\ \A j \in Ids : j # i => broker'[j] = broker[j]
  BY <1>0 DEF TypeOK
<1>2. \A u \in TurnIds : turn[u].pc \in WaitPcs => Head(turn[u].calls) \in Ids
  <2>1. \A u \in TurnIds : turn[u].pc \in WaitPcs => turn[u].calls \in Seq(Ids) \ {<<>>}
    BY <1>0 DEF TurnsInv, WellTurn, TypeOK, WaitPcs, ToolPcs
  <2> QED
    BY <2>1
<1>3. \A j \in Ids : broker[j] # None =>
            \/ turn[broker[j]].pc \in WaitPcs /\ Head(turn[broker[j]].calls) = j
            \/ turn[broker[j]].pc = "closing"
  BY <1>0 DEF NoWaiterLeaks, WaitPcs
<1>4. WaitersRegistered'
  <2> SUFFICES ASSUME NEW u \in TurnIds, turn'[u].pc \in WaitPcs, turn'[u].reply = "none"
               PROVE  broker'[Head(turn'[u].calls)] = u
    BY DEF WaitersRegistered, WaitPcs
  <2>1. CASE u = v
    BY <1>1, <2>1
  <2>2. CASE u # v
    <3>1. turn[u].pc \in WaitPcs /\ turn[u].reply = "none" /\ u # broker[i]
          /\ turn'[u].calls = turn[u].calls
      BY <2>2
    <3>2. broker[Head(turn[u].calls)] = u
      BY <1>0, <3>1 DEF WaitersRegistered, WaitPcs
    <3> QED
      BY <1>1, <1>2, <3>1, <3>2
  <2> QED
    BY <2>1, <2>2
<1>5. NoWaiterLeaks'
  <2> SUFFICES ASSUME NEW j \in Ids, broker'[j] # None
               PROVE  \/ turn'[broker'[j]].pc \in WaitPcs /\ Head(turn'[broker'[j]].calls) = j
                      \/ turn'[broker'[j]].pc = "closing"
    BY DEF NoWaiterLeaks, WaitPcs
  <2>1. CASE j = i
    BY <1>1, <2>1
  <2>2. CASE j # i
    <3>1. broker'[j] = broker[j] /\ broker[j] # None /\ broker[j] \in TurnIds
      BY <1>1, <2>2
    <3>2. CASE turn[broker[j]].pc = "closing"
      BY <3>1, <3>2
    <3>3. CASE turn[broker[j]].pc \in WaitPcs /\ Head(turn[broker[j]].calls) = j
      <4>1. turn'[broker[j]].pc \in WaitPcs
        BY <2>2, <3>1, <3>3
      <4>2. broker[j] # v
        BY <1>0, <3>1, <3>3
      <4>3. turn'[broker[j]].calls = turn[broker[j]].calls
        BY <3>1, <4>1, <4>2
      <4> QED
        BY <3>1, <3>3, <4>1, <4>3
    <3> QED
      BY <1>3, <3>1, <3>2, <3>3
  <2> QED
    BY <2>1, <2>2
<1>6. RepliesTaken'
  <2>1. ASSUME NEW u \in TurnIds, turn'[u].pc \in WaitPcs, turn'[u].reply # "none"
        PROVE  broker'[Head(turn'[u].calls)] # u
    <3>1. u # v /\ turn[u].pc \in WaitPcs /\ turn'[u].calls = turn[u].calls
      BY <2>1
    <3>2. CASE u = broker[i]
      <4>1. Head(turn[u].calls) = i
        BY <1>0, <1>3, <3>1, <3>2 DEF WaitPcs
      <4> QED
        BY <1>1, <3>1, <4>1
    <3>3. CASE u # broker[i]
      <4>1. turn[u].reply # "none"
        BY <2>1, <3>1, <3>3
      <4>2. broker[Head(turn[u].calls)] # u
        BY <1>0, <3>1, <4>1 DEF RepliesTaken
      <4> QED
        BY <1>1, <1>2, <3>1, <4>2
    <3> QED
      BY <3>2, <3>3
  <2>2. ASSUME NEW j \in Ids, broker'[j] # None
        PROVE  turn'[broker'[j]].of \in Chats
    <3>1. CASE j = i
      BY <1>1, <2>2, <3>1
    <3>2. CASE j # i
      BY <1>0, <1>1, <2>2, <3>2 DEF RepliesTaken
    <3> QED
      BY <3>1, <3>2
  <2> QED
    BY <2>1, <2>2 DEF RepliesTaken
<1> QED
  BY <1>4, <1>5, <1>6 DEF WaitersMatch

\* The waiter that loses its place is told so, and nothing else happens to it.
LEMMA DisplacedFacts ==
    ASSUME TypeOK, NEW i \in Ids
    PROVE  /\ Displaced(i) \in [TurnIds -> TurnType]
           /\ \A u \in TurnIds :
                /\ Displaced(i)[u].pc = turn[u].pc /\ Displaced(i)[u].of = turn[u].of
                /\ Displaced(i)[u].calls = turn[u].calls
                /\ Displaced(i)[u].legacy = turn[u].legacy
                /\ Displaced(i)[u].cancel = turn[u].cancel
                /\ Displaced(i)[u].suppress = turn[u].suppress
                /\ Displaced(i)[u].finish = turn[u].finish
                /\ Displaced(i)[u].terminal = turn[u].terminal
                /\ Displaced(i)[u].failed = turn[u].failed
                /\ Displaced(i)[u].reply =
                        IF u = broker[i] /\ turn[u].pc \in WaitPcs THEN "closed"
                        ELSE turn[u].reply
                /\ turn[u].pc \notin WaitPcs => Displaced(i)[u] = turn[u]
<1>0. /\ turn \in [TurnIds -> TurnType] /\ None \notin TurnIds
      /\ broker \in [Ids -> TurnIds \cup {None}]
  BY Bounds DEF TypeOK, TurnType
<1>1. CASE broker[i] # None /\ turn[broker[i]].pc \in WaitPcs
  <2> DEFINE b == broker[i]
             w == [turn[b] EXCEPT !.reply = "closed"]
  <2>1. b \in TurnIds /\ turn[b] \in TurnType
    BY <1>0, <1>1
  <2>2. Displaced(i) = [turn EXCEPT ![b] = w]
    BY <1>0, <1>1, <2>1 DEF Displaced, WaitPcs
  <2>3. /\ w \in TurnType /\ w.reply = "closed" /\ w.pc = turn[b].pc /\ w.of = turn[b].of
        /\ w.calls = turn[b].calls /\ w.legacy = turn[b].legacy
        /\ w.cancel = turn[b].cancel /\ w.suppress = turn[b].suppress
        /\ w.finish = turn[b].finish /\ w.terminal = turn[b].terminal
        /\ w.failed = turn[b].failed
    BY <2>1 DEF TurnType
  <2> HIDE DEF w
  <2>4. /\ Displaced(i) \in [TurnIds -> TurnType] /\ Displaced(i)[b] = w
        /\ \A u \in TurnIds : u # b => Displaced(i)[u] = turn[u]
    BY <1>0, <2>1, <2>2, <2>3
  <2> QED
    BY <1>1, <2>3, <2>4
<1>2. CASE ~(broker[i] # None /\ turn[broker[i]].pc \in WaitPcs)
  <2>1. Displaced(i) = turn
    BY <1>2 DEF Displaced, WaitPcs
  <2> QED
    BY <1>0, <1>2, <2>1
<1> QED
  BY <1>1, <1>2

\* Register, or take back, at the broker: a turn at one of its tools moves on
\* and the entry of that tool's id changes with it.
LEMMA ToolEntryKeeps ==
    ASSUME TurnsInv, NEW t \in TurnIds, turn[t].pc \in {"tool", "await"},
           NEW w \in TurnType, NEW v \in {t, None},
           broker' = [broker EXCEPT ![Head(turn[t].calls)] = v],
           turn' = [Displaced(Head(turn[t].calls)) EXCEPT ![t] = w],
           UNCHANGED <<runs, noTools, loop>>,
           v = t => /\ turn[t].pc = "tool" /\ w.pc = "invoke" /\ w.reply = "none"
                    /\ w.calls = turn[t].calls,
           v = None => turn[t].pc = "await" /\ w.pc \notin WaitPcs,
           w.pc \notin {"unused", "ended"}, w.of = turn[t].of, WellTurn(w),
           w.pc \in HeedPcs => w.cancel = turn[t].cancel,
           chat' \in [Chats -> ChatType],
           \A c \in Chats :
                /\ chat'[c].left \subseteq chat'[c].open
                /\ chat'[c].restored => chat[c].restored
                /\ chat'[c].slot = chat[c].slot
                /\ \A i \in chat'[c].open \ chat'[c].left :
                      /\ i \in chat[c].open \ chat[c].left
                      /\ turn[t].of = c /\ i \in Range(turn[t].calls) =>
                            i \in Range(w.calls)
    PROVE  TurnsInv'
<1> DEFINE i == Head(turn[t].calls)
<1>0. /\ TypeOK /\ NoWaiterLeaks /\ \A u \in TurnIds : WellTurn(turn[u])
      /\ Dispatching' = Dispatching /\ None \notin TurnIds
  BY Bounds DEF TurnsInv, TurnsAccounted, WaitersMatch, Dispatching
<1>1. turn[t].calls \in Seq(Ids) \ {<<>>} /\ turn[t].of \in Chats
  BY <1>0 DEF TypeOK, WellTurn, ToolPcs
<1>2. i \in Ids
  BY <1>1
<1> HIDE DEF i
<1>3. Displaced(i) \in [TurnIds -> TurnType]
  BY <1>0, <1>2, DisplacedFacts
<1>4. /\ turn'[t] = w
      /\ \A u \in TurnIds : u # t => turn'[u] = Displaced(i)[u]
      /\ turn' \in [TurnIds -> TurnType]
  BY <1>3 DEF i
<1>5. \A u \in TurnIds : u # t =>
            /\ turn'[u].pc = turn[u].pc /\ turn'[u].of = turn[u].of
            /\ turn'[u].calls = turn[u].calls /\ turn'[u].legacy = turn[u].legacy
            /\ turn'[u].cancel = turn[u].cancel /\ turn'[u].suppress = turn[u].suppress
            /\ turn'[u].finish = turn[u].finish /\ turn'[u].terminal = turn[u].terminal
            /\ turn'[u].failed = turn[u].failed
            /\ turn'[u].reply = IF u = broker[i] /\ turn[u].pc \in WaitPcs THEN "closed"
                                ELSE turn[u].reply
  BY <1>0, <1>2, <1>4, DisplacedFacts
<1>6. \A u \in TurnIds : WellTurn(turn[u])'
  <2>1. ASSUME NEW u \in TurnIds, u # t PROVE WellTurn(turn[u])'
    <3>1. /\ turn'[u].pc = turn[u].pc /\ turn'[u].of = turn[u].of
          /\ turn'[u].calls = turn[u].calls /\ turn'[u].legacy = turn[u].legacy
          /\ turn'[u].suppress = turn[u].suppress /\ turn'[u].finish = turn[u].finish
          /\ turn'[u].terminal = turn[u].terminal /\ turn'[u].failed = turn[u].failed
      BY <1>5, <2>1
    <3>2. WellTurn(turn[u]) /\ Dispatching' = Dispatching
      BY <1>0
    <3> QED
      BY <3>1, <3>2 DEF WellTurn
  <2>2. WellTurn(turn[t])'
    BY <1>0, <1>4 DEF WellTurn
  <2> QED
    BY <2>1, <2>2
<1>7. TypeOK'
  <2>a. broker \in [Ids -> TurnIds \cup {None}] /\ v \in TurnIds \cup {None}
    BY <1>0 DEF TypeOK
  <2>1. broker' \in [Ids -> TurnIds \cup {None}]
    BY <2>a
  <2> QED
    BY <1>0, <1>4, <2>1 DEF TypeOK, TurnType, ChatType
<1>8. BusyMeansRunning' /\ RestoredVacant'
  <2>1. \A u \in TurnIds : /\ turn'[u].of = turn[u].of /\ (Running(u)' <=> Running(u))
                           /\ (Heeds(u)' /\ ~turn'[u].cancel => Heeds(u) /\ ~turn[u].cancel)
    BY <1>4, <1>5 DEF Running, Heeds, HeedPcs, ToolPcs
  <2> QED
    BY <2>1, OwnersKept
<1>9. WaitersMatch' /\ RepliesTaken'
  <2>1. ASSUME NEW u \in TurnIds
        PROVE  /\ turn'[u].of = turn[u].of
               /\ turn'[u].pc \in WaitPcs =>
                      \/ u = v /\ turn'[u].reply = "none" /\ Head(turn'[u].calls) = i
                      \/ /\ u # v /\ turn[u].pc \in WaitPcs /\ turn'[u].calls = turn[u].calls
                         /\ u = broker[i] => turn'[u].reply # "none"
                         /\ u # broker[i] => turn'[u].reply = turn[u].reply
               /\ turn[u].pc \in WaitPcs /\ turn'[u].pc \notin WaitPcs =>
                      Head(turn[u].calls) = i
               /\ turn[u].pc = "closing" => turn'[u].pc = "closing"
    <3>1. CASE u = t
      BY <1>4, <3>1 DEF i, WaitPcs
    <3>2. CASE u # t
      <4>1. u # v
        BY <1>0, <3>2
      <4> QED
        BY <1>5, <3>2, <4>1
    <3> QED
      BY <3>1, <3>2
  <2>2. v # None => /\ turn'[v].pc \in WaitPcs /\ turn'[v].reply = "none"
                    /\ Head(turn'[v].calls) = i
                    /\ turn[v].pc \notin WaitPcs \cup {"closing"} /\ turn[v].of \in Chats
    BY <1>1, <1>4 DEF i, WaitPcs
  <2>3. broker' = [broker EXCEPT ![i] = v] /\ v \in TurnIds \cup {None}
    BY DEF i
  <2> QED
    BY <1>2, <2>1, <2>2, <2>3, EntryChanges
<1>10. CallsAreAnswered'
  <2>1. \A u \in TurnIds : u # t => Range(turn'[u].calls) = Range(turn[u].calls)
    BY <1>5 DEF Range
  <2> QED
    BY <1>4, <1>5, <2>1, CallsKept
<1>11. EveryTurnAnswers'
  BY <1>6 DEF WellTurn, EveryTurnAnswers
<1> QED
  BY <1>6, <1>7, <1>8, <1>9, <1>10, <1>11 DEF TurnsInv, TurnsAccounted


\* The steps of a turn that register a waiter or take one back.
LEMMA ToolStepKeeps ==
    ASSUME TurnsInv, NEW t \in TurnIds,
           RunTool(t) \/ ToolInterrupted(t) \/ ToolTimesOut(t)
    PROVE  TurnsInv'
<1> DEFINE i == Head(turn[t].calls)
<1>0. /\ TypeOK /\ WellTurn(turn[t]) /\ turn[t] \in TurnType /\ turn[t].pc \in ToolPcs
      /\ chat \in [Chats -> ChatType] /\ None \notin TurnIds
      /\ \A c \in Chats : chat[c].left \subseteq chat[c].open
  BY Bounds DEF TurnsInv, TurnsAccounted, TypeOK, TurnType, ChatType, RunTool,
     ToolInterrupted, ToolTimesOut, ToolPcs
<1>1. turn[t].calls \in Seq(Ids) \ {<<>>} /\ turn[t].of \in Chats
  BY <1>0 DEF TurnType, WellTurn
<1>2. i \in Ids /\ Range(turn[t].calls) \in SUBSET Ids
  BY <1>1 DEF Range
<1>3. Displaced(i) \in [TurnIds -> TurnType]
  BY <1>0, <1>2, DisplacedFacts
<1>4. CASE RunTool(t)
  <2> DEFINE d == Displaced(i)
             w == [d[t] EXCEPT !.pc = "invoke", !.reply = "none"]
  <2>1. turn[t].pc = "tool" /\ UNCHANGED <<chat, runs, noTools, loop>>
        /\ broker' = [broker EXCEPT ![i] = t]
    BY <1>4 DEF RunTool
  <2>2. d[t] = turn[t]
    <3>1. turn[t].pc \notin WaitPcs
      BY <2>1 DEF WaitPcs
    <3> QED
      BY <1>0, <1>2, <3>1, DisplacedFacts
  <2>3. turn' = [d EXCEPT ![t] = w]
    <3>1. turn' = [d EXCEPT ![t].pc = "invoke", ![t].reply = "none"]
      BY <1>4 DEF RunTool
    <3> HIDE DEF d
    <3> QED
      BY <1>3, <3>1 DEF d
  <2> HIDE DEF d
  <2>a. d[t] \in TurnType
    BY <1>0, <2>2
  <2>4. w \in TurnType
    BY <2>a, Zenon DEF TurnType, Pcs
  <2>5. /\ w.pc = "invoke" /\ w.reply = "none" /\ w.calls = turn[t].calls
        /\ w.of = turn[t].of /\ w.cancel = turn[t].cancel /\ w.legacy = turn[t].legacy
    BY <1>0, <2>2 DEF TurnType
  <2> HIDE DEF w
  <2>6. WellTurn(w) /\ w.pc \in WaitPcs
    BY <1>0, <1>1, <2>5 DEF WellTurn, ToolPcs, WaitPcs
  <2> QED
    BY <1>0, <2>1, <2>3, <2>4, <2>5, <2>6, ToolEntryKeeps DEF d
<1>5. CASE ToolInterrupted(t)
  <2>1. /\ turn[t].pc = "await" /\ UNCHANGED <<runs, noTools, loop>>
        /\ broker' = [broker EXCEPT ![i] = None]
        /\ turn' = [Displaced(i) EXCEPT ![t] = Concluding(t, "interrupted")[t]]
        /\ chat' = [chat EXCEPT ![turn[t].of] =
                        Answered(chat[turn[t].of], Range(turn[t].calls))]
    BY <1>5 DEF ToolInterrupted
  <2>2. PICK w \in TurnType :
            /\ Concluding(t, "interrupted")[t] = w
            /\ w.pc = "conclude" /\ w.of = turn[t].of
            /\ w.calls = <<>> /\ ~w.legacy /\ w.finish = "interrupted"
    <3>1. "interrupted" \in Finishes
      BY DEF Finishes
    <3> QED
      BY <1>0, <3>1, ConcludingFacts
  <2>3. WellTurn(w) /\ w.pc \notin WaitPcs \cup HeedPcs
    BY <1>1, <1>0, <2>2, Bounds DEF WellTurn, ToolPcs, WaitPcs, HeedPcs
  <2> DEFINE c == turn[t].of
             ch == Answered(chat[c], Range(turn[t].calls))
  <2>4. /\ ch \in ChatType /\ ch.open = chat[c].open \ Range(turn[t].calls)
        /\ ch.left = chat[c].left \ Range(turn[t].calls) /\ ch.slot = chat[c].slot
        /\ ch.restored => chat[c].restored
    BY <1>0, <1>1, <1>2, HistoryEdits
  <2>5. ch.left \subseteq ch.open
    BY <1>0, <1>1, <2>4
  <2> HIDE DEF ch
  <2>6. /\ chat' \in [Chats -> ChatType] /\ chat'[c] = ch
        /\ \A d \in Chats : d # c => chat'[d] = chat[d]
        /\ \A d \in Chats : chat'[d].left \subseteq chat'[d].open
    BY <1>0, <1>1, <2>1, <2>4, <2>5, ChatEdited DEF ch
  <2>7. \A d \in Chats :
                /\ chat'[d].restored => chat[d].restored
                /\ chat'[d].slot = chat[d].slot
                /\ \A j \in chat'[d].open \ chat'[d].left :
                      /\ j \in chat[d].open \ chat[d].left
                      /\ ~(turn[t].of = d /\ j \in Range(turn[t].calls))
    BY <2>4, <2>6
  <2> QED
    BY <1>0, <2>1, <2>2, <2>3, <2>6, <2>7, ToolEntryKeeps
<1>6. CASE ToolTimesOut(t)
  <2> DEFINE d == Displaced(i)
             w == [d[t] EXCEPT !.pc = "report", !.reply = "none"]
  <2>1. turn[t].pc = "await" /\ UNCHANGED <<chat, runs, noTools, loop>>
        /\ broker' = [broker EXCEPT ![i] = None]
    BY <1>6 DEF ToolTimesOut
  <2>2. /\ d[t] \in TurnType /\ d[t].of = turn[t].of /\ d[t].cancel = turn[t].cancel
        /\ d[t].calls = turn[t].calls /\ d[t].legacy = turn[t].legacy
    BY <1>0, <1>2, <1>3, DisplacedFacts
  <2>3. turn' = [d EXCEPT ![t] = w]
    <3>1. turn' = [d EXCEPT ![t].pc = "report", ![t].reply = "none"]
      BY <1>6 DEF ToolTimesOut
    <3> HIDE DEF d
    <3> QED
      BY <1>3, <3>1 DEF d
  <2> HIDE DEF d
  <2>4. w \in TurnType
    BY <2>2, Zenon DEF TurnType, Pcs
  <2>5. /\ w.pc = "report" /\ w.calls = turn[t].calls
        /\ w.of = turn[t].of /\ w.cancel = turn[t].cancel /\ w.legacy = turn[t].legacy
    BY <2>2 DEF TurnType
  <2> HIDE DEF w
  <2>6. WellTurn(w) /\ w.pc \notin WaitPcs
    BY <1>0, <1>1, <2>5 DEF WellTurn, ToolPcs, WaitPcs
  <2> QED
    BY <1>0, <2>1, <2>3, <2>4, <2>5, <2>6, ToolEntryKeeps DEF d
<1> QED
  BY <1>4, <1>5, <1>6

\* A sequence is its head and its tail.
LEMMA HeadAndTail ==
    ASSUME NEW s \in Seq(Ids), s # <<>>
    PROVE  /\ Head(s) \in Ids /\ Tail(s) \in Seq(Ids)
           /\ \A j \in Range(s) : j = Head(s) \/ j \in Range(Tail(s))
<1>1. Head(s) \in Ids /\ Tail(s) \in Seq(Ids)
  OBVIOUS
<1>2. ASSUME NEW n \in DOMAIN s, n # 1
      PROVE  n - 1 \in DOMAIN Tail(s) /\ Tail(s)[n - 1] = s[n]
  BY <1>2
<1>3. Head(s) = s[1]
  OBVIOUS
<1> QED
  BY <1>1, <1>2, <1>3 DEF Range

\* The result of a call joins the history.
LEMMA ReportKeeps ==
    ASSUME TurnsInv, NEW t \in TurnIds, Report(t)
    PROVE  TurnsInv'
<1> DEFINE i == Head(turn[t].calls)
           rest == Tail(turn[t].calls)
           c == turn[t].of
<1>0. /\ TypeOK /\ WellTurn(turn[t]) /\ turn[t] \in TurnType /\ turn[t].pc = "report"
      /\ chat \in [Chats -> ChatType] /\ \A d \in Chats : chat[d].left \subseteq chat[d].open
      /\ Dispatching' = Dispatching /\ UNCHANGED <<runs, broker, noTools, loop>>
      /\ \A u \in TurnIds : WellTurn(turn[u])
  BY DEF TurnsInv, TurnsAccounted, TypeOK, TurnType, ChatType, Report, Dispatching
<1>1. turn[t].calls \in Seq(Ids) /\ turn[t].calls # <<>> /\ c \in Chats
  BY <1>0 DEF TurnType, WellTurn, ToolPcs
<1>2. /\ i \in Ids /\ rest \in Seq(Ids)
      /\ \A j \in Range(turn[t].calls) : j = i \/ j \in Range(rest)
  BY <1>1, HeadAndTail
<1>3. \E w \in TurnType :
            /\ turn' = [turn EXCEPT ![t] = w] /\ w.of = c /\ w.calls = rest
            /\ w.pc \in {"tool", "request", "conclude"}
            /\ w.pc # "conclude" => w.cancel = turn[t].cancel
            /\ WellTurn(w)
  <2>1. CASE rest # <<>>
    <3> DEFINE w == [turn[t] EXCEPT !.pc = "tool", !.calls = rest]
    <3>1. turn' = [turn EXCEPT ![t] = w]
      BY <1>0, <2>1 DEF Report, TypeOK
    <3> HIDE DEF rest
    <3>2. w \in TurnType
      BY <1>0, <1>2, Zenon DEF TurnType, Pcs
    <3>3. /\ w.pc = "tool" /\ w.calls = rest /\ w.of = c /\ w.cancel = turn[t].cancel
          /\ w.legacy = turn[t].legacy
      BY <1>0 DEF TurnType
    <3> HIDE DEF w
    <3>4. WellTurn(w)
      BY <1>0, <1>1, <2>1, <3>3 DEF WellTurn, ToolPcs
    <3> QED
      BY <3>1, <3>2, <3>3, <3>4
  <2>2. CASE rest = <<>> /\ turn[t].iteration >= MaxIterations
    <3>1. turn' = Concluding(t, "error") /\ "error" \in Finishes
      BY <2>2 DEF Report, Finishes
    <3>2. PICK w \in TurnType :
            /\ turn' = [turn EXCEPT ![t] = w]
            /\ w.pc = "conclude" /\ w.of = turn[t].of
            /\ w.calls = <<>> /\ ~w.legacy /\ w.finish = "error"
      BY <1>0, <3>1, ConcludingFacts
    <3>3. WellTurn(w)
      BY <1>1, <3>2, Bounds DEF WellTurn, ToolPcs
    <3> QED
      BY <2>2, <3>2, <3>3
  <2>3. CASE rest = <<>> /\ ~(turn[t].iteration >= MaxIterations)
    <3> DEFINE w == [turn[t] EXCEPT !.pc = "request", !.calls = <<>>, !.iteration = @ + 1]
    <3>1. turn' = [turn EXCEPT ![t] = w]
      BY <1>0, <2>3 DEF Report, TypeOK
    <3>2. turn[t].iteration + 1 \in 1..MaxIterations /\ <<>> \in Seq(Ids)
      BY <1>0, <2>3, Bounds DEF TurnType
    <3>3. w \in TurnType
      BY <1>0, <3>2, Zenon DEF TurnType, Pcs
    <3>4. /\ w.pc = "request" /\ w.calls = <<>> /\ w.of = c /\ w.cancel = turn[t].cancel
          /\ w.legacy = turn[t].legacy
      BY <1>0 DEF TurnType
    <3> HIDE DEF w
    <3>5. WellTurn(w)
      BY <1>0, <1>1, <3>4, Bounds DEF WellTurn, ToolPcs
    <3> QED
      BY <2>3, <3>1, <3>3, <3>4, <3>5
  <2> QED
    BY <2>1, <2>2, <2>3
<1>4. PICK w \in TurnType :
            /\ turn' = [turn EXCEPT ![t] = w] /\ w.of = c /\ w.calls = rest
            /\ w.pc \in {"tool", "request", "conclude"}
            /\ w.pc # "conclude" => w.cancel = turn[t].cancel
            /\ WellTurn(w)
  BY <1>3
<1>5. /\ turn'[t] = w
      /\ \A u \in TurnIds : u # t => turn'[u] = turn[u]
      /\ turn' \in [TurnIds -> TurnType]
  BY <1>0, <1>4 DEF TypeOK, TurnType
<1>6. \A u \in TurnIds : WellTurn(turn[u])'
  BY <1>0, <1>4, <1>5 DEF WellTurn
<1>7. /\ chat' \in [Chats -> ChatType]
      /\ \A d \in Chats :
            /\ chat'[d].left \subseteq chat'[d].open
            /\ chat'[d].slot = chat[d].slot /\ (chat'[d].restored => chat[d].restored)
            /\ chat'[d].open \ chat'[d].left \subseteq chat[d].open \ chat[d].left
            /\ d = c => i \notin chat'[d].open
  <2> DEFINE ch == Answered(chat[c], {i})
  <2>1. chat' = [chat EXCEPT ![c] = ch]
    BY DEF Report
  <2>2. /\ ch \in ChatType /\ ch.open = chat[c].open \ {i}
        /\ ch.left = chat[c].left \ {i} /\ ch.slot = chat[c].slot
        /\ ch.restored => chat[c].restored
    <3>1. {i} \in SUBSET Ids
      BY <1>2
    <3> QED
      BY <1>0, <1>1, <3>1, HistoryEdits
  <2>3. ch.left \subseteq ch.open
    BY <1>0, <1>1, <2>2
  <2> HIDE DEF ch
  <2>4. /\ chat' \in [Chats -> ChatType] /\ chat'[c] = ch
        /\ \A d \in Chats : d # c => chat'[d] = chat[d]
        /\ \A d \in Chats : chat'[d].left \subseteq chat'[d].open
    BY <1>0, <1>1, <2>1, <2>2, <2>3, ChatEdited
  <2> HIDE DEF i, c
  <2> QED
    BY <1>1, <2>2, <2>4
<1>8. TypeOK'
  BY <1>0, <1>5, <1>7 DEF TypeOK, TurnType, ChatType
<1>9. BusyMeansRunning' /\ RestoredVacant'
  <2>1. \A u \in TurnIds : /\ turn'[u].of = turn[u].of /\ (Running(u)' <=> Running(u))
                           /\ (Heeds(u)' /\ ~turn'[u].cancel => Heeds(u) /\ ~turn[u].cancel)
    BY <1>0, <1>4, <1>5 DEF Running, Heeds
  <2> QED
    BY <1>0, <1>7, <2>1, OwnersKept
<1>10. WaitersMatch' /\ RepliesTaken'
  <2>1. \A u \in TurnIds :
            /\ turn'[u].of = turn[u].of
            /\ turn'[u].pc \in WaitPcs \/ turn[u].pc \in WaitPcs => turn'[u] = turn[u]
            /\ turn[u].pc = "closing" => turn'[u].pc = "closing"
    BY <1>0, <1>4, <1>5 DEF WaitPcs
  <2> QED
    BY <1>0, <2>1, WaitersKept
<1>11. CallsAreAnswered'
  <2>1. \A d \in Chats : \A j \in chat'[d].open \ chat'[d].left :
                /\ j \in chat[d].open \ chat[d].left
                /\ \A u \in TurnIds :
                      turn[u].of = d /\ j \in Range(turn[u].calls) =>
                          turn'[u].of = d /\ j \in Range(turn'[u].calls)
    BY <1>2, <1>4, <1>5, <1>7
  <2> QED
    BY <2>1, CallsKept
<1>12. EveryTurnAnswers'
  BY <1>6 DEF WellTurn, EveryTurnAnswers
<1> QED
  BY <1>6, <1>8, <1>9, <1>10, <1>11, <1>12 DEF TurnsInv, TurnsAccounted


\* An answer is handed to the waiter registered for its id.
LEMMA ToolResultKeeps ==
    ASSUME TurnsInv, NEW i \in Ids, ToolResult(i)
    PROVE  TurnsInv'
<1> DEFINE b == broker[i]
<1>0. /\ TypeOK /\ \A u \in TurnIds : WellTurn(turn[u])
      /\ Dispatching' = Dispatching /\ UNCHANGED <<chat, runs, noTools, loop>>
      /\ b \in TurnIds /\ broker' = [broker EXCEPT ![i] = None] /\ None \notin TurnIds
      /\ \/ turn[b].pc \in WaitPcs /\ Head(turn[b].calls) = i
         \/ turn[b].pc = "closing"
  <2>1. TypeOK /\ NoWaiterLeaks /\ broker[i] # None
    BY DEF TurnsInv, TurnsAccounted, WaitersMatch, ToolResult
  <2>2. b \in TurnIds
    BY <2>1 DEF TypeOK
  <2>3. \/ turn[b].pc \in WaitPcs /\ Head(turn[b].calls) = i
        \/ turn[b].pc = "closing"
    BY <2>1 DEF NoWaiterLeaks, WaitPcs
  <2> QED
    BY <2>1, <2>2, <2>3, Bounds DEF TurnsInv, ToolResult, Dispatching
<1>1. /\ turn' \in [TurnIds -> TurnType]
      /\ \A u \in TurnIds :
            /\ turn'[u].pc = turn[u].pc /\ turn'[u].of = turn[u].of
            /\ turn'[u].calls = turn[u].calls /\ turn'[u].legacy = turn[u].legacy
            /\ turn'[u].cancel = turn[u].cancel /\ turn'[u].suppress = turn[u].suppress
            /\ turn'[u].finish = turn[u].finish /\ turn'[u].terminal = turn[u].terminal
            /\ turn'[u].failed = turn[u].failed
            /\ u # b => turn'[u].reply = turn[u].reply
            /\ u = b /\ turn[u].pc \in WaitPcs => turn'[u].reply = "result"
  <2>0. turn \in [TurnIds -> TurnType] /\ turn[b] \in TurnType
    BY <1>0 DEF TypeOK, TurnType
  <2>1. CASE turn[b].pc \in WaitPcs
    <3> DEFINE w == [turn[b] EXCEPT !.reply = "result"]
    <3>1. turn' = [turn EXCEPT ![b] = w]
      BY <1>0, <2>0, <2>1 DEF ToolResult, WaitPcs
    <3>2. /\ w \in TurnType /\ w.reply = "result" /\ w.pc = turn[b].pc /\ w.of = turn[b].of
          /\ w.calls = turn[b].calls /\ w.legacy = turn[b].legacy
          /\ w.cancel = turn[b].cancel /\ w.suppress = turn[b].suppress
          /\ w.finish = turn[b].finish /\ w.terminal = turn[b].terminal
          /\ w.failed = turn[b].failed
      BY <2>0 DEF TurnType
    <3> HIDE DEF w, b
    <3>3. /\ turn' \in [TurnIds -> TurnType] /\ turn'[b] = w
          /\ \A u \in TurnIds : u # b => turn'[u] = turn[u]
      BY <1>0, <2>0, <3>1, <3>2
    <3> QED
      BY <3>2, <3>3
  <2>2. CASE turn[b].pc \notin WaitPcs
    <3>1. turn' = turn
      BY <2>2 DEF ToolResult, WaitPcs
    <3> QED
      BY <2>0, <2>2, <3>1
  <2> QED
    BY <2>1, <2>2
<1>2. \A u \in TurnIds : WellTurn(turn[u])'
  BY <1>0, <1>1 DEF WellTurn
<1>3. TypeOK'
  BY <1>0, <1>1 DEF TypeOK, TurnType, ChatType
<1>4. BusyMeansRunning' /\ RestoredVacant'
  <2>1. \A u \in TurnIds : /\ turn'[u].of = turn[u].of /\ (Running(u)' <=> Running(u))
                           /\ (Heeds(u)' /\ ~turn'[u].cancel => Heeds(u) /\ ~turn[u].cancel)
    BY <1>1 DEF Running, Heeds
  <2> QED
    BY <1>0, <2>1, OwnersKept
<1>5. WaitersMatch' /\ RepliesTaken'
  <2>1. \A u \in TurnIds :
            /\ turn'[u].of = turn[u].of
            /\ turn'[u].pc \in WaitPcs =>
                  \/ u = None /\ turn'[u].reply = "none" /\ Head(turn'[u].calls) = i
                  \/ /\ u # None /\ turn[u].pc \in WaitPcs
                     /\ turn'[u].calls = turn[u].calls
                     /\ u = broker[i] => turn'[u].reply # "none"
                     /\ u # broker[i] => turn'[u].reply = turn[u].reply
            /\ turn[u].pc \in WaitPcs /\ turn'[u].pc \notin WaitPcs =>
                  Head(turn[u].calls) = i
            /\ turn[u].pc = "closing" => turn'[u].pc = "closing"
    BY <1>0, <1>1
  <2>2. broker' = [broker EXCEPT ![i] = None] /\ None \in TurnIds \cup {None}
    BY <1>0
  <2> QED
    BY <2>1, <2>2, EntryChanges
<1>6. CallsAreAnswered'
  BY <1>0, <1>1, CallsKept DEF Range
<1>7. EveryTurnAnswers'
  BY <1>2 DEF WellTurn, EveryTurnAnswers
<1> QED
  BY <1>2, <1>3, <1>4, <1>5, <1>6, <1>7 DEF TurnsInv, TurnsAccounted

-----------------------------------------------------------------------------
(* The end of a turn. *)

\* A turn removes what it and others left at the broker.
LEMMA ReapKeeps ==
    ASSUME TurnsInv, NEW t \in TurnIds, ReapAbandoned(t)
    PROVE  TurnsInv'
<1>0. /\ TypeOK /\ \A u \in TurnIds : WellTurn(turn[u])
      /\ WaitersRegistered /\ NoWaiterLeaks /\ RepliesTaken /\ None \notin TurnIds
      /\ Dispatching' = Dispatching /\ UNCHANGED <<chat, runs, noTools, loop>>
      /\ turn[t].pc = "closing" /\ turn[t] \in TurnType
  BY Bounds DEF TurnsInv, TurnsAccounted, WaitersMatch, ReapAbandoned, Dispatching, TypeOK,
     TurnType
<1> DEFINE w == [turn[t] EXCEPT !.pc = "terminal"]
<1>1. /\ w \in TurnType /\ w.pc = "terminal" /\ w.of = turn[t].of
      /\ w.calls = turn[t].calls /\ w.legacy = turn[t].legacy
      /\ w.suppress = turn[t].suppress /\ w.terminal = turn[t].terminal
      /\ w.failed = turn[t].failed
  <2>1. w \in TurnType
    BY <1>0, Zenon DEF TurnType, Pcs
  <2> QED
    BY <1>0, <2>1 DEF TurnType
<1>2. turn' = [turn EXCEPT ![t] = w]
  BY <1>0 DEF ReapAbandoned, TypeOK
<1> HIDE DEF w
<1>3. /\ turn'[t] = w /\ \A u \in TurnIds : u # t => turn'[u] = turn[u]
      /\ turn' \in [TurnIds -> TurnType]
  BY <1>0, <1>1, <1>2 DEF TypeOK, TurnType
<1>4. WellTurn(w)
  BY <1>0, <1>1 DEF WellTurn, ToolPcs
<1>5. \A u \in TurnIds : WellTurn(turn[u])'
  BY <1>0, <1>3, <1>4 DEF WellTurn
<1>6. /\ broker' \in [Ids -> TurnIds \cup {None}]
      /\ \A i \in Ids :
            /\ broker'[i] \in {broker[i], None} /\ broker'[i] # t
            /\ broker[i] # None /\ turn[broker[i]].pc \in WaitPcs => broker'[i] = broker[i]
  <2>1. CASE IsDirect(t)
    <3>1. broker' = broker /\ turn[t].of \notin Chats
      BY <2>1, Bounds DEF ReapAbandoned, IsDirect
    <3> QED
      BY <1>0, <3>1 DEF RepliesTaken, TypeOK
  <2>2. CASE ~IsDirect(t)
    <3>1. broker' = [i \in Ids |->
                        IF broker[i] # None /\ turn[broker[i]].pc \in WaitPcs
                        THEN broker[i] ELSE None]
      BY <2>2 DEF ReapAbandoned, WaitPcs
    <3>2. turn[t].pc \notin WaitPcs
      BY <1>0 DEF WaitPcs
    <3> QED
      BY <1>0, <3>1, <3>2 DEF TypeOK
  <2> QED
    BY <2>1, <2>2
<1>7. TypeOK'
  BY <1>0, <1>3, <1>6 DEF TypeOK, TurnType, ChatType
<1>8. BusyMeansRunning' /\ RestoredVacant'
  <2>1. \A u \in TurnIds : /\ turn'[u].of = turn[u].of /\ (Running(u)' <=> Running(u))
                           /\ (Heeds(u)' /\ ~turn'[u].cancel => Heeds(u) /\ ~turn[u].cancel)
    BY <1>0, <1>1, <1>3 DEF Running, Heeds
  <2> QED
    BY <1>0, <2>1, OwnersKept
<1>9. \A u \in TurnIds : turn'[u].pc \in WaitPcs =>
            turn'[u] = turn[u] /\ turn[u].pc \in WaitPcs /\ Head(turn[u].calls) \in Ids
  <2>1. \A u \in TurnIds : turn'[u].pc \in WaitPcs =>
            turn'[u] = turn[u] /\ turn[u].pc \in WaitPcs
    BY <1>1, <1>3 DEF WaitPcs
  <2>2. \A u \in TurnIds : turn[u].pc \in WaitPcs => turn[u].calls \in Seq(Ids) \ {<<>>}
    BY <1>0 DEF WellTurn, TypeOK, WaitPcs, ToolPcs
  <2> QED
    BY <2>1, <2>2
<1>10. WaitersRegistered'
  <2> SUFFICES ASSUME NEW u \in TurnIds, turn'[u].pc \in WaitPcs, turn'[u].reply = "none"
               PROVE  broker'[Head(turn'[u].calls)] = u
    BY DEF WaitersRegistered, WaitPcs
  <2>1. broker[Head(turn[u].calls)] = u
    BY <1>0, <1>9 DEF WaitersRegistered, WaitPcs
  <2> QED
    BY <1>0, <1>6, <1>9, <2>1
<1>11. NoWaiterLeaks'
  <2> SUFFICES ASSUME NEW i \in Ids, broker'[i] # None
               PROVE  \/ turn'[broker'[i]].pc \in WaitPcs /\ Head(turn'[broker'[i]].calls) = i
                      \/ turn'[broker'[i]].pc = "closing"
    BY DEF NoWaiterLeaks, WaitPcs
  <2>1. broker'[i] = broker[i] /\ broker[i] \in TurnIds /\ broker[i] # t /\ broker[i] # None
    BY <1>6
  <2> QED
    BY <1>0, <1>3, <2>1 DEF NoWaiterLeaks, WaitPcs
<1>12. RepliesTaken'
  <2>1. ASSUME NEW u \in TurnIds, turn'[u].pc \in WaitPcs, turn'[u].reply # "none"
        PROVE  broker'[Head(turn'[u].calls)] # u
    BY <1>0, <1>6, <1>9, <2>1 DEF RepliesTaken
  <2>2. ASSUME NEW i \in Ids, broker'[i] # None
        PROVE  turn'[broker'[i]].of \in Chats
    BY <1>0, <1>1, <1>3, <1>6, <2>2 DEF RepliesTaken
  <2> QED
    BY <2>1, <2>2 DEF RepliesTaken
<1>13. CallsAreAnswered'
  <2>1. \A u \in TurnIds : turn'[u].of = turn[u].of /\ turn'[u].calls = turn[u].calls
    BY <1>1, <1>3
  <2> QED
    BY <1>0, <2>1, CallsKept
<1>14. EveryTurnAnswers'
  BY <1>5 DEF WellTurn, EveryTurnAnswers
<1> QED
  BY <1>5, <1>7, <1>8, <1>10, <1>11, <1>12, <1>13, <1>14
     DEF TurnsInv, TurnsAccounted, WaitersMatch

\* The task ends and frees what it holds.
LEMMA FinishKeeps ==
    ASSUME TurnsInv, NEW t \in TurnIds, FinishTurn(t)
    PROVE  TurnsInv'
<1>0. /\ TypeOK /\ \A u \in TurnIds : WellTurn(turn[u])
      /\ BusyMeansRunning /\ RestoredVacant /\ CallsAreAnswered
      /\ WaitersRegistered /\ NoWaiterLeaks /\ RepliesTaken /\ None \notin TurnIds
      /\ Vacant \notin TurnIds
      /\ Dispatching' = Dispatching /\ UNCHANGED <<broker, noTools, loop>>
      /\ turn[t].pc = "release"
  BY Bounds DEF TurnsInv, TurnsAccounted, WaitersMatch, FinishTurn, Dispatching
<1> DEFINE w == [Idle EXCEPT !.pc = "ended"]
<1>1. /\ w \in TurnType /\ w.pc = "ended" /\ w.of = None /\ w.calls = <<>> /\ ~w.legacy
  <2>1. w \in TurnType
    BY IdleFacts, Zenon DEF TurnType, Pcs
  <2> QED
    BY <2>1, IdleFacts DEF TurnType
<1>2. turn' = [turn EXCEPT ![t] = w]
  BY DEF FinishTurn
<1> HIDE DEF w
<1>3. /\ turn'[t] = w /\ \A u \in TurnIds : u # t => turn'[u] = turn[u]
      /\ turn' \in [TurnIds -> TurnType]
  BY <1>0, <1>1, <1>2 DEF TypeOK, TurnType
<1>4. \A u \in TurnIds : WellTurn(turn[u])'
  <2>1. WellTurn(w)
    BY <1>1 DEF WellTurn, ToolPcs
  <2> QED
    BY <1>0, <1>3, <2>1 DEF WellTurn
<1>5. /\ chat' \in [Chats -> ChatType]
      /\ \A c \in Chats :
            /\ chat'[c].slot = IF chat[c].slot = t THEN Vacant ELSE chat[c].slot
            /\ chat'[c].restored = chat[c].restored
            /\ chat'[c].open = chat[c].open /\ chat'[c].left = chat[c].left
  <2>1. chat \in [Chats -> ChatType]
    BY <1>0 DEF TypeOK, ChatType
  <2>2. \A c \in Chats :
            LET ch == [chat[c] EXCEPT !.slot = Vacant]
            IN  /\ ch \in ChatType /\ ch.slot = Vacant /\ ch.restored = chat[c].restored
                /\ ch.open = chat[c].open /\ ch.left = chat[c].left
    BY <2>1 DEF ChatType
  <2>3. chat' = [c \in Chats |->
                    IF chat[c].slot = t THEN [chat[c] EXCEPT !.slot = Vacant] ELSE chat[c]]
    BY DEF FinishTurn, Released
  <2> QED
    BY <2>1, <2>2, <2>3
<1>6. /\ runs' \in [Requests -> TurnIds \cup {None}]
      /\ \A r \in Requests : runs'[r] = IF runs[r] = t THEN None ELSE runs[r]
  BY <1>0 DEF FinishTurn, Released, TypeOK
<1>7. TypeOK'
  <2>1. \A c \in Chats : chat'[c].left \subseteq chat'[c].open
    BY <1>0, <1>5 DEF TypeOK
  <2> QED
    BY <1>0, <1>3, <1>5, <1>6, <2>1 DEF TypeOK, TurnType, ChatType
<1>8. BusyMeansRunning'
  <2>1. ASSUME NEW c \in Chats, chat'[c].slot \in TurnIds
        PROVE  Running(chat[c].slot)' /\ turn'[chat[c].slot].of = c
               /\ chat'[c].slot = chat[c].slot
    <3>1. chat'[c].slot = chat[c].slot /\ chat[c].slot # t
      BY <1>0, <1>5, <2>1
    <3> QED
      BY <1>0, <1>3, <2>1, <3>1 DEF BusyMeansRunning, Running
  <2>2. ASSUME NEW r \in Requests, runs'[r] # None
        PROVE  Running(runs[r])' /\ turn'[runs[r]].of = r /\ runs'[r] = runs[r]
    <3>1. runs'[r] = runs[r] /\ runs[r] # t /\ runs[r] \in TurnIds
      BY <1>0, <1>6, <2>2
    <3> QED
      BY <1>0, <1>3, <2>2, <3>1 DEF BusyMeansRunning, Running
  <2>3. ASSUME NEW u \in TurnIds, Running(u)', IsDirect(u)'
        PROVE  runs'[turn'[u].of] = u
    <3>1. u # t
      BY <1>1, <1>3, <2>3 DEF Running
    <3>2. runs[turn[u].of] = u /\ turn[u].of \in Requests
      BY <1>0, <1>3, <2>3, <3>1 DEF BusyMeansRunning, Running, IsDirect
    <3> QED
      BY <1>3, <1>6, <3>1, <3>2
  <2>4. ASSUME NEW u \in TurnIds, Heeds(u)', ~IsDirect(u)', ~turn'[u].cancel
        PROVE  chat'[turn'[u].of].slot = u
    <3>1. u # t
      BY <1>1, <1>3, <2>4 DEF Heeds
    <3>2. chat[turn[u].of].slot = u
      BY <1>0, <1>3, <2>4, <3>1 DEF BusyMeansRunning, Heeds, IsDirect
    <3>3. turn[u].of \in Chats
      BY <1>0, <1>3, <2>4, <3>1 DEF WellTurn, Heeds, IsDirect, TypeOK
    <3> QED
      BY <1>3, <1>5, <3>1, <3>2, <3>3
  <2> QED
    BY <2>1, <2>2, <2>3, <2>4 DEF BusyMeansRunning, Running, IsDirect, Heeds
<1>9. RestoredVacant'
  BY <1>0, <1>5 DEF RestoredVacant
<1>10. \A i \in Ids : broker[i] # t
  BY <1>0 DEF NoWaiterLeaks
<1>11. \A u \in TurnIds : turn'[u].pc \in WaitPcs => u # t
  BY <1>1, <1>3 DEF WaitPcs
<1>12. WaitersRegistered'
  BY <1>0, <1>3, <1>11 DEF WaitersRegistered, WaitPcs
<1>13. NoWaiterLeaks'
  <2> SUFFICES ASSUME NEW i \in Ids, broker[i] # None
               PROVE  \/ turn'[broker[i]].pc \in WaitPcs /\ Head(turn'[broker[i]].calls) = i
                      \/ turn'[broker[i]].pc = "closing"
    BY <1>0 DEF NoWaiterLeaks, WaitPcs
  <2>1. broker[i] \in TurnIds
    BY <1>0 DEF TypeOK
  <2> QED
    BY <1>0, <1>3, <1>10, <2>1 DEF NoWaiterLeaks, WaitPcs
<1>14. RepliesTaken'
  <2>1. ASSUME NEW u \in TurnIds, turn'[u].pc \in WaitPcs, turn'[u].reply # "none"
        PROVE  broker'[Head(turn'[u].calls)] # u
    BY <1>0, <1>3, <1>11, <2>1 DEF RepliesTaken
  <2>2. ASSUME NEW i \in Ids, broker'[i] # None
        PROVE  turn'[broker'[i]].of \in Chats
    <3>1. broker[i] \in TurnIds /\ broker[i] # t /\ broker[i] # None
      BY <1>0, <1>10, <2>2 DEF TypeOK
    <3> QED
      BY <1>0, <1>3, <3>1 DEF RepliesTaken
  <2> QED
    BY <2>1, <2>2 DEF RepliesTaken
<1>15. CallsAreAnswered'
  <2>1. Range(turn[t].calls) = {}
    BY <1>0 DEF WellTurn, ToolPcs, Range
  <2> QED
    BY <1>3, <1>5, <2>1, CallsKept
<1>16. EveryTurnAnswers'
  BY <1>4 DEF WellTurn, EveryTurnAnswers
<1> QED
  BY <1>4, <1>7, <1>8, <1>9, <1>12, <1>13, <1>14, <1>15, <1>16
     DEF TurnsInv, TurnsAccounted, WaitersMatch


-----------------------------------------------------------------------------
(* The dispatch loop. *)

\* Only chats are edited: no slot of a turn is touched and no call becomes
\* open that nobody is left with.
LEMMA ChatEditKeeps ==
    ASSUME TurnsInv, UNCHANGED <<runs, turn, broker, noTools, loop>>,
           chat' \in [Chats -> ChatType],
           \A c \in Chats :
                /\ chat'[c].left \subseteq chat'[c].open
                /\ \/ chat'[c].slot = chat[c].slot
                   \/ chat'[c].slot \notin TurnIds /\ chat[c].slot \notin TurnIds
                /\ chat'[c].restored => \/ chat'[c].slot = Vacant
                                        \/ chat[c].restored /\ chat'[c].slot = chat[c].slot
                /\ chat'[c].open \ chat'[c].left \subseteq chat[c].open \ chat[c].left
    PROVE  TurnsInv'
<1>0. /\ TypeOK /\ EveryTurnAnswers /\ WaitersMatch /\ RepliesTaken
      /\ \A t \in TurnIds : WellTurn(turn[t])
  BY DEF TurnsInv, TurnsAccounted
<1>1. TypeOK'
  BY <1>0 DEF TypeOK, ChatType
<1>2. BusyMeansRunning' /\ RestoredVacant'
  BY OwnersKept DEF Running, Heeds
<1>3. CallsAreAnswered'
  BY CallsKept
<1>4. WaitersMatch' /\ RepliesTaken' /\ EveryTurnAnswers'
  BY <1>0 DEF WaitersMatch, WaitersRegistered, NoWaiterLeaks, RepliesTaken,
              EveryTurnAnswers, Dispatching
<1>5. \A t \in TurnIds : WellTurn(turn[t])'
  BY <1>0 DEF WellTurn, Dispatching
<1> QED
  BY <1>1, <1>2, <1>3, <1>4, <1>5 DEF TurnsInv, TurnsAccounted

\* A new or a missing chat is a well-formed one.
LEMMA FreshFacts ==
    /\ Fresh \in ChatType /\ Fresh.slot = Vacant /\ ~Fresh.restored
    /\ Fresh.open = {} /\ Fresh.left = {}
    /\ NoChat \in ChatType /\ NoChat.slot = None /\ ~NoChat.restored
    /\ NoChat.open = {} /\ NoChat.left = {}
<1>1. /\ Fresh \in ChatType /\ Fresh.slot = Vacant /\ ~Fresh.restored
      /\ Fresh.open = {} /\ Fresh.left = {}
  BY DEF Fresh, ChatType
<1>2. /\ NoChat \in ChatType /\ NoChat.slot = None /\ ~NoChat.restored
      /\ NoChat.open = {} /\ NoChat.left = {}
  BY <1>1 DEF NoChat, ChatType
<1> QED
  BY <1>1, <1>2

\* The events that edit chats, the `prompt` of a busy chat among them.
LEMMA ChatStepKeeps ==
    ASSUME TurnsInv, NEW c \in Chats,
           \/ ChatCreate(c) \/ ChatRestore(c) \/ ChatAppend(c) \/ Reset
           \/ \E t \in TurnIds : Prompt(t) /\ turn' = turn
    PROVE  TurnsInv'
<1>0. /\ TypeOK /\ RestoredVacant /\ chat \in [Chats -> ChatType]
      /\ \A d \in Chats : chat[d].left \subseteq chat[d].open
  BY DEF TurnsInv, TurnsAccounted, TypeOK, ChatType
<1>b. None \notin TurnIds /\ Vacant \notin TurnIds /\ None # Vacant
  BY Bounds
<1>1. ASSUME NEW d \in Chats, NEW ch \in ChatType, ch.left \subseteq ch.open,
             chat' = [chat EXCEPT ![d] = ch], UNCHANGED <<runs, turn, broker, noTools, loop>>,
             \/ ch.slot = chat[d].slot
             \/ ch.slot \notin TurnIds /\ chat[d].slot \notin TurnIds,
             ch.restored => \/ ch.slot = Vacant
                            \/ chat[d].restored /\ ch.slot = chat[d].slot,
             ch.open \ ch.left \subseteq chat[d].open \ chat[d].left
      PROVE  TurnsInv'
  <2>1. /\ chat' \in [Chats -> ChatType] /\ chat'[d] = ch
        /\ \A e \in Chats : e # d => chat'[e] = chat[e]
        /\ \A e \in Chats : chat'[e].left \subseteq chat'[e].open
    BY <1>0, <1>1, ChatEdited
  <2>2. \A e \in Chats :
                /\ chat'[e].left \subseteq chat'[e].open
                /\ \/ chat'[e].slot = chat[e].slot
                   \/ chat'[e].slot \notin TurnIds /\ chat[e].slot \notin TurnIds
                /\ chat'[e].restored => \/ chat'[e].slot = Vacant
                                        \/ chat[e].restored /\ chat'[e].slot = chat[e].slot
                /\ chat'[e].open \ chat'[e].left \subseteq chat[e].open \ chat[e].left
    <3> TAKE e \in Chats
    <3>1. CASE e = d
      BY <1>1, <2>1, <3>1
    <3>2. CASE e # d
      BY <1>1, <2>1, <3>2
    <3> QED
      BY <3>1, <3>2
  <2> QED
    BY <1>1, <2>1, <2>2, ChatEditKeeps
<1>2. CASE ChatCreate(c)
  <2>1. chat[c].slot \notin TurnIds /\ chat' = [chat EXCEPT ![c] = Fresh]
        /\ UNCHANGED <<runs, turn, broker, noTools, loop>>
    BY <1>0, <1>b, <1>2 DEF ChatCreate, RestoredVacant
  <2> QED
    BY <1>1, <1>b, <2>1, FreshFacts
<1>3. CASE ChatRestore(c)
  <2> DEFINE ch == [Fresh EXCEPT !.restored = TRUE]
  <2>1. chat[c].slot \notin TurnIds /\ chat' = [chat EXCEPT ![c] = ch]
        /\ UNCHANGED <<runs, turn, broker, noTools, loop>>
    BY <1>b, <1>3 DEF ChatRestore
  <2>2. ch \in ChatType /\ ch.slot = Vacant /\ ch.open = {} /\ ch.left = {}
    BY FreshFacts DEF ChatType
  <2> HIDE DEF ch
  <2> QED
    BY <1>1, <1>b, <2>1, <2>2
<1>4. CASE ChatAppend(c)
  <2>0. UNCHANGED <<runs, turn, broker, noTools, loop>> /\ CallerIds \subseteq Ids
        /\ chat[c] \in ChatType /\ chat[c].left \subseteq chat[c].open
    BY <1>0, <1>4, Bounds DEF ChatAppend
  <2>1. ASSUME NEW ids \in SUBSET CallerIds,
               chat' = [chat EXCEPT ![c] = [Asked(chat[c], ids) EXCEPT !.left = @ \cup ids]]
        PROVE  TurnsInv'
    <3> DEFINE a == Asked(chat[c], ids)
               ch == [a EXCEPT !.left = @ \cup ids]
    <3>1. a \in ChatType /\ a.open = chat[c].open \cup ids /\ a.left = chat[c].left
          /\ a.slot = chat[c].slot /\ ~a.restored
      BY <2>0, HistoryEdits
    <3>2. chat' = [chat EXCEPT ![c] = ch]
      BY <2>1
    <3> HIDE DEF a
    <3>3. /\ ch \in ChatType /\ ch.open = chat[c].open \cup ids
          /\ ch.left = chat[c].left \cup ids /\ ch.slot = chat[c].slot /\ ~ch.restored
      BY <2>0, <3>1 DEF ChatType
    <3> HIDE DEF ch
    <3> QED
      BY <1>1, <2>0, <3>2, <3>3
  <2>2. ASSUME NEW i \in Ids, chat' = [chat EXCEPT ![c] = Answered(chat[c], {i})]
        PROVE  TurnsInv'
    <3> DEFINE ch == Answered(chat[c], {i})
    <3>1. {i} \in SUBSET Ids
      OBVIOUS
    <3>2. /\ ch \in ChatType /\ ch.open = chat[c].open \ {i} /\ ch.left = chat[c].left \ {i}
          /\ ch.slot = chat[c].slot /\ (ch.restored => chat[c].restored)
      BY <2>0, <3>1, HistoryEdits
    <3>3. chat' = [chat EXCEPT ![c] = ch]
      BY <2>2
    <3> HIDE DEF ch
    <3>4. ch.left \subseteq ch.open /\ ch.open \ ch.left \subseteq chat[c].open \ chat[c].left
      BY <2>0, <3>2
    <3>5. ch.slot = chat[c].slot /\ (ch.restored => chat[c].restored)
      BY <3>2
    <3> QED
      BY <1>1, <2>0, <3>2, <3>3, <3>4, <3>5
  <2> QED
    BY <1>4, <2>1, <2>2 DEF ChatAppend
<1>5. CASE Reset
  <2>1. \A d \in Chats :
            LET ch == [chat[d] EXCEPT !.open = {}, !.left = {}]
            IN  /\ ch \in ChatType /\ ch.slot = chat[d].slot /\ ch.open = {} /\ ch.left = {}
                /\ ch.restored = chat[d].restored
    BY <1>0 DEF ChatType
  <2>2. chat' = [d \in Chats |-> [chat[d] EXCEPT !.open = {}, !.left = {}]]
        /\ UNCHANGED <<runs, turn, broker, noTools, loop>>
    BY <1>5 DEF Reset
  <2> QED
    BY <2>1, <2>2, ChatEditKeeps
<1>6. ASSUME NEW t \in TurnIds, Prompt(t), turn' = turn PROVE TurnsInv'
  <2> DEFINE ch == Asked(chat[Default], {})
  <2>0. /\ Default \in Chats /\ {} \in SUBSET Ids /\ chat[Default] \in ChatType
        /\ chat[Default].left \subseteq chat[Default].open /\ turn[t].pc = "unused"
        /\ UNCHANGED <<runs, turn, broker, noTools, loop>>
    BY <1>0, <1>6, Bounds DEF Prompt, IsNext
  <2>1. /\ ch \in ChatType /\ ch.open = chat[Default].open /\ ch.left = chat[Default].left
        /\ ch.slot = chat[Default].slot /\ ~ch.restored
    <3>1. chat[Default].open \cup {} = chat[Default].open
      OBVIOUS
    <3> QED
      BY <2>0, <3>1, HistoryEdits
  <2>2. turn # Started(t, Default, TRUE)
    <3>1. Started(t, Default, TRUE)[t].pc = "request"
      BY <1>0, IdleFacts DEF Started, TypeOK, TurnType
    <3> QED
      BY <2>0, <3>1
  <2>3. chat' = [chat EXCEPT ![Default] = ch]
    <3>1. CASE chat[Default].slot = None
      <4>1. Asked(Fresh, {}).slot = Vacant
        BY <2>0, FreshFacts, HistoryEdits
      <4> QED
        BY <1>6, <2>2, <3>1, <4>1 DEF Prompt
    <3>2. CASE chat[Default].slot # None
      BY <1>6, <2>2, <3>2 DEF Prompt
    <3> QED
      BY <3>1, <3>2
  <2> HIDE DEF ch
  <2> QED
    BY <1>1, <2>0, <2>1, <2>3
<1> QED
  BY <1>2, <1>3, <1>4, <1>5, <1>6


\* A turn begins: nobody knew it, and its chat or completion id was free.
LEMMA BeginKeeps ==
    ASSUME TurnsInv, NEW t \in TurnIds, turn[t].pc = "unused",
           NEW owner \in Chats \cup Requests, NEW legacy \in BOOLEAN,
           legacy => owner \in Chats, turn' = Started(t, owner, legacy),
           UNCHANGED <<broker, noTools, loop>>,
           chat' \in [Chats -> ChatType],
           \A c \in Chats :
                /\ chat'[c].left \subseteq chat'[c].open
                /\ chat'[c].open \ chat'[c].left \subseteq chat[c].open \ chat[c].left
                /\ c # owner => chat'[c] = chat[c]
                /\ c = owner => /\ chat[c].slot \notin TurnIds
                                /\ chat'[c].slot = t /\ ~chat'[c].restored,
           runs' \in [Requests -> TurnIds \cup {None}],
           \A r \in Requests : /\ r # owner => runs'[r] = runs[r]
                               /\ r = owner => runs[r] = None /\ runs'[r] = t
    PROVE  TurnsInv'
<1>0. /\ TypeOK /\ \A u \in TurnIds : WellTurn(turn[u])
      /\ BusyMeansRunning /\ RestoredVacant
      /\ WaitersRegistered /\ NoWaiterLeaks /\ RepliesTaken /\ None \notin TurnIds
      /\ None \notin Chats \cup Requests /\ Chats \cap Requests = {}
      /\ Dispatching' = Dispatching
  BY Bounds DEF TurnsInv, TurnsAccounted, WaitersMatch, Dispatching
<1> DEFINE w == [Idle EXCEPT !.pc = "request", !.of = owner, !.legacy = legacy]
<1>1. /\ w \in TurnType /\ w.pc = "request" /\ w.of = owner /\ w.calls = <<>>
      /\ w.legacy = legacy
  <2>1. w \in TurnType
    BY IdleFacts, Zenon DEF TurnType, Pcs
  <2> QED
    BY <2>1, IdleFacts DEF TurnType
<1>2. turn' = [turn EXCEPT ![t] = w]
  BY DEF Started
<1> HIDE DEF w
<1>3. /\ turn'[t] = w /\ \A u \in TurnIds : u # t => turn'[u] = turn[u]
      /\ turn' \in [TurnIds -> TurnType]
  BY <1>0, <1>1, <1>2 DEF TypeOK, TurnType
<1>4. \A u \in TurnIds : WellTurn(turn[u])'
  <2>1. WellTurn(w)
    BY <1>0, <1>1 DEF WellTurn, ToolPcs
  <2> QED
    BY <1>0, <1>3, <2>1 DEF WellTurn
<1>5. TypeOK'
  BY <1>0, <1>3 DEF TypeOK, TurnType, ChatType
<1>6. BusyMeansRunning'
  <2>0. Running(t)' /\ turn'[t].of = owner /\ turn'[t].pc = "request" /\ ~Running(t)
    BY <1>1, <1>3 DEF Running
  <2>1. ASSUME NEW c \in Chats, chat'[c].slot \in TurnIds
        PROVE  turn'[chat'[c].slot].pc \notin {"unused", "ended"}
               /\ turn'[chat'[c].slot].of = c
    <3>1. CASE c = owner
      BY <2>0, <3>1
    <3>2. CASE c # owner
      BY <1>0, <1>3, <2>0, <2>1, <3>2 DEF BusyMeansRunning, Running
    <3> QED
      BY <3>1, <3>2
  <2>2. ASSUME NEW r \in Requests, runs'[r] # None
        PROVE  turn'[runs'[r]].pc \notin {"unused", "ended"} /\ turn'[runs'[r]].of = r
    <3>1. CASE r = owner
      BY <2>0, <3>1
    <3>2. CASE r # owner
      BY <1>0, <1>3, <2>0, <2>2, <3>2 DEF BusyMeansRunning, Running
    <3> QED
      BY <3>1, <3>2
  <2>3. ASSUME NEW u \in TurnIds, Running(u)', turn'[u].of \in Requests
        PROVE  runs'[turn'[u].of] = u
    <3>1. CASE u = t
      BY <2>0, <2>3, <3>1
    <3>2. CASE u # t
      <4>1. runs[turn[u].of] = u /\ turn[u].of \in Requests /\ turn'[u].of = turn[u].of
        BY <1>0, <1>3, <2>3, <3>2 DEF BusyMeansRunning, Running, IsDirect
      <4> QED
        BY <1>0, <4>1
    <3> QED
      BY <3>1, <3>2
  <2>4. ASSUME NEW u \in TurnIds, Heeds(u)', turn'[u].of \notin Requests, ~turn'[u].cancel
        PROVE  chat'[turn'[u].of].slot = u
    <3>1. CASE u = t
      BY <2>0, <2>4, <3>1
    <3>2. CASE u # t
      <4>1. chat[turn[u].of].slot = u /\ turn'[u].of = turn[u].of
        BY <1>0, <1>3, <2>4, <3>2 DEF BusyMeansRunning, Heeds, IsDirect
      <4>2. turn[u].of \in Chats
        BY <1>0, <1>3, <2>4, <3>2 DEF WellTurn, Heeds, TypeOK
      <4> QED
        BY <4>1, <4>2
    <3> QED
      BY <3>1, <3>2
  <2> QED
    BY <2>1, <2>2, <2>3, <2>4 DEF BusyMeansRunning, Running, IsDirect, Heeds
<1>7. RestoredVacant'
  BY <1>0 DEF RestoredVacant
<1>8. \A i \in Ids : broker[i] # t
  BY <1>0 DEF NoWaiterLeaks
<1>9. \A u \in TurnIds : turn'[u].pc \in WaitPcs => u # t
  BY <1>1, <1>3 DEF WaitPcs
<1>10. WaitersRegistered'
  BY <1>0, <1>3, <1>9 DEF WaitersRegistered, WaitPcs
<1>11. NoWaiterLeaks'
  <2> SUFFICES ASSUME NEW i \in Ids, broker[i] # None
               PROVE  \/ turn'[broker[i]].pc \in WaitPcs /\ Head(turn'[broker[i]].calls) = i
                      \/ turn'[broker[i]].pc = "closing"
    BY DEF NoWaiterLeaks, WaitPcs
  <2>1. broker[i] \in TurnIds
    BY <1>0 DEF TypeOK
  <2> QED
    BY <1>0, <1>3, <1>8, <2>1 DEF NoWaiterLeaks, WaitPcs
<1>12. RepliesTaken'
  <2>1. ASSUME NEW u \in TurnIds, turn'[u].pc \in WaitPcs, turn'[u].reply # "none"
        PROVE  broker'[Head(turn'[u].calls)] # u
    BY <1>0, <1>3, <1>9, <2>1 DEF RepliesTaken
  <2>2. ASSUME NEW i \in Ids, broker'[i] # None
        PROVE  turn'[broker'[i]].of \in Chats
    <3>1. broker[i] \in TurnIds /\ broker[i] # t /\ broker[i] # None
      BY <1>0, <1>8, <2>2 DEF TypeOK
    <3> QED
      BY <1>0, <1>3, <3>1 DEF RepliesTaken
  <2> QED
    BY <2>1, <2>2 DEF RepliesTaken
<1>13. CallsAreAnswered'
  <2>1. Range(turn[t].calls) = {}
    BY <1>0 DEF WellTurn, ToolPcs, Range
  <2> QED
    BY <1>3, <2>1, CallsKept
<1>14. EveryTurnAnswers'
  BY <1>4 DEF WellTurn, EveryTurnAnswers
<1> QED
  BY <1>4, <1>5, <1>6, <1>7, <1>10, <1>11, <1>12, <1>13, <1>14
     DEF TurnsInv, TurnsAccounted, WaitersMatch

\* The events that begin a turn.
LEMMA BeginStepKeeps ==
    ASSUME TurnsInv, NEW t \in TurnIds,
           \/ \E c \in Chats : ChatComplete(c, t)
           \/ Prompt(t) /\ turn' # turn
           \/ \E r \in Requests : CompletionRequest(r, t)
    PROVE  TurnsInv'
<1>0. /\ TypeOK /\ chat \in [Chats -> ChatType] /\ turn[t].pc = "unused"
      /\ \A d \in Chats : chat[d].left \subseteq chat[d].open
      /\ None \notin TurnIds /\ Vacant \notin TurnIds /\ None # Vacant
      /\ Chats \cap Requests = {}
      /\ UNCHANGED <<broker, noTools, loop>>
  BY Bounds DEF TurnsInv, TurnsAccounted, TypeOK, ChatType, ChatComplete, Prompt,
     CompletionRequest, IsNext
<1>1. ASSUME NEW c \in Chats, NEW ch \in ChatType, ch.left \subseteq ch.open,
             chat[c].slot \notin TurnIds, ch.slot = Vacant,
             ch.open \ ch.left \subseteq chat[c].open \ chat[c].left,
             NEW legacy \in BOOLEAN, runs' = runs,
             chat' = [chat EXCEPT ![c] = BeginTurn(ch, t)], turn' = Started(t, c, legacy)
      PROVE  TurnsInv'
  <2> DEFINE b == BeginTurn(ch, t)
  <2>1. b \in ChatType /\ b.slot = t /\ ~b.restored /\ b.open = ch.open /\ b.left = ch.left
    BY <1>1 DEF BeginTurn, ChatType
  <2> HIDE DEF b
  <2>2. /\ chat' \in [Chats -> ChatType] /\ chat'[c] = b
        /\ \A e \in Chats : e # c => chat'[e] = chat[e]
        /\ \A e \in Chats : chat'[e].left \subseteq chat'[e].open
    BY <1>0, <1>1, <2>1, ChatEdited DEF b
  <2>3. \A d \in Chats :
                /\ chat'[d].left \subseteq chat'[d].open
                /\ chat'[d].open \ chat'[d].left \subseteq chat[d].open \ chat[d].left
                /\ d # c => chat'[d] = chat[d]
                /\ d = c => /\ chat[d].slot \notin TurnIds
                            /\ chat'[d].slot = t /\ ~chat'[d].restored
    BY <1>1, <2>1, <2>2
  <2>4. /\ runs' \in [Requests -> TurnIds \cup {None}]
        /\ \A r \in Requests : /\ r # c => runs'[r] = runs[r]
                               /\ r = c => runs[r] = None /\ runs'[r] = t
    BY <1>0, <1>1 DEF TypeOK
  <2>5. c \in Chats \cup Requests /\ (legacy => c \in Chats)
    OBVIOUS
  <2> QED
    BY <1>0, <1>1, <2>2, <2>3, <2>4, <2>5, BeginKeeps
<1>2. ASSUME NEW c \in Chats, ChatComplete(c, t) PROVE TurnsInv'
  <2>1. /\ chat[c] \in ChatType /\ chat[c].left \subseteq chat[c].open
        /\ chat[c].slot = Vacant /\ chat' = [chat EXCEPT ![c] = BeginTurn(chat[c], t)]
        /\ turn' = Started(t, c, FALSE) /\ runs' = runs
    BY <1>0, <1>2 DEF ChatComplete
  <2> QED
    BY <1>0, <1>1, <2>1
<1>3. CASE Prompt(t) /\ turn' # turn
  <2> DEFINE c == Default
             base == IF chat[c].slot = None THEN Fresh ELSE chat[c]
             ch == Asked(base, {})
  <2>1. /\ c \in Chats /\ ch.slot = Vacant /\ chat' = [chat EXCEPT ![c] = BeginTurn(ch, t)]
        /\ turn' = Started(t, c, TRUE) /\ runs' = runs
    BY <1>3, Bounds DEF Prompt
  <2>2. base \in ChatType /\ base.left \subseteq base.open
        /\ base.open \ base.left \subseteq chat[c].open \ chat[c].left
    BY <1>0, <2>1, FreshFacts
  <2>3. (chat[c].slot = None /\ base = Fresh) \/ base = chat[c]
    OBVIOUS
  <2> HIDE DEF base
  <2>4. /\ ch \in ChatType /\ ch.open = base.open \cup {} /\ ch.left = base.left
        /\ ch.slot = base.slot
    <3>1. {} \in SUBSET Ids
      OBVIOUS
    <3> QED
      BY <2>2, <3>1, HistoryEdits
  <2> HIDE DEF ch
  <2>5. ch.left \subseteq ch.open /\ ch.open \ ch.left \subseteq chat[c].open \ chat[c].left
    BY <2>2, <2>4
  <2>6. chat[c].slot \notin TurnIds
    BY <1>0, <2>1, <2>3, <2>4
  <2> QED
    BY <1>1, <2>1, <2>4, <2>5, <2>6
<1>4. ASSUME NEW r \in Requests, CompletionRequest(r, t) PROVE TurnsInv'
  <2>1. /\ runs[r] = None /\ runs' = [runs EXCEPT ![r] = t] /\ chat' = chat
        /\ turn' = Started(t, r, FALSE) /\ FALSE \in BOOLEAN
    BY <1>4 DEF CompletionRequest
  <2>2. /\ runs' \in [Requests -> TurnIds \cup {None}]
        /\ \A s \in Requests : /\ s # r => runs'[s] = runs[s]
                               /\ s = r => runs[s] = None /\ runs'[s] = t
    BY <1>0, <2>1 DEF TypeOK
  <2>3. \A c \in Chats :
                /\ chat'[c].left \subseteq chat'[c].open
                /\ chat'[c].open \ chat'[c].left \subseteq chat[c].open \ chat[c].left
                /\ c # r => chat'[c] = chat[c]
                /\ c = r => /\ chat[c].slot \notin TurnIds
                            /\ chat'[c].slot = t /\ ~chat'[c].restored
    BY <1>0, <2>1
  <2>4. r \in Chats \cup Requests /\ chat' \in [Chats -> ChatType]
    BY <1>0, <2>1
  <2> QED
    BY <1>0, <2>1, <2>2, <2>3, <2>4, BeginKeeps
<1> QED
  BY <1>2, <1>3, <1>4

\* Tokens are triggered: what a turn was told cannot be taken back, and a chat
\* disappears only with its turn told so.
LEMMA TokensKeep ==
    ASSUME TurnsInv, UNCHANGED <<runs, broker, noTools>>,
           loop' \in {"dispatch", "exit", "joined"}, Dispatching' => Dispatching,
           turn' \in [TurnIds -> TurnType],
           \A u \in TurnIds :
                /\ turn'[u].pc = turn[u].pc /\ turn'[u].of = turn[u].of
                /\ turn'[u].calls = turn[u].calls /\ turn'[u].legacy = turn[u].legacy
                /\ turn'[u].reply = turn[u].reply /\ turn'[u].finish = turn[u].finish
                /\ turn'[u].terminal = turn[u].terminal /\ turn'[u].failed = turn[u].failed
                /\ turn[u].cancel => turn'[u].cancel
                /\ turn[u].suppress => turn'[u].suppress,
           chat' \in [Chats -> ChatType],
           \A c \in Chats :
                \/ chat'[c] = chat[c]
                \/ /\ chat'[c] = NoChat
                   /\ \A u \in TurnIds : Heeds(u) /\ chat[c].slot = u => turn'[u].cancel
    PROVE  TurnsInv'
<1>0. /\ TypeOK /\ \A u \in TurnIds : WellTurn(turn[u])
      /\ BusyMeansRunning /\ RestoredVacant
      /\ WaitersRegistered /\ NoWaiterLeaks /\ RepliesTaken /\ None \notin TurnIds
  BY Bounds DEF TurnsInv, TurnsAccounted, WaitersMatch
<1>1. \A u \in TurnIds : WellTurn(turn[u])'
  BY <1>0 DEF WellTurn
<1>2. TypeOK'
  BY <1>0, FreshFacts DEF TypeOK, TurnType, ChatType
<1>3. RestoredVacant'
  BY <1>0, FreshFacts DEF RestoredVacant
<1>4. BusyMeansRunning'
  <2>1. ASSUME NEW c \in Chats, chat'[c].slot \in TurnIds
        PROVE  turn'[chat'[c].slot].pc \notin {"unused", "ended"}
               /\ turn'[chat'[c].slot].of = c
    <3>1. chat'[c].slot = chat[c].slot
      BY <1>0, <2>1, FreshFacts
    <3> QED
      BY <1>0, <2>1, <3>1 DEF BusyMeansRunning, Running
  <2>2. ASSUME NEW r \in Requests, runs'[r] # None
        PROVE  turn'[runs'[r]].pc \notin {"unused", "ended"} /\ turn'[runs'[r]].of = r
    <3>1. runs[r] \in TurnIds
      BY <1>0, <2>2 DEF TypeOK
    <3> QED
      BY <1>0, <2>2, <3>1 DEF BusyMeansRunning, Running
  <2>3. ASSUME NEW u \in TurnIds, Running(u)', turn'[u].of \in Requests
        PROVE  runs'[turn'[u].of] = u
    BY <1>0, <2>3 DEF BusyMeansRunning, Running, IsDirect
  <2>4. ASSUME NEW u \in TurnIds, Heeds(u)', turn'[u].of \notin Requests, ~turn'[u].cancel
        PROVE  chat'[turn'[u].of].slot = u
    <3>1. Heeds(u) /\ turn[u].of \notin Requests /\ ~turn[u].cancel
      BY <2>4 DEF Heeds
    <3>2. chat[turn[u].of].slot = u
      BY <1>0, <3>1 DEF BusyMeansRunning, IsDirect
    <3>3. turn[u].of \in Chats
      BY <1>0, <3>1 DEF WellTurn, Heeds, TypeOK
    <3> QED
      BY <2>4, <3>1, <3>2, <3>3
  <2> QED
    BY <2>1, <2>2, <2>3, <2>4 DEF BusyMeansRunning, Running, IsDirect, Heeds
<1>5. WaitersMatch' /\ RepliesTaken'
  BY WaitersKept
<1>6. CallsAreAnswered'
  BY FreshFacts, CallsKept
<1>7. EveryTurnAnswers'
  BY <1>1 DEF WellTurn, EveryTurnAnswers
<1> QED
  BY <1>1, <1>2, <1>3, <1>4, <1>5, <1>6, <1>7 DEF TurnsInv, TurnsAccounted

\* Interrupts, cancels, deletion and shutdown.
LEMMA TokenStepKeeps ==
    ASSUME TurnsInv,
           \/ \E c \in Chats : ChatDelete(c) \/ ChatCancel(c) \/ Interrupt({c})
           \/ Interrupt(Chats) \/ Shutdown \/ Joined
           \/ \E r \in Requests : CompletionCancel(r)
    PROVE  TurnsInv'
<1>0. /\ TypeOK /\ chat \in [Chats -> ChatType] /\ turn \in [TurnIds -> TurnType]
      /\ UNCHANGED <<runs, broker, noTools>>
      /\ loop' \in {"dispatch", "exit", "joined"} /\ (Dispatching' => Dispatching)
  BY DEF TurnsInv, TurnsAccounted, TypeOK, ChatType, TurnType, ChatDelete, ChatCancel,
     Interrupt, Shutdown, Joined, CompletionCancel, Dispatching
<1> DEFINE Told(f) ==
            /\ f \in [TurnIds -> TurnType]
            /\ \A u \in TurnIds :
                /\ f[u].pc = turn[u].pc /\ f[u].of = turn[u].of
                /\ f[u].calls = turn[u].calls /\ f[u].legacy = turn[u].legacy
                /\ f[u].reply = turn[u].reply /\ f[u].finish = turn[u].finish
                /\ f[u].terminal = turn[u].terminal /\ f[u].failed = turn[u].failed
                /\ turn[u].cancel => f[u].cancel
                /\ turn[u].suppress => f[u].suppress
<1>1. ASSUME NEW cs \in SUBSET Chats
      PROVE  Told(Interrupted(cs))
             /\ \A c \in cs : \A u \in TurnIds :
                    Heeds(u) /\ chat[c].slot = u => Interrupted(cs)[u].cancel
  <2>1. ASSUME NEW u \in TurnIds, NEW w, w = [turn[u] EXCEPT !.cancel = TRUE]
        PROVE  /\ w \in TurnType /\ w.cancel /\ w.pc = turn[u].pc /\ w.of = turn[u].of
               /\ w.calls = turn[u].calls /\ w.legacy = turn[u].legacy
               /\ w.reply = turn[u].reply /\ w.finish = turn[u].finish
               /\ w.terminal = turn[u].terminal /\ w.failed = turn[u].failed
               /\ w.suppress = turn[u].suppress
    <3>1. turn[u] \in TurnType
      BY <1>0
    <3>2. w \in TurnType
      BY <2>1, <3>1, Zenon DEF TurnType
    <3> QED
      BY <2>1, <3>1, <3>2 DEF TurnType
  <2> QED
    BY <1>0, <2>1 DEF Interrupted
<1>2. ASSUME NEW t \in TurnIds PROVE Told(Suppressed(t))
  <2> DEFINE k == turn[t].cancel \/ Heeds(t)
             w == [turn[t] EXCEPT !.suppress = TRUE, !.cancel = k]
  <2>0. turn[t] \in TurnType /\ (turn[t].cancel => k)
    BY <1>0
  <2>1. k \in BOOLEAN
    OBVIOUS
  <2>2. Suppressed(t) = [turn EXCEPT ![t] = w]
    BY <1>0 DEF Suppressed
  <2> HIDE DEF k
  <2>3. w \in TurnType
    BY <2>0, <2>1, Zenon DEF TurnType
  <2>4. /\ w.suppress /\ w.cancel = k /\ w.pc = turn[t].pc /\ w.of = turn[t].of
        /\ w.calls = turn[t].calls /\ w.legacy = turn[t].legacy
        /\ w.reply = turn[t].reply /\ w.finish = turn[t].finish
        /\ w.terminal = turn[t].terminal /\ w.failed = turn[t].failed
    BY <2>0 DEF TurnType
  <2> HIDE DEF w
  <2>5. /\ Suppressed(t)[t] = w /\ Suppressed(t) \in [TurnIds -> TurnType]
        /\ \A u \in TurnIds : u # t => Suppressed(t)[u] = turn[u]
    BY <1>0, <2>2, <2>3
  <2> QED
    BY <2>0, <2>4, <2>5
<1>3. Told(turn)
  BY <1>0
<1>4. ASSUME NEW c \in Chats, ChatDelete(c) PROVE TurnsInv'
  <2>1. turn' = Interrupted({c}) /\ chat' = [chat EXCEPT ![c] = NoChat]
    BY <1>4 DEF ChatDelete
  <2>2. /\ chat' \in [Chats -> ChatType] /\ chat'[c] = NoChat
        /\ \A d \in Chats : d # c => chat'[d] = chat[d]
    BY <1>0, <2>1, FreshFacts
  <2>3. Told(turn') /\ \A u \in TurnIds : Heeds(u) /\ chat[c].slot = u => turn'[u].cancel
    BY <1>1, <2>1
  <2> QED
    BY <1>0, <2>2, <2>3, TokensKeep
<1>5. ASSUME Told(turn'), chat' = chat PROVE TurnsInv'
  BY <1>0, <1>5, TokensKeep
<1>6. ASSUME NEW c \in Chats, ChatCancel(c) \/ Interrupt({c}) PROVE TurnsInv'
  <2>1. Told(turn') /\ chat' = chat
    BY <1>1, <1>2, <1>6 DEF ChatCancel, Interrupt
  <2> HIDE DEF Told
  <2> QED
    BY <1>5, <2>1
<1>7. CASE Interrupt(Chats) \/ Shutdown \/ Joined
  <2>1. Told(turn') /\ chat' = chat
    BY <1>1, <1>3, <1>7 DEF Interrupt, Shutdown, Joined
  <2> HIDE DEF Told
  <2> QED
    BY <1>5, <2>1
<1>8. ASSUME NEW r \in Requests, CompletionCancel(r) PROVE TurnsInv'
  <2>1. runs[r] \in TurnIds
    BY <1>0, <1>8 DEF CompletionCancel, TypeOK
  <2>2. Told(turn') /\ chat' = chat
    BY <1>2, <1>8, <2>1 DEF CompletionCancel
  <2> HIDE DEF Told
  <2> QED
    BY <1>5, <2>2
<1> QED
  BY <1>4, <1>6, <1>7, <1>8


-----------------------------------------------------------------------------
(* The theorems. *)

\* The program starts with no chats, no turns and no waiters.
LEMMA InitHolds ==
    ASSUME Init
    PROVE  TurnsInv
<1>1. /\ chat \in [Chats -> ChatType] /\ turn \in [TurnIds -> TurnType]
      /\ \A c \in Chats : chat[c] = NoChat
      /\ \A t \in TurnIds : turn[t] = Idle
  BY FreshFacts, IdleFacts DEF Init
<1>2. TypeOK
  BY <1>1, FreshFacts DEF Init, TypeOK, ChatType, TurnType
<1>3. BusyMeansRunning /\ RestoredVacant /\ EveryTurnAnswers
  BY <1>1, FreshFacts, IdleFacts, Bounds
     DEF Init, BusyMeansRunning, RestoredVacant, EveryTurnAnswers, Running, Heeds
<1>4. WaitersMatch /\ RepliesTaken
  BY <1>1, IdleFacts
     DEF Init, WaitersMatch, WaitersRegistered, NoWaiterLeaks, RepliesTaken, WaitPcs
<1>5. CallsAreAnswered
  BY <1>1, FreshFacts DEF CallsAreAnswered
<1>6. \A t \in TurnIds : WellTurn(turn[t])
  BY <1>1, IdleFacts DEF WellTurn, ToolPcs
<1> QED
  BY <1>2, <1>3, <1>4, <1>5, <1>6 DEF TurnsInv, TurnsAccounted

\* A step of the dispatch loop.
LEMMA DispatchHolds ==
    ASSUME TurnsInv, Dispatch \/ Joined
    PROVE  TurnsInv'
<1>1. ASSUME NEW c \in Chats, ChatCreate(c) \/ ChatRestore(c) \/ ChatAppend(c)
      PROVE  TurnsInv'
  BY <1>1, ChatStepKeeps
<1>2. ASSUME NEW c \in Chats, ChatDelete(c) \/ ChatCancel(c) \/ Interrupt({c})
      PROVE  TurnsInv'
  BY <1>2, TokenStepKeeps
<1>3. ASSUME NEW c \in Chats, NEW t \in TurnIds, ChatComplete(c, t) PROVE TurnsInv'
  BY <1>3, BeginStepKeeps
<1>4. ASSUME NEW t \in TurnIds, Prompt(t) PROVE TurnsInv'
  <2>1. Default \in Chats
    BY Bounds
  <2>2. CASE turn' = turn
    BY <1>4, <2>1, <2>2, ChatStepKeeps
  <2>3. CASE turn' # turn
    BY <1>4, <2>3, BeginStepKeeps
  <2> QED
    BY <2>2, <2>3
<1>5. CASE Interrupt(Chats) \/ Shutdown \/ Joined
  BY <1>5, TokenStepKeeps
<1>6. CASE Reset
  BY <1>6, Bounds, ChatStepKeeps
<1>7. ASSUME NEW r \in Requests, CompletionCancel(r) PROVE TurnsInv'
  BY <1>7, TokenStepKeeps
<1>8. ASSUME NEW r \in Requests, NEW t \in TurnIds, CompletionRequest(r, t) PROVE TurnsInv'
  BY <1>8, BeginStepKeeps
<1>9. ASSUME NEW i \in Ids, ToolResult(i) PROVE TurnsInv'
  BY <1>9, ToolResultKeeps
<1> QED
  BY <1>1, <1>2, <1>3, <1>4, <1>5, <1>6, <1>7, <1>8, <1>9 DEF Dispatch

\* A step of a turn's task or of the endpoint it talks to.
LEMMA TurnStepHolds ==
    ASSUME TurnsInv, NEW t \in TurnIds, TurnStep(t) \/ Endpoint(t) \/ OutputRefused(t)
    PROVE  TurnsInv'
<1>1. CASE TurnStep(t)
  BY <1>1, OwnStepKeeps, CutKeeps, ToolStepKeeps, ReportKeeps, ReapKeeps, FinishKeeps
     DEF TurnStep
<1>2. CASE Endpoint(t)
  BY <1>2, OwnStepKeeps, CallsOpenKeeps DEF Endpoint
<1>3. CASE OutputRefused(t)
  BY <1>3, CutKeeps
<1> QED
  BY <1>1, <1>2, <1>3

\* A step that changes nothing.
LEMMA StutterHolds ==
    ASSUME TurnsInv, UNCHANGED vars
    PROVE  TurnsInv'
<1>1. chat \in [Chats -> ChatType] /\ \A c \in Chats : chat[c].left \subseteq chat[c].open
  BY DEF TurnsInv, TurnsAccounted, TypeOK, ChatType
<1> QED
  BY <1>1, ChatEditKeeps DEF vars

\* The inductive invariant holds throughout.
LEMMA InvariantHolds == Spec => []TurnsInv
<1>1. Init => TurnsInv
  BY InitHolds
<1>2. TurnsInv /\ [Next]_vars => TurnsInv'
  BY DispatchHolds, TurnStepHolds, StutterHolds DEF Next
<1> QED
  BY <1>1, <1>2, PTL DEF Spec

\* Chats, completion ids and the tasks that work for them agree, and every
\* turn answers, in every order of deletion, cancellation, refusal and end.
THEOREM OpenaiTurnsAccounted == Spec => []TurnsAccounted
<1>1. TurnsInv => TurnsAccounted
  BY DEF TurnsInv
<1> QED
  BY <1>1, InvariantHolds, PTL

\* The waiters at the ToolBroker are the waits of the running turns, however
\* the model repeats its call ids.
THEOREM OpenaiWaitersMatch == Spec => []WaitersMatch
<1>1. TurnsInv => WaitersMatch
  BY DEF TurnsInv
<1> QED
  BY <1>1, InvariantHolds, PTL

\* No tool call of a history is forgotten: a turn answers it, or it was left
\* to the caller.
THEOREM OpenaiCallsAnswered == Spec => []CallsAreAnswered
<1>1. TurnsInv => CallsAreAnswered
  BY DEF TurnsInv
<1> QED
  BY <1>1, InvariantHolds, PTL

\* What a step makes of the last word of a turn that was suppressed before.
LEMMA SilentStep ==
    ASSUME TurnsInv, Next, NEW t \in TurnIds, turn[t].suppress
    PROVE  turn'[t].terminal \in {turn[t].terminal, "none"}
<1>0. /\ turn \in [TurnIds -> TurnType] /\ turn[t] \in TurnType /\ TypeOK
      /\ \A u \in TurnIds : WellTurn(turn[u])
  BY DEF TypeOK, TurnType, TurnsInv, TurnsAccounted
<1>1. ASSUME NEW u \in TurnIds, NEW failed \in BOOLEAN, turn' = Dropped(u, failed)
      PROVE  turn'[t].terminal \in {turn[t].terminal, "none"}
  <2>1. PICK w \in TurnType : turn' = [turn EXCEPT ![u] = w] /\ w.terminal = "none"
    BY <1>0, <1>1, DroppedFacts
  <2> QED
    BY <1>0, <2>1
<1>2. ASSUME NEW u \in TurnIds, NEW finish \in Finishes, turn' = Concluding(u, finish)
      PROVE  turn'[t].terminal \in {turn[t].terminal, "none"}
  <2>1. PICK w \in TurnType : turn' = [turn EXCEPT ![u] = w] /\ w.terminal = "none"
    BY <1>0, <1>2, ConcludingFacts
  <2> QED
    BY <1>0, <2>1
<1>3. {"result", "interrupted", "error"} \subseteq Finishes
  BY DEF Finishes
<1>4. \A u \in TurnIds : Responded(u).terminal = turn[u].terminal
  BY <1>0 DEF Responded, TurnType
<1>5. ASSUME NEW c \in Chats \cup Requests, NEW legacy \in BOOLEAN, NEW u \in TurnIds,
             turn' = Started(u, c, legacy)
      PROVE  turn'[t].terminal \in {turn[t].terminal, "none"}
  BY <1>0, <1>5, IdleFacts DEF Started, TurnType
<1>6. ASSUME NEW cs \in SUBSET Chats, turn' = Interrupted(cs)
      PROVE  turn'[t].terminal \in {turn[t].terminal, "none"}
  BY <1>0, <1>6 DEF Interrupted, TurnType
<1>7. ASSUME NEW u \in TurnIds, turn' = Suppressed(u)
      PROVE  turn'[t].terminal \in {turn[t].terminal, "none"}
  BY <1>0, <1>7 DEF Suppressed, TurnType
<1>8. CASE Dispatch \/ Joined
  <2>1. ASSUME NEW c \in Chats,
               \/ ChatCreate(c) \/ ChatRestore(c) \/ ChatAppend(c) \/ Reset \/ Joined
        PROVE  turn'[t].terminal \in {turn[t].terminal, "none"}
    BY <2>1 DEF ChatCreate, ChatRestore, ChatAppend, Reset, Joined
  <2>2. ASSUME NEW c \in Chats, \/ ChatDelete(c) \/ Interrupt({c}) \/ Interrupt(Chats)
                                \/ Shutdown \/ ChatCancel(c)
        PROVE  turn'[t].terminal \in {turn[t].terminal, "none"}
    BY <1>6, <1>7, <2>2 DEF ChatDelete, Interrupt, Shutdown, ChatCancel
  <2>3. ASSUME NEW c \in Chats, NEW u \in TurnIds, ChatComplete(c, u)
        PROVE  turn'[t].terminal \in {turn[t].terminal, "none"}
    BY <1>5, <2>3 DEF ChatComplete
  <2>4. ASSUME NEW u \in TurnIds, Prompt(u)
        PROVE  turn'[t].terminal \in {turn[t].terminal, "none"}
    BY <1>5, <2>4, Bounds DEF Prompt
  <2>5. ASSUME NEW r \in Requests, CompletionCancel(r)
        PROVE  turn'[t].terminal \in {turn[t].terminal, "none"}
    <3>1. runs[r] \in TurnIds
      BY <1>0, <2>5 DEF CompletionCancel, TypeOK
    <3> QED
      BY <1>7, <2>5, <3>1 DEF CompletionCancel
  <2>6. ASSUME NEW r \in Requests, NEW u \in TurnIds, CompletionRequest(r, u)
        PROVE  turn'[t].terminal \in {turn[t].terminal, "none"}
    BY <1>5, <2>6 DEF CompletionRequest
  <2>7. ASSUME NEW i \in Ids, ToolResult(i)
        PROVE  turn'[t].terminal \in {turn[t].terminal, "none"}
    BY <1>0, <2>7 DEF ToolResult, TurnType
  <2> QED
    BY <1>8, <2>1, <2>2, <2>3, <2>4, <2>5, <2>6, <2>7, Bounds DEF Dispatch
<1>9. ASSUME NEW u \in TurnIds, TurnStep(u) \/ Endpoint(u) \/ OutputRefused(u)
      PROVE  turn'[t].terminal \in {turn[t].terminal, "none"}
  <2>1. CASE PublisherStops(u) \/ OutputRefused(u)
    BY <1>1, <2>1 DEF PublisherStops, OutputRefused
  <2>2. CASE Drain(u) \/ Backoff(u) \/ BadCall(u) \/ Invoke(u) \/ ToolReplied(u)
             \/ ReapAbandoned(u)
    <3>1. ASSUME NEW pc, turn' = [turn EXCEPT ![u].pc = pc]
          PROVE  turn'[t].terminal \in {turn[t].terminal, "none"}
      BY <1>0, <3>1 DEF TurnType
    <3>2. CASE Drain(u)
      BY <1>0, <3>2 DEF Drain, TurnType
    <3>3. CASE ToolReplied(u)
      BY <1>0, <3>3 DEF ToolReplied, TurnType
    <3> QED
      BY <2>2, <3>1, <3>2, <3>3 DEF Backoff, BadCall, Invoke, ReapAbandoned
  <2>3. CASE Request(u)
    <3>1. CASE turn' = [turn EXCEPT ![u].pc = "stream"]
      BY <1>0, <3>1 DEF TurnType
    <3> QED
      BY <1>2, <1>3, <2>3, <3>1 DEF Request
  <2>4. CASE StreamInterrupted(u) \/ StreamFails(u) \/ StreamCompletes(u)
    BY <1>2, <1>3, <2>4 DEF StreamInterrupted, StreamFails, StreamCompletes
  <2>5. CASE Delta(u)
    <3>1. CASE turn' = [turn EXCEPT ![u].queued = @ + 1, ![u].shown = TRUE]
      BY <1>0, <3>1 DEF TurnType
    <3> QED
      BY <1>1, <2>5, <3>1 DEF Delta
  <2>6. ASSUME NEW is429 \in BOOLEAN, Transient(u, is429)
        PROVE  turn'[t].terminal \in {turn[t].terminal, "none"}
    <3>1. ASSUME NEW a, NEW r, NEW l,
                 turn' = [turn EXCEPT ![u].pc = "backoff", ![u].queued = @ + 1,
                            ![u].attempt = a, ![u].round = r, ![u].limited = l]
          PROVE  turn'[t].terminal \in {turn[t].terminal, "none"}
      BY <1>0, <3>1 DEF TurnType
    <3> QED
      BY <1>1, <1>2, <1>3, <2>6, <3>1 DEF Transient
  <2>7. CASE ToolsUnsupported(u)
    BY <1>0, <1>4, <2>7 DEF ToolsUnsupported, TurnType, Responded
  <2>8. ASSUME NEW calls \in Batches, StreamCompletesWithCalls(u, calls)
        PROVE  turn'[t].terminal \in {turn[t].terminal, "none"}
    <3>1. CASE turn' = [turn EXCEPT ![u] =
                            [Responded(u) EXCEPT !.pc = "tool", !.calls = calls]]
      BY <1>0, <1>4, <3>1 DEF TurnType, Responded
    <3> QED
      BY <1>2, <1>3, <2>8, <3>1 DEF StreamCompletesWithCalls
  <2>9. CASE RunTool(u) \/ ToolTimesOut(u) \/ ToolInterrupted(u)
    <3> DEFINE d == Displaced(Head(turn[u].calls))
    <3>1. d \in [TurnIds -> TurnType] /\ d[t].terminal = turn[t].terminal
      <4>1. turn[u].calls \in Seq(Ids) \ {<<>>}
        BY <1>0, <2>9 DEF RunTool, ToolTimesOut, ToolInterrupted, WellTurn, ToolPcs, TurnType
      <4>2. Head(turn[u].calls) \in Ids
        BY <4>1
      <4> QED
        BY <1>0, <4>2, DisplacedFacts
    <3>2. ASSUME NEW pc, turn' = [d EXCEPT ![u].pc = pc, ![u].reply = "none"]
          PROVE  turn'[t].terminal \in {turn[t].terminal, "none"}
      <4> HIDE DEF d
      <4> QED
        BY <3>1, <3>2 DEF TurnType
    <3>3. CASE ToolInterrupted(u)
      <4>1. PICK w \in TurnType : Concluding(u, "interrupted")[u] = w /\ w.terminal = "none"
        BY <1>0, <1>3, ConcludingFacts
      <4>2. turn' = [d EXCEPT ![u] = w]
        BY <3>3, <4>1 DEF ToolInterrupted
      <4> HIDE DEF d
      <4> QED
        BY <3>1, <4>1, <4>2
    <3> QED
      BY <2>9, <3>2, <3>3 DEF RunTool, ToolTimesOut
  <2>10. CASE Report(u)
    <3> DEFINE rest == Tail(turn[u].calls)
    <3>1. CASE turn' = [turn EXCEPT ![u].pc = "tool", ![u].calls = rest]
      BY <1>0, <3>1 DEF TurnType
    <3>2. CASE turn' = [turn EXCEPT ![u].pc = "request", ![u].calls = <<>>,
                            ![u].iteration = @ + 1]
      BY <1>0, <3>2 DEF TurnType
    <3> QED
      BY <1>2, <1>3, <2>10, <3>1, <3>2 DEF Report
  <2>11. CASE Conclude(u)
    <3>1. u # t
      BY <2>11 DEF Conclude, MaySend, Cut
    <3> QED
      BY <1>0, <2>11, <3>1 DEF Conclude
  <2>12. CASE Terminal(u)
    <3>1. u = t => Cut(u)
      BY DEF Cut
    <3> QED
      BY <1>0, <2>12, <3>1 DEF Terminal, TurnType
  <2>13. CASE FinishTurn(u)
    BY <1>0, <2>13, IdleFacts DEF FinishTurn, TurnType
  <2> QED
    BY <1>9, <2>1, <2>2, <2>3, <2>4, <2>5, <2>6, <2>7, <2>8, <2>9, <2>10, <2>11, <2>12,
       <2>13 DEF TurnStep, Endpoint
<1> QED
  BY <1>8, <1>9 DEF Next

\* A suppressed turn says nothing any more.
THEOREM OpenaiSuppressedStaysSilent == Spec => SuppressedStaysSilent
<1>1. TurnsInv /\ [Next]_vars =>
        [\A t \in TurnIds : turn[t].suppress =>
            turn'[t].terminal \in {turn[t].terminal, "none"}]_vars
  BY SilentStep
<1> QED
  BY <1>1, InvariantHolds, PTL DEF Spec, SuppressedStaysSilent

=============================================================================
