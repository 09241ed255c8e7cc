------------------------- MODULE ChatgptTurnsProofs -------------------------
(***************************************************************************)
(* Proofs about the turns of the ChatGPT provider, for any sets of chats,  *)
(* requests and web requests, any number of turns and any troubles: who    *)
(* holds a chat or a request, that every turn answers or has a reason not  *)
(* to, and that only the owner of a request finishes it.                   *)
(***************************************************************************)
EXTENDS ChatgptTurns, TLAPS

TurnType ==
    [pc : Pcs, of : Owners \cup {None}, cancel : BOOLEAN, hard : BOOLEAN,
     stage : 0..2, reasoning : BOOLEAN, broken : BOOLEAN, output : BOOLEAN,
     final : Results, probe : BOOLEAN, result : Results, withdrawn : BOOLEAN,
     late : BOOLEAN]

\* The points of run_turn.
InRunTurn == {"prepare", "admit", "open", "stream"}

\* What kind of owner a turn has shows at the point it is at.
OwnerKinds ==
    \A t \in TurnIds :
        /\ turn[t].pc = "web" => turn[t].of \in Webs
        /\ turn[t].pc = "compact" => turn[t].of \in Chats
        /\ turn[t].pc \in InRunTurn => turn[t].of \in Chats \cup Requests

\* A turn that has lost its entry was withdrawn, or has given it back; one that
\* has it was not; a withdrawn completion that still works is the one the
\* dispatch loop is about to stop, under an id that nobody has taken yet; and a
\* turn at the send that has lost its entry lost it after its look.
Withdrawals ==
    /\ \A t \in TurnIds :
        /\ Holding(t) /\ IsDirect(t) /\ direct[turn[t].of] # t =>
               turn[t].withdrawn \/ ShuttingDown
        /\ turn[t].pc \in InRunTurn /\ turn[t].withdrawn =>
               /\ loop = [at |-> "withdraw", turn |-> t]
               /\ turn[t].of \in Requests /\ direct[turn[t].of] = None
        /\ turn[t].pc = "publish" /\ IsDirect(t) /\ direct[turn[t].of] # t =>
               turn[t].late \/ ShuttingDown
    /\ \A r \in Entries : direct[r] # None => ~turn[direct[r]].withdrawn

\* A result is there only at the end, or for a web execution whose
\* cancellation has answered; what is about to be sent is there only between
\* the look and the end; and an end without either has its reason.
ResultsHeld ==
    \A t \in TurnIds :
        /\ turn[t].pc \notin {"publish", "ending", "web", "done"} => turn[t].result = "none"
        /\ turn[t].pc = "web" /\ turn[t].result # "none" => turn[t].withdrawn
        /\ turn[t].pc = "publish" /\ turn[t].result # "none" =>
               turn[t].of \in Webs /\ turn[t].late
        /\ turn[t].pc \in {"publish", "fallback"} => turn[t].final # "none"
        /\ turn[t].pc = "web" => turn[t].final = "none"
        /\ turn[t].pc \in {"ending", "fallback"} =>
               \/ turn[t].final = "none"
               \/ turn[t].final = "undelivered" /\ turn[t].result = "none"
                  /\ turn[t].of \notin Webs
        /\ turn[t].pc = "ending" /\ turn[t].result = "none" /\ turn[t].final = "none" =>
               turn[t].hard \/ turn[t].withdrawn \/ ShuttingDown
        /\ turn[t].hard => turn[t].of \notin Webs

\* The dispatch loop works for a turn that is there, and after its end every
\* task that still runs is finishing.
LoopAgrees ==
    /\ loop.at = "withdraw" =>
           loop.turn \in TurnIds /\ (Running(loop.turn) => turn[loop.turn].of \in Requests)
    /\ loop.at = "compact" => loop.turn \in TurnIds /\ turn[loop.turn].pc = "compact"
    /\ ShuttingDown => \A t \in TurnIds : Running(t) => Finishing(t)

TurnsInv == TurnsAccounted /\ OwnerKinds /\ Withdrawals /\ ResultsHeld /\ LoopAgrees

-----------------------------------------------------------------------------
(* The parts of TypeOK that only the retries touch. *)
RetryType ==
    /\ gate \in [open : BOOLEAN, due : BOOLEAN, probe : BOOLEAN]
    /\ noReasoning \in BOOLEAN

\* A step of run_turn that leaves the turn inside run_turn.
GoesOn(t) ==
    /\ turn[t].pc \in InRunTurn
    /\ \E w \in TurnType :
        /\ turn' = [turn EXCEPT ![t] = w]
        /\ w.pc \in InRunTurn /\ w.of = turn[t].of
        /\ w.withdrawn = turn[t].withdrawn /\ w.result = turn[t].result
    /\ UNCHANGED <<chat, direct, loop>>

\* A step that ends run_turn.
Concludes(t) ==
    /\ turn[t].pc \in InRunTurn
    /\ \E r \in Results \ {"none"} : Conclude(t, r)
    /\ UNCHANGED <<chat, direct, loop>>

\* The turn that has not begun is a well-formed one.
LEMMA IdleType == Idle \in TurnType /\ Idle.pc = "unused" /\ Idle.of = None
                  /\ Idle.result = "none" /\ ~Idle.hard /\ ~Idle.withdrawn /\ ~Idle.cancel
                  /\ Idle.final = "none" /\ ~Idle.late
BY DEF Idle, TurnType, Pcs, Results

\* What goes on inside run_turn changes nothing that others rely on.
LEMMA GoesOnKeeps ==
    ASSUME TurnsInv, NEW t \in TurnIds, GoesOn(t), RetryType'
    PROVE  TurnsInv'
<1>0. TypeOK /\ TypeOK' /\ Requests \cap Webs = {} /\ Chats \cap Webs = {}
  <2>1. turn' \in [TurnIds -> TurnType]
    BY DEF TurnsInv, TurnsAccounted, TypeOK, TurnType, GoesOn
  <2> QED
    BY <2>1, NamesAssumption DEF TurnsInv, TurnsAccounted, TypeOK, TurnType, GoesOn, RetryType
<1>1. PICK w \in TurnType :
        /\ turn' = [turn EXCEPT ![t] = w]
        /\ w.pc \in InRunTurn /\ w.of = turn[t].of
        /\ w.withdrawn = turn[t].withdrawn /\ w.result = turn[t].result
  BY DEF GoesOn
<1>2. /\ turn'[t] = w
      /\ \A u \in TurnIds : u # t => turn'[u] = turn[u]
  BY <1>0, <1>1 DEF TypeOK
<1>3. chat' = chat /\ direct' = direct /\ loop' = loop /\ turn[t].pc \in InRunTurn
  BY DEF GoesOn
<1>4. \A u \in TurnIds : (Running(u)' <=> Running(u)) /\ (Holding(u)' <=> Holding(u))
        /\ turn'[u].of = turn[u].of
        /\ turn'[u].withdrawn = turn[u].withdrawn
  BY <1>1, <1>2, <1>3 DEF Running, Holding, InRunTurn
<1>5. BusyMeansRunning'
  BY <1>0, <1>3, <1>4 DEF TurnsInv, TurnsAccounted, BusyMeansRunning, TypeOK
<1>6. EveryTurnAnswers'
  BY <1>0, <1>1, <1>2, <1>3
     DEF TurnsInv, TurnsAccounted, EveryTurnAnswers, ShuttingDown, InRunTurn
<1>7. OwnerKinds'
  BY <1>1, <1>2, <1>3 DEF TurnsInv, OwnerKinds, InRunTurn
<1>8. Withdrawals'
  BY <1>0, <1>1, <1>2, <1>3, <1>4
     DEF TurnsInv, Withdrawals, ShuttingDown, InRunTurn, IsDirect, TypeOK
<1>9. ResultsHeld'
  BY <1>0, <1>1, <1>2, <1>3 DEF TurnsInv, ResultsHeld, ShuttingDown, InRunTurn, OwnerKinds
<1>10. LoopAgrees'
  BY <1>0, <1>1, <1>2, <1>3, <1>4
     DEF TurnsInv, LoopAgrees, Finishing, ShuttingDown, InRunTurn, TypeOK, Running, Holding
<1> QED
  BY <1>0, <1>5, <1>6, <1>7, <1>8, <1>9, <1>10 DEF TurnsInv, TurnsAccounted

\* A step of one task that finishes, and holds what it held.
LEMMA FinishingKeeps ==
    ASSUME TurnsInv, NEW t \in TurnIds, NEW w \in TurnType,
           turn' = [turn EXCEPT ![t] = w], UNCHANGED <<chat, direct, loop>>, RetryType',
           Holding(t), turn[t].pc # "compact", w.pc \in {"publish", "ending"},
           w.of = turn[t].of, w.withdrawn = turn[t].withdrawn,
           w.pc = "publish" =>
               /\ w.final # "none"
               /\ IsDirect(t) /\ direct[turn[t].of] # t => w.late \/ ShuttingDown
               /\ w.result # "none" => turn[t].of \in Webs /\ w.late,
           w.pc = "ending" =>
               /\ \/ w.final = "none"
                  \/ w.final = "undelivered" /\ w.result = "none" /\ w.of \notin Webs
               /\ w.result = "none" /\ w.final = "none" =>
                      w.hard \/ turn[t].withdrawn \/ ShuttingDown,
           w.hard => turn[t].hard
    PROVE  TurnsInv'
<1>0. TypeOK
  BY DEF TurnsInv, TurnsAccounted
<1>3. /\ turn'[t] = w
      /\ \A u \in TurnIds : u # t => turn'[u] = turn[u]
      /\ turn' \in [TurnIds -> TurnType]
  BY <1>0 DEF TypeOK, TurnType
<1>4. chat' = chat /\ direct' = direct /\ loop' = loop
  OBVIOUS
<1>5. TypeOK'
  BY <1>0, <1>3, <1>4 DEF TypeOK, TurnType, RetryType
<1>6. \A u \in TurnIds : (Running(u)' <=> Running(u)) /\ (Holding(u)' <=> Holding(u))
        /\ turn'[u].of = turn[u].of
        /\ turn'[u].withdrawn = turn[u].withdrawn
  BY <1>3 DEF Running, Holding
<1>7. BusyMeansRunning'
  BY <1>0, <1>4, <1>6 DEF TurnsInv, TurnsAccounted, BusyMeansRunning, TypeOK
<1>8. EveryTurnAnswers'
  BY <1>3, <1>4 DEF TurnsInv, TurnsAccounted, EveryTurnAnswers, ShuttingDown
<1>9. OwnerKinds'
  BY <1>3 DEF TurnsInv, OwnerKinds, InRunTurn
<1>10. Withdrawals'
  <2>1. \A u \in TurnIds : turn'[u].pc \in InRunTurn => u # t
    BY <1>3 DEF InRunTurn
  <2>2. \A u \in TurnIds : u # t => turn'[u].late = turn[u].late /\ turn'[u].pc = turn[u].pc
    BY <1>3
  <2>3. ShuttingDown' <=> ShuttingDown
    BY <1>4 DEF ShuttingDown
  <2> QED
    BY <1>0, <1>3, <1>4, <1>6, <2>1, <2>2, <2>3 DEF TurnsInv, Withdrawals, IsDirect, TypeOK
<1>11. ResultsHeld'
  BY <1>3, <1>4 DEF TurnsInv, ResultsHeld, ShuttingDown
<1>12. LoopAgrees'
  <2>1. \A u \in TurnIds : (Finishing(u) => Finishing(u)') /\ (turn[u].pc = "compact" => turn'[u] = turn[u])
    BY <1>3 DEF Finishing
  <2> QED
    BY <1>0, <1>4, <1>6, <2>1 DEF TurnsInv, LoopAgrees, ShuttingDown, TypeOK
<1> QED
  BY <1>5, <1>7, <1>8, <1>9, <1>10, <1>11, <1>12 DEF TurnsInv, TurnsAccounted

\* The end of run_turn: a turn without a result was withdrawn.
LEMMA ConcludesKeeps ==
    ASSUME TurnsInv, NEW t \in TurnIds, Concludes(t), RetryType'
    PROVE  TurnsInv'
<1>0. TypeOK
  BY DEF TurnsInv, TurnsAccounted
<1>1. PICK r \in Results :
        /\ turn' = [turn EXCEPT ![t] = [Idle EXCEPT
                !.pc = IF r \in {"none", "undelivered"} THEN "ending" ELSE "publish",
                !.of = turn[t].of, !.withdrawn = turn[t].withdrawn, !.final = r]]
        /\ r \notin {"none", "undelivered"} => ~(IsDirect(t) /\ direct[turn[t].of] # t)
        /\ r = "none" => IsDirect(t) /\ direct[turn[t].of] # t
  BY DEF Concludes, Conclude, Moved, Published, Results
<1> DEFINE pc == IF r \in {"none", "undelivered"} THEN "ending" ELSE "publish"
           w == [Idle EXCEPT !.pc = pc, !.of = turn[t].of,
                             !.withdrawn = turn[t].withdrawn, !.final = r]
<1>2. /\ w \in TurnType /\ w.pc = pc /\ w.of = turn[t].of
      /\ w.withdrawn = turn[t].withdrawn /\ w.final = r /\ ~w.hard
      /\ w.result = "none"
  <2>1. /\ turn[t].of \in Owners \cup {None} /\ turn[t].withdrawn \in BOOLEAN
        /\ pc \in Pcs
    BY <1>0 DEF TypeOK, Pcs
  <2> HIDE DEF pc
  <2>2. w \in TurnType
    BY <2>1, IdleType, Zenon DEF TurnType
  <2> QED
    BY <2>2 DEF Idle
<1> HIDE DEF w
<1>3. turn' = [turn EXCEPT ![t] = w] /\ UNCHANGED <<chat, direct, loop>>
  BY <1>1 DEF w, Concludes
<1>4. Holding(t) /\ turn[t].pc # "compact"
  BY DEF Concludes, InRunTurn, Holding, Running
<1>5. r = "none" => turn[t].withdrawn \/ ShuttingDown
  BY <1>1, <1>4 DEF TurnsInv, Withdrawals
<1>6. w.of \notin Webs
  BY <1>2, NamesAssumption DEF Concludes, TurnsInv, OwnerKinds
<1> QED
  BY <1>1, <1>2, <1>3, <1>4, <1>5, <1>6, FinishingKeeps

\* The steps of run_turn are of these two kinds.
LEMMA RunTurnShape ==
    ASSUME TurnsInv, NEW t \in TurnIds,
           \/ Prepare(t) \/ Admit(t) \/ Opened(t) \/ OpenFailsTransiently(t)
           \/ Unauthorized(t) \/ Refused(t) \/ Delta(t) \/ StreamInterrupted(t)
           \/ StreamCompleted(t) \/ StreamFailed(t)
    PROVE  (GoesOn(t) \/ Concludes(t)) /\ RetryType'
<1>0. TypeOK /\ turn[t] \in TurnType /\ RetryType
  BY DEF TurnsInv, TurnsAccounted, TypeOK, TurnType, RetryType
<1>1. CASE Prepare(t)
  <2>1. [turn[t] EXCEPT !.pc = "admit", !.reasoning = ~noReasoning] \in TurnType
    BY <1>0 DEF TurnType, Pcs, RetryType
  <2> QED
    BY <1>0, <1>1, <2>1
       DEF Prepare, GoesOn, Concludes, InRunTurn, Moved, RetryType, Results, TurnType
<1>2. CASE Admit(t)
  <2>1. [turn[t] EXCEPT !.pc = "open"] \in TurnType
    BY <1>0 DEF TurnType, Pcs
  <2>2. [turn[t] EXCEPT !.pc = "open", !.probe = TRUE] \in TurnType
    BY <1>0 DEF TurnType, Pcs
  <2>3. RetryType'
    BY <1>0, <1>2 DEF Admit, RetryType
  <2> QED
    BY <1>0, <1>2, <2>1, <2>2, <2>3
       DEF Admit, GoesOn, Concludes, InRunTurn, Moved, Results, TurnType
<1>3. CASE Opened(t)
  <2>1. [turn[t] EXCEPT !.pc = "stream", !.stage = 0, !.reasoning = FALSE,
                        !.probe = FALSE] \in TurnType
    <3>1. 0 \in 0..2
      OBVIOUS
    <3> QED
      BY <1>0, <3>1, Zenon DEF TurnType, Pcs
  <2>2. RetryType'
    BY <1>0, <1>3 DEF Opened, RetryType, ClosedGate
  <2> QED
    BY <1>0, <1>3, <2>1, <2>2 DEF Opened, GoesOn, InRunTurn, Moved, TurnType
<1>4. CASE OpenFailsTransiently(t)
  <2>1. [turn[t] EXCEPT !.pc = "stream", !.broken = TRUE, !.reasoning = FALSE] \in TurnType
    BY <1>0 DEF TurnType, Pcs
  <2>2. RetryType'
    BY <1>0, <1>4 DEF OpenFailsTransiently, RetryType
  <2> QED
    BY <1>0, <1>4, <2>1, <2>2 DEF OpenFailsTransiently, GoesOn, InRunTurn, Moved, TurnType
<1>5. CASE Unauthorized(t)
  <2>1. /\ Again(t, 1) \in TurnType /\ Again(t, 1).pc = "prepare"
        /\ Again(t, 1).of = turn[t].of /\ Again(t, 1).withdrawn = turn[t].withdrawn
        /\ Again(t, 1).result = turn[t].result
    <3>1. 1 \in 0..2
      OBVIOUS
    <3> QED
      BY <1>0, <3>1, Zenon DEF TurnType, Pcs, Again
  <2>2. /\ Again(t, 2) \in TurnType /\ Again(t, 2).pc = "prepare"
        /\ Again(t, 2).of = turn[t].of /\ Again(t, 2).withdrawn = turn[t].withdrawn
        /\ Again(t, 2).result = turn[t].result
    <3>1. 2 \in 0..2
      OBVIOUS
    <3> QED
      BY <1>0, <3>1, Zenon DEF TurnType, Pcs, Again
  <2>3. RetryType'
    BY <1>0, <1>5 DEF Unauthorized, RetryType
  <2> QED
    BY <1>0, <1>5, <2>1, <2>2, <2>3
       DEF Unauthorized, GoesOn, Concludes, InRunTurn, Moved, Results
<1>6. CASE Refused(t)
  <2>1. [turn[t] EXCEPT !.pc = "prepare", !.reasoning = FALSE, !.probe = FALSE] \in TurnType
    BY <1>0, Zenon DEF TurnType, Pcs
  <2>2. RetryType'
    BY <1>0, <1>6 DEF Refused, RetryType
  <2> QED
    BY <1>0, <1>6, <2>1, <2>2
       DEF Refused, GoesOn, Concludes, InRunTurn, Moved, Results, TurnType
<1>7. CASE Delta(t)
  <2>1. [turn[t] EXCEPT !.output = TRUE] \in TurnType
    BY <1>0 DEF TurnType
  <2> QED
    BY <1>0, <1>7, <2>1 DEF Delta, Streaming, GoesOn, InRunTurn, Moved, RetryType, TurnType
<1>8. CASE StreamInterrupted(t)
  BY <1>0, <1>8 DEF StreamInterrupted, Concludes, InRunTurn, Results, RetryType
<1>9. CASE StreamCompleted(t)
  BY <1>0, <1>9 DEF StreamCompleted, Streaming, Concludes, InRunTurn, Results, RetryType
<1>10. CASE StreamFailed(t)
  <2>1. [turn[t] EXCEPT !.pc = "prepare", !.broken = FALSE, !.output = FALSE,
                        !.probe = FALSE] \in TurnType
    BY <1>0, Zenon DEF TurnType, Pcs
  <2>2. RetryType'
    <3>1. gate' \in [open : BOOLEAN, due : BOOLEAN, probe : BOOLEAN]
      <4>1. gate' = gate \/ gate' = [open |-> TRUE, due |-> FALSE, probe |-> FALSE]
        BY <1>10, Zenon DEF StreamFailed, RetryStream
      <4>2. [open |-> TRUE, due |-> FALSE, probe |-> FALSE]
                \in [open : BOOLEAN, due : BOOLEAN, probe : BOOLEAN]
        OBVIOUS
      <4> QED
        BY <1>0, <4>1, <4>2, Zenon DEF RetryType
    <3> QED
      BY <1>0, <1>10, <3>1 DEF StreamFailed, RetryType
  <2> QED
    BY <1>0, <1>10, <2>1, <2>2
       DEF StreamFailed, Streaming, RetryStream, GoesOn, Concludes, InRunTurn, Moved,
           Results, TurnType
<1> QED
  BY <1>1, <1>2, <1>3, <1>4, <1>5, <1>6, <1>7, <1>8, <1>9, <1>10

-----------------------------------------------------------------------------
(* The other steps of a task. *)

\* A web execution has its answer; without its entry it was answered for.
LEMMA WebDoneKeeps ==
    ASSUME TurnsInv, NEW t \in TurnIds, WebDone(t)
    PROVE  TurnsInv'
<1>0. /\ TypeOK /\ turn[t].pc = "web" /\ turn[t].of \in Webs /\ turn[t] \in TurnType
      /\ UNCHANGED <<chat, direct, loop>> /\ RetryType' /\ Holding(t) /\ IsDirect(t)
  BY DEF TurnsInv, TurnsAccounted, WebDone, OwnerKinds, TypeOK, TurnType, RetryType,
         Holding, Running, IsDirect, Entries
<1>1. PICK r \in {"completed", "error"} :
        turn' = [turn EXCEPT ![t] =
            IF direct[turn[t].of] = t THEN [turn[t] EXCEPT !.pc = "publish", !.final = r]
            ELSE [turn[t] EXCEPT !.pc = "ending"]]
  BY <1>0 DEF WebDone, TypeOK
<1>2. turn[t].result # "none" => turn[t].withdrawn
  BY <1>0 DEF TurnsInv, ResultsHeld
<1>3. CASE direct[turn[t].of] = t
  <2> DEFINE w == [turn[t] EXCEPT !.pc = "publish", !.final = r]
  <2>1. w \in TurnType
    <3>1. r \in Results /\ "publish" \in Pcs
      BY <1>1 DEF Results, Pcs
    <3> QED
      BY <1>0, <3>1, Zenon DEF TurnType
  <2>2. /\ w.pc = "publish" /\ w.of = turn[t].of /\ w.withdrawn = turn[t].withdrawn
        /\ w.final # "none" /\ w.result = turn[t].result /\ w.hard = turn[t].hard
    BY <1>0, <1>1 DEF TurnType
  <2>3. turn[t].result = "none"
    BY <1>0, <1>2, <1>3, NamesAssumption DEF TurnsInv, Withdrawals, IsDirect, TurnIds
  <2>4. turn' = [turn EXCEPT ![t] = w]
    BY <1>1, <1>3
  <2> HIDE DEF w
  <2> QED
    BY <1>0, <1>3, <2>1, <2>2, <2>3, <2>4, FinishingKeeps
<1>4. CASE direct[turn[t].of] # t
  <2> DEFINE w == [turn[t] EXCEPT !.pc = "ending"]
  <2>1. w \in TurnType
    BY <1>0, Zenon DEF TurnType, Pcs
  <2>2. /\ w.pc = "ending" /\ w.of = turn[t].of /\ w.withdrawn = turn[t].withdrawn
        /\ w.final = turn[t].final /\ w.result = turn[t].result /\ w.hard = turn[t].hard
    BY <1>0 DEF TurnType
  <2>3. turn[t].withdrawn \/ ShuttingDown
    BY <1>0, <1>4 DEF TurnsInv, Withdrawals
  <2>4. turn[t].final = "none"
    BY <1>0 DEF TurnsInv, ResultsHeld
  <2>5. turn' = [turn EXCEPT ![t] = w]
    BY <1>1, <1>4
  <2> HIDE DEF w
  <2> QED
    BY <1>0, <2>1, <2>2, <2>3, <2>4, <2>5, FinishingKeeps
<1> QED
  BY <1>3, <1>4

\* What a turn looks like after its send.
AfterSend(t, w) ==
    /\ w.pc = "ending" /\ w.of = turn[t].of /\ w.withdrawn = turn[t].withdrawn
    /\ w.hard = turn[t].hard /\ w.late = turn[t].late
    /\ \/ w.result = turn[t].final /\ w.final = "none"
       \/ w.result = "undelivered" /\ w.final = "none" /\ turn[t].of \in Webs
       \/ w.result = turn[t].result /\ w.final = "undelivered" /\ turn[t].of \notin Webs
       \/ w.result = turn[t].result /\ w.final = "none" /\ Stopped(t)

\* The send leaves one of these.
LEMMA PublishShape ==
    ASSUME TurnsInv, NEW t \in TurnIds, Publish(t)
    PROVE  \E w \in TurnType : turn' = [turn EXCEPT ![t] = w] /\ AfterSend(t, w)
<1>0. turn[t] \in TurnType /\ turn[t].final \in Results
  BY DEF TurnsInv, TurnsAccounted, TypeOK, TurnType
<1>1. "ending" \in Pcs /\ "none" \in Results /\ "undelivered" \in Results
  BY DEF Pcs, Results
<1>2. CASE turn' = [turn EXCEPT ![t] = [turn[t] EXCEPT
                !.pc = "ending", !.result = turn[t].final, !.final = "none"]]
  <2> DEFINE w == [turn[t] EXCEPT !.pc = "ending", !.result = turn[t].final, !.final = "none"]
  <2>1. w \in TurnType
    BY <1>0, <1>1, Zenon DEF TurnType
  <2>2. AfterSend(t, w)
    BY <1>0 DEF AfterSend, TurnType
  <2> QED
    BY <1>2, <2>1, <2>2
<1>3. CASE /\ turn[t].of \in Webs
           /\ turn' = [turn EXCEPT ![t] = [turn[t] EXCEPT
                   !.pc = "ending", !.result = "undelivered", !.final = "none"]]
  <2> DEFINE w == [turn[t] EXCEPT !.pc = "ending", !.result = "undelivered", !.final = "none"]
  <2>1. w \in TurnType
    BY <1>0, <1>1, Zenon DEF TurnType
  <2>2. AfterSend(t, w)
    BY <1>0, <1>3 DEF AfterSend, TurnType
  <2> QED
    BY <1>3, <2>1, <2>2
<1>4. CASE /\ turn[t].of \notin Webs
           /\ turn' = [turn EXCEPT ![t] =
                   [turn[t] EXCEPT !.pc = "ending", !.final = "undelivered"]]
  <2> DEFINE w == [turn[t] EXCEPT !.pc = "ending", !.final = "undelivered"]
  <2>1. w \in TurnType
    BY <1>0, <1>1, Zenon DEF TurnType
  <2>2. AfterSend(t, w)
    BY <1>0, <1>4 DEF AfterSend, TurnType
  <2> QED
    BY <1>4, <2>1, <2>2
<1>5. CASE /\ Stopped(t)
           /\ turn' = [turn EXCEPT ![t] = [turn[t] EXCEPT !.pc = "ending", !.final = "none"]]
  <2> DEFINE w == [turn[t] EXCEPT !.pc = "ending", !.final = "none"]
  <2>1. w \in TurnType
    BY <1>0, <1>1, Zenon DEF TurnType
  <2>2. AfterSend(t, w)
    BY <1>0, <1>5 DEF AfterSend, TurnType
  <2> QED
    BY <1>5, <2>1, <2>2
<1> QED
  BY <1>2, <1>3, <1>4, <1>5 DEF Publish, Moved

\* The send keeps the invariant: who says nothing was stopped.
LEMMA PublishKeeps ==
    ASSUME TurnsInv, NEW t \in TurnIds, Publish(t)
    PROVE  TurnsInv'
<1>0. /\ TypeOK /\ turn[t].pc = "publish" /\ turn[t].final # "none"
      /\ UNCHANGED <<chat, direct, loop>> /\ RetryType' /\ Holding(t)
  BY DEF TurnsInv, TurnsAccounted, Publish, ResultsHeld, TypeOK, RetryType, Holding, Running
<1>1. PICK w \in TurnType : turn' = [turn EXCEPT ![t] = w] /\ AfterSend(t, w)
  BY PublishShape
<1>2. w.result = "none" /\ w.final = "none" => w.hard \/ turn[t].withdrawn \/ ShuttingDown
  BY <1>0, <1>1 DEF AfterSend, Stopped
<1>3. \/ w.final = "none"
      \/ w.final = "undelivered" /\ w.result = "none" /\ w.of \notin Webs
  BY <1>0, <1>1 DEF AfterSend, TurnsInv, ResultsHeld
<1>4. /\ w.pc = "ending" /\ w.of = turn[t].of /\ w.withdrawn = turn[t].withdrawn
      /\ w.hard = turn[t].hard
  BY <1>1 DEF AfterSend
<1> QED
  BY <1>0, <1>1, <1>2, <1>3, <1>4, FinishingKeeps

\* What is left of a turn that has given back what it held.
LEMMA EndedType ==
    ASSUME TurnsInv, NEW t \in TurnIds, turn[t].pc = "ending"
    PROVE  LET w == Ended(t) IN
      /\ w \in TurnType /\ w.pc \in {"fallback", "done", "silent"} /\ w.result = "none"
      /\ w.pc = "silent" =>
             \/ turn[t].hard /\ w.hard
             \/ /\ turn[t].result = "none" /\ turn[t].final = "none"
                /\ w.hard = turn[t].hard /\ w.withdrawn = turn[t].withdrawn
      /\ w.pc = "fallback" => w = [turn[t] EXCEPT !.pc = "fallback"] /\ w.of = turn[t].of
             /\ w.final = "undelivered" /\ w.of \notin Webs /\ w.hard = turn[t].hard
      /\ w.pc # "fallback" => w.of = None
<1>0. turn[t] \in TurnType /\ turn[t].hard \in BOOLEAN /\ turn[t].withdrawn \in BOOLEAN
  BY DEF TurnsInv, TurnsAccounted, TypeOK, TurnType
<1>1. CASE turn[t].final # "none" /\ ~turn[t].hard
  <2> DEFINE w == [turn[t] EXCEPT !.pc = "fallback"]
  <2>1. w \in TurnType
    BY <1>0, Zenon DEF TurnType, Pcs
  <2>2. /\ w.pc = "fallback" /\ w.of = turn[t].of /\ w.result = turn[t].result
        /\ w.final = turn[t].final /\ w.hard = turn[t].hard
    BY <1>0 DEF TurnType
  <2>3. turn[t].final = "undelivered" /\ turn[t].result = "none" /\ turn[t].of \notin Webs
    BY <1>1 DEF TurnsInv, ResultsHeld
  <2>4. Ended(t) = w
    BY <1>1 DEF Ended
  <2> HIDE DEF w
  <2> QED
    BY <2>1, <2>2, <2>3, <2>4 DEF w
<1>2. CASE ~(turn[t].final # "none" /\ ~turn[t].hard) /\ turn[t].result # "none"
  <2>1. [Idle EXCEPT !.pc = "done"] \in TurnType
    BY IdleType, Zenon DEF TurnType, Pcs
  <2>2. Ended(t) = [Idle EXCEPT !.pc = "done"]
    BY <1>2 DEF Ended
  <2>3. /\ [Idle EXCEPT !.pc = "done"].pc = "done"
        /\ [Idle EXCEPT !.pc = "done"].result = "none"
        /\ [Idle EXCEPT !.pc = "done"].of = None
    BY DEF Idle
  <2> QED
    BY <2>1, <2>2, <2>3
<1>3. CASE ~(turn[t].final # "none" /\ ~turn[t].hard) /\ turn[t].result = "none"
  <2> DEFINE w == [Idle EXCEPT !.pc = "silent", !.hard = turn[t].hard,
                               !.withdrawn = turn[t].withdrawn]
  <2>1. w \in TurnType
    BY <1>0, IdleType, Zenon DEF TurnType, Pcs
  <2>2. /\ w.pc = "silent" /\ w.result = "none" /\ w.of = None
        /\ w.hard = turn[t].hard /\ w.withdrawn = turn[t].withdrawn
    BY DEF Idle
  <2>3. Ended(t) = w
    BY <1>3 DEF Ended
  <2> HIDE DEF w
  <2> QED
    BY <1>3, <2>1, <2>2, <2>3
<1> QED
  BY <1>1, <1>2, <1>3

\* A task that ends gives back what it owns, and nothing else.
LEMMA EndTurnKeeps ==
    ASSUME TurnsInv, NEW t \in TurnIds, EndTurn(t)
    PROVE  TurnsInv'
<1>0. TypeOK /\ turn[t].pc = "ending" /\ loop' = loop /\ t # None /\ t # Vacant
      /\ Vacant # None /\ Vacant \notin TurnIds /\ None \notin TurnIds /\ None \notin Webs
  BY NamesAssumption DEF TurnsInv, TurnsAccounted, EndTurn, TurnIds
<1> DEFINE w == Ended(t)
<1>1. turn' = [turn EXCEPT ![t] = w]
  BY DEF EndTurn, Moved
<1>2. /\ w \in TurnType /\ w.pc \in {"fallback", "done", "silent"} /\ w.result = "none"
      /\ w.pc = "silent" =>
             \/ turn[t].hard /\ w.hard
             \/ /\ turn[t].result = "none" /\ turn[t].final = "none"
                /\ w.hard = turn[t].hard /\ w.withdrawn = turn[t].withdrawn
      /\ w.pc = "fallback" => w = [turn[t] EXCEPT !.pc = "fallback"] /\ w.of = turn[t].of
             /\ w.final = "undelivered" /\ w.of \notin Webs /\ w.hard = turn[t].hard
      /\ w.pc # "fallback" => w.of = None
  BY <1>0, EndedType
<1> HIDE DEF w
<1>3. /\ turn'[t] = w
      /\ \A u \in TurnIds : u # t => turn'[u] = turn[u]
      /\ turn' \in [TurnIds -> TurnType]
  BY <1>0, <1>1, <1>2 DEF TypeOK, TurnType
<1>4. /\ chat' \in [Chats -> TurnIds \cup {None, Vacant}]
      /\ \A c \in Chats : chat'[c] \in {chat[c], Vacant} /\ chat'[c] # t
  BY <1>0 DEF EndTurn, EndTurnIfCurrent, TypeOK, TurnsInv, TurnsAccounted, BusyMeansRunning
<1>5. /\ direct' \in [Entries -> TurnIds \cup {None}]
      /\ \A r \in Entries : direct'[r] = IF direct[r] = t THEN None ELSE direct[r]
  BY <1>0 DEF EndTurn, FinishDirect, TypeOK
<1>6. TypeOK'
  BY <1>0, <1>3, <1>4, <1>5 DEF TypeOK, TurnType, EndTurn
<1>7. BusyMeansRunning'
  BY <1>0, <1>3, <1>4, <1>5, <1>6
     DEF TurnsInv, TurnsAccounted, BusyMeansRunning, TypeOK, Running, Holding
<1>8. EveryTurnAnswers'
  BY <1>0, <1>2, <1>3 DEF TurnsInv, TurnsAccounted, EveryTurnAnswers, ShuttingDown, ResultsHeld
<1>9. OwnerKinds'
  BY <1>2, <1>3 DEF TurnsInv, OwnerKinds, InRunTurn
<1>10. Withdrawals'
  <2>1. \A u \in TurnIds : Holding(u)' =>
            Holding(u) /\ u # t /\ turn'[u] = turn[u]
    BY <1>2, <1>3 DEF Running, Holding, IsDirect
  <2>2. \A u \in TurnIds : turn'[u].pc \in InRunTurn \cup {"publish"} =>
            u # t /\ turn'[u] = turn[u]
    BY <1>2, <1>3 DEF InRunTurn
  <2>3. ASSUME NEW u \in TurnIds, u # t, IsDirect(u)
        PROVE  (direct'[turn[u].of] = u <=> direct[turn[u].of] = u)
               /\ (direct[turn[u].of] = None => direct'[turn[u].of] = None)
    BY <1>0, <1>5, <2>3 DEF IsDirect
  <2>4. \A u \in TurnIds : turn'[u].pc \in InRunTurn /\ turn[u].withdrawn =>
            IsDirect(u)
    BY <2>2 DEF TurnsInv, Withdrawals, IsDirect, Entries
  <2>5. \A r \in Entries : direct'[r] # None =>
            direct'[r] = direct[r] /\ direct[r] # t /\ direct[r] \in TurnIds
    BY <1>0, <1>5 DEF TypeOK
  <2> QED
    BY <1>0, <1>3, <2>1, <2>2, <2>3, <2>4, <2>5
     DEF TurnsInv, Withdrawals, ShuttingDown, IsDirect, InRunTurn
<1>11. ResultsHeld'
  BY <1>0, <1>2, <1>3 DEF TurnsInv, ResultsHeld, ShuttingDown
<1>12. LoopAgrees'
  BY <1>0, <1>2, <1>3 DEF TurnsInv, LoopAgrees, Finishing, ShuttingDown, TypeOK, Running, Holding
<1> QED
  BY <1>6, <1>7, <1>8, <1>9, <1>10, <1>11, <1>12 DEF TurnsInv, TurnsAccounted

\* The error for refused output is sent, or was stopped.
LEMMA FallbackKeeps ==
    ASSUME TurnsInv, NEW t \in TurnIds, Fallback(t)
    PROVE  TurnsInv'
<1>0. /\ TypeOK /\ turn[t].pc = "fallback" /\ turn[t].final \in Results
      /\ turn[t].hard \in BOOLEAN /\ turn[t].withdrawn \in BOOLEAN
      /\ chat' = chat /\ direct' = direct /\ loop' = loop /\ UNCHANGED <<gate, noReasoning>>
      /\ None \notin Webs /\ None \notin Entries
  BY NamesAssumption DEF TurnsInv, TurnsAccounted, Fallback, TypeOK, Entries
<1>1. PICK w \in TurnType :
        /\ turn' = [turn EXCEPT ![t] = w] /\ w.of = None
        /\ \/ w.pc = "done" /\ ~w.hard
           \/ /\ w.pc = "silent" /\ w.result = "none" /\ Stopped(t)
              /\ w.hard = turn[t].hard /\ w.withdrawn = turn[t].withdrawn
  <2>1. CASE turn' = [turn EXCEPT ![t] = [Idle EXCEPT !.pc = "done", !.result = turn[t].final]]
    <3> DEFINE w == [Idle EXCEPT !.pc = "done", !.result = turn[t].final]
    <3>1. w \in TurnType
      BY <1>0, IdleType, Zenon DEF TurnType, Pcs
    <3>2. w.of = None /\ w.pc = "done" /\ ~w.hard
      BY DEF Idle
    <3> QED
      BY <2>1, <3>1, <3>2
  <2>2. CASE /\ Stopped(t)
             /\ turn' = [turn EXCEPT ![t] = [Idle EXCEPT !.pc = "silent", !.hard = turn[t].hard,
                                                         !.withdrawn = turn[t].withdrawn]]
    <3> DEFINE w == [Idle EXCEPT !.pc = "silent", !.hard = turn[t].hard,
                                 !.withdrawn = turn[t].withdrawn]
    <3>1. w \in TurnType
      BY <1>0, IdleType, Zenon DEF TurnType, Pcs
    <3>2. /\ w.of = None /\ w.pc = "silent" /\ w.result = "none"
          /\ w.hard = turn[t].hard /\ w.withdrawn = turn[t].withdrawn
      BY DEF Idle
    <3> QED
      BY <2>2, <3>1, <3>2
  <2> QED
    BY <2>1, <2>2 DEF Fallback, Moved
<1>2. /\ turn'[t] = w
      /\ \A u \in TurnIds : u # t => turn'[u] = turn[u]
      /\ turn' \in [TurnIds -> TurnType]
  BY <1>0, <1>1 DEF TypeOK, TurnType
<1>3. TypeOK'
  BY <1>0, <1>2 DEF TypeOK, TurnType
<1>4. \A u \in TurnIds : u = t => ~Holding(u) /\ ~Holding(u)' /\ ~Running(u)'
  BY <1>0, <1>1, <1>2 DEF Holding, Running
<1>5. \A u \in TurnIds : u # t => (Running(u)' <=> Running(u)) /\ (Holding(u)' <=> Holding(u))
  BY <1>2 DEF Holding, Running
<1>6. BusyMeansRunning'
  BY <1>0, <1>2, <1>4, <1>5 DEF TurnsInv, TurnsAccounted, BusyMeansRunning, TypeOK
<1>7. EveryTurnAnswers'
  <2>1. w.pc = "silent" => w.hard \/ w.withdrawn \/ ShuttingDown
    BY <1>1 DEF Stopped
  <2> QED
    BY <1>0, <1>2, <2>1 DEF TurnsInv, TurnsAccounted, EveryTurnAnswers, ShuttingDown
<1>8. OwnerKinds'
  BY <1>1, <1>2 DEF TurnsInv, OwnerKinds, InRunTurn
<1>9. Withdrawals'
  <2>1. \A r \in Entries : direct[r] # None => direct[r] \in TurnIds /\ direct[r] # t
    BY <1>0, <1>4 DEF TurnsInv, TurnsAccounted, BusyMeansRunning, TypeOK
  <2>2. \A u \in TurnIds : turn'[u].pc \in InRunTurn \cup {"publish"} => u # t
    BY <1>1, <1>2 DEF InRunTurn
  <2> QED
    BY <1>0, <1>2, <1>4, <1>5, <2>1, <2>2
       DEF TurnsInv, Withdrawals, ShuttingDown, IsDirect, InRunTurn
<1>10. ResultsHeld'
  BY <1>0, <1>1, <1>2 DEF TurnsInv, ResultsHeld, ShuttingDown
<1>11. LoopAgrees'
  BY <1>0, <1>2, <1>4, <1>5 DEF TurnsInv, LoopAgrees, Finishing, ShuttingDown
<1> QED
  BY <1>3, <1>6, <1>7, <1>8, <1>9, <1>10, <1>11 DEF TurnsInv, TurnsAccounted

-----------------------------------------------------------------------------
(* The dispatch loop. *)

\* A step of the loop that begins turn t for an owner that had none.
LEMMA BeginKeeps ==
    ASSUME TurnsInv, NEW t \in TurnIds, NEW o \in Owners,
           NEW pc \in {"prepare", "compact", "web"},
           Dispatching, IsNext(t),
           turn' = [turn EXCEPT ![t] = Begun(o, pc)],
           \/ /\ pc \in {"prepare", "compact"} /\ o \in Chats /\ chat[o] = Vacant
              /\ chat' = [chat EXCEPT ![o] = t] /\ direct' = direct
           \/ /\ pc = "prepare" /\ o \in Requests /\ direct[o] = None
              /\ direct' = [direct EXCEPT ![o] = t] /\ chat' = chat
           \/ /\ pc = "web" /\ o \in Webs /\ direct[o] = None
              /\ direct' = [direct EXCEPT ![o] = t] /\ chat' = chat,
           loop' = IF pc = "compact" THEN [at |-> "compact", turn |-> t] ELSE loop,
           UNCHANGED <<gate, noReasoning>>
    PROVE  TurnsInv'
<1>0. /\ TypeOK /\ turn[t].pc = "unused" /\ t # None /\ t # Vacant
      /\ loop.at = "dispatch" /\ ~ShuttingDown /\ ~ShuttingDown'
      /\ Vacant # None /\ None \notin Owners /\ None \notin TurnIds
      /\ Chats \cap Entries = {}
  BY NamesAssumption
     DEF TurnsInv, TurnsAccounted, IsNext, Dispatching, ShuttingDown, TurnIds, Owners, Entries
<1> DEFINE w == Begun(o, pc)
<1>1. /\ w \in TurnType /\ w.pc = pc /\ w.of = o /\ w.result = "none"
      /\ ~w.withdrawn /\ ~w.hard /\ w.final = "none"
  <2>1. pc \in Pcs
    BY DEF Pcs
  <2>2. w \in TurnType
    BY <2>1, IdleType, Zenon DEF TurnType, Begun
  <2> QED
    BY <2>2 DEF Idle, Begun
<1> HIDE DEF w
<1>2. /\ turn'[t] = w
      /\ \A u \in TurnIds : u # t => turn'[u] = turn[u]
      /\ turn' \in [TurnIds -> TurnType]
  BY <1>0, <1>1 DEF TypeOK, TurnType, w
<1>3. TypeOK'
  BY <1>0, <1>2 DEF TypeOK, TurnType, Owners, Entries
<1>4. Running(t)' /\ ~Running(t) /\ Holding(t)' /\ ~Holding(t)
  BY <1>0, <1>1, <1>2 DEF Running, Holding
<1>5. BusyMeansRunning'
  <2>1. \A c \in Chats : chat'[c] \in TurnIds =>
            \/ c = o /\ chat'[c] = t
            \/ chat'[c] = chat[c] /\ chat[c] # t
    BY <1>0, <1>4 DEF TurnsInv, TurnsAccounted, BusyMeansRunning, TypeOK
  <2>2. \A r \in Entries : direct'[r] # None =>
            \/ r = o /\ direct'[r] = t
            \/ direct'[r] = direct[r] /\ direct[r] # t
    BY <1>0, <1>4 DEF TurnsInv, TurnsAccounted, BusyMeansRunning, TypeOK, Entries
  <2> QED
    BY <1>0, <1>1, <1>2, <1>3, <1>4, <2>1, <2>2
       DEF TurnsInv, TurnsAccounted, BusyMeansRunning, TypeOK, Running, Holding
<1>6. EveryTurnAnswers'
  BY <1>0, <1>1, <1>2 DEF TurnsInv, TurnsAccounted, EveryTurnAnswers
<1>7. OwnerKinds'
  BY <1>1, <1>2 DEF TurnsInv, OwnerKinds, InRunTurn
<1>8. Withdrawals'
  <2>1. ASSUME NEW u \in TurnIds, Holding(u)', IsDirect(u)', direct'[turn'[u].of] # u
        PROVE  turn'[u].withdrawn
    <3>1. CASE u = t
      BY <1>0, <1>1, <1>2, <2>1, <3>1 DEF IsDirect, TypeOK, Entries
    <3>2. CASE u # t
      <4>1. turn'[u] = turn[u] /\ Holding(u) /\ IsDirect(u)
        BY <1>2, <2>1, <3>2 DEF Running, Holding, IsDirect
      <4>2. direct[turn[u].of] # u
        BY <1>0, <2>1, <3>2, <4>1 DEF TypeOK, IsDirect, Entries
      <4> QED
        BY <1>0, <4>1, <4>2 DEF TurnsInv, Withdrawals
    <3> QED
      BY <3>1, <3>2
  <2>2. ASSUME NEW u \in TurnIds, turn'[u].pc \in InRunTurn, turn'[u].withdrawn
        PROVE  FALSE
    BY <1>0, <1>1, <1>2, <2>2 DEF TurnsInv, Withdrawals
  <2>3. ASSUME NEW r \in Entries, direct'[r] # None
        PROVE  ~turn'[direct'[r]].withdrawn
    BY <1>0, <1>1, <1>2, <1>3, <2>3 DEF TurnsInv, Withdrawals, TypeOK, Entries
  <2>4. ASSUME NEW u \in TurnIds, turn'[u].pc = "publish", IsDirect(u)', direct'[turn'[u].of] # u
        PROVE  turn'[u].late
    <3>1. u # t /\ turn'[u] = turn[u] /\ IsDirect(u)
      BY <1>1, <1>2, <2>4 DEF IsDirect
    <3>2. direct[turn[u].of] # u
      BY <1>0, <2>4, <3>1 DEF TypeOK, IsDirect, Entries
    <3> QED
      BY <1>0, <2>4, <3>1, <3>2 DEF TurnsInv, Withdrawals
  <2> QED
    BY <2>1, <2>2, <2>3, <2>4 DEF Withdrawals
<1>9. ResultsHeld'
  BY <1>0, <1>1, <1>2 DEF TurnsInv, ResultsHeld
<1>10. LoopAgrees'
  BY <1>0, <1>1, <1>2 DEF LoopAgrees
<1> QED
  BY <1>3, <1>5, <1>6, <1>7, <1>8, <1>9, <1>10 DEF TurnsInv, TurnsAccounted

\* Steps that only set tokens, withdraw or stop turns: every turn keeps its
\* owner, and its point unless it is stopped.
Touched(u) ==
    /\ turn'[u] \in TurnType
    /\ turn'[u].of = turn[u].of /\ turn'[u].result = turn[u].result
    /\ turn'[u].withdrawn = turn[u].withdrawn /\ turn'[u].late = turn[u].late
    /\ turn'[u].pc = turn[u].pc /\ turn'[u].hard = turn[u].hard
    /\ turn'[u].final = turn[u].final

\* An interrupt, a deletion or a new chat in the place of the old one.
LEMMA InterruptKeeps ==
    ASSUME TurnsInv, \A u \in TurnIds : Touched(u),
           turn' \in [TurnIds -> TurnType],
           chat' \in [Chats -> TurnIds \cup {None, Vacant}],
           \A c \in Chats : chat'[c] \in {chat[c], None, Vacant},
           UNCHANGED <<direct, gate, noReasoning, loop>>
    PROVE  TurnsInv'
<1>0. TypeOK /\ None \notin TurnIds /\ Vacant \notin TurnIds
  BY NamesAssumption DEF TurnsInv, TurnsAccounted, TurnIds
<1>1. TypeOK'
  BY <1>0 DEF TypeOK, TurnType
<1>2. BusyMeansRunning'
  BY <1>0 DEF TurnsInv, TurnsAccounted, BusyMeansRunning, TypeOK, Running, Holding, Touched
<1>3. EveryTurnAnswers'
  BY DEF TurnsInv, TurnsAccounted, EveryTurnAnswers, Touched, ShuttingDown
<1>4. OwnerKinds'
  BY DEF TurnsInv, OwnerKinds, Touched
<1>5. Withdrawals'
  BY <1>0 DEF TurnsInv, Withdrawals, Touched, TypeOK, Running, Holding, IsDirect, ShuttingDown
<1>6. ResultsHeld'
  BY DEF TurnsInv, ResultsHeld, Touched, ShuttingDown
<1>7. LoopAgrees'
  BY <1>0 DEF TurnsInv, LoopAgrees, Touched, Finishing, ShuttingDown, Running, Holding, TypeOK
<1> QED
  BY <1>1, <1>2, <1>3, <1>4, <1>5, <1>6, <1>7 DEF TurnsInv, TurnsAccounted

\* What an interrupt of some chats does to the turns.
LEMMA InterruptedTouches ==
    ASSUME TurnsInv, NEW cs, turn' = Interrupted(cs)
    PROVE  turn' \in [TurnIds -> TurnType] /\ \A u \in TurnIds : Touched(u)
<1>1. ASSUME NEW u \in TurnIds PROVE Touched(u)
  <2>1. turn[u] \in TurnType
    BY DEF TurnsInv, TurnsAccounted, TypeOK, TurnType
  <2>2. turn'[u] \in {turn[u], [turn[u] EXCEPT !.cancel = TRUE]}
    BY DEF Interrupted
  <2>3. [turn[u] EXCEPT !.cancel = TRUE] \in TurnType
    BY <2>1, Zenon DEF TurnType
  <2> QED
    BY <2>1, <2>2, <2>3 DEF Touched, TurnType
<1> QED
  BY <1>1 DEF Interrupted, Touched

\* What being stopped leaves of turn t, if it runs: a turn that finishes stays
\* where it is, any other is at its end, and both keep owner and result.
IsDropped(t, w) ==
    /\ w \in TurnType
    /\ w.of = turn[t].of /\ w.withdrawn = turn[t].withdrawn /\ w.result = turn[t].result
    /\ Finishing(t) => w.pc = turn[t].pc /\ w.final = turn[t].final /\ w.late = turn[t].late
    /\ ~Finishing(t) => w.pc = "ending" /\ w.final = "none"

\* A turn that is stopped keeps its owner and what it has said.
LEMMA DroppedType ==
    ASSUME TurnsInv, NEW t \in TurnIds
    PROVE  /\ IsDropped(t, Dropped(t)) /\ Dropped(t).hard = turn[t].hard
           /\ IsDropped(t, HardCancelled(t)) /\ HardCancelled(t).hard
<1>1. /\ turn[t] \in TurnType
      /\ turn[t].of \in Owners \cup {None} /\ turn[t].hard \in BOOLEAN
      /\ turn[t].withdrawn \in BOOLEAN /\ turn[t].result \in Results
  BY DEF TurnsInv, TurnsAccounted, TypeOK, TurnType
<1>2. IsDropped(t, Dropped(t)) /\ Dropped(t).hard = turn[t].hard
  <2>1. CASE Finishing(t)
    BY <1>1, <2>1 DEF Dropped, IsDropped
  <2>2. CASE ~Finishing(t)
    <3> DEFINE w == [Idle EXCEPT !.pc = "ending", !.of = turn[t].of,
                        !.hard = turn[t].hard, !.withdrawn = turn[t].withdrawn,
                        !.result = turn[t].result]
    <3>1. w \in TurnType
      BY <1>1, IdleType, Zenon DEF TurnType, Pcs
    <3>2. /\ w.pc = "ending" /\ w.of = turn[t].of /\ w.hard = turn[t].hard
          /\ w.withdrawn = turn[t].withdrawn /\ w.result = turn[t].result
          /\ w.final = "none"
      BY DEF Idle
    <3>3. Dropped(t) = w
      BY <2>2 DEF Dropped
    <3> HIDE DEF w
    <3> QED
      BY <2>2, <3>1, <3>2, <3>3 DEF IsDropped
  <2> QED
    BY <2>1, <2>2
<1>3. IsDropped(t, HardCancelled(t)) /\ HardCancelled(t).hard
  <2> DEFINE d == Dropped(t)
             w == [d EXCEPT !.hard = TRUE]
  <2>1. d \in TurnType
    BY <1>2 DEF IsDropped
  <2> HIDE DEF d
  <2>2. w \in TurnType
    BY <2>1, Zenon DEF TurnType
  <2>3. /\ w.pc = d.pc /\ w.of = d.of /\ w.hard /\ w.withdrawn = d.withdrawn
        /\ w.result = d.result /\ w.final = d.final /\ w.late = d.late
    BY <2>1 DEF TurnType
  <2>4. HardCancelled(t) = w
    BY DEF HardCancelled, d
  <2> HIDE DEF w
  <2> QED
    BY <1>2, <2>2, <2>3, <2>4 DEF IsDropped, d
<1> QED
  BY <1>2, <1>3

\* chat.cancel, and completion.cancel's second step: a running turn is stopped.
LEMMA HardCancelKeeps ==
    ASSUME TurnsInv, NEW t \in TurnIds, Running(t), loop.at \in {"dispatch", "withdraw"},
           turn[t].of \notin Webs,
           turn' = [turn EXCEPT ![t] = HardCancelled(t)],
           loop' = [at |-> "dispatch", turn |-> None] \/ loop' = loop,
           loop.at = "withdraw" => loop' # loop /\ loop.turn = t,
           UNCHANGED <<chat, direct, gate, noReasoning>>
    PROVE  TurnsInv'
<1>0. TypeOK /\ ~ShuttingDown /\ ~ShuttingDown' /\ loop'.at = "dispatch"
  BY DEF TurnsInv, TurnsAccounted, ShuttingDown, TypeOK
<1> DEFINE w == HardCancelled(t)
<1>1. IsDropped(t, w) /\ w \in TurnType /\ w.hard
  BY DroppedType DEF IsDropped
<1> HIDE DEF w
<1>2. /\ turn'[t] = w
      /\ \A u \in TurnIds : u # t => turn'[u] = turn[u]
      /\ turn' \in [TurnIds -> TurnType]
  BY <1>0, <1>1 DEF TypeOK, TurnType, w
<1>3. TypeOK'
  BY <1>0, <1>2 DEF TypeOK, TurnType
<1>4. \A u \in TurnIds : (Running(u)' <=> Running(u)) /\ (Holding(u)' <=> Holding(u))
        /\ turn'[u].of = turn[u].of
        /\ turn'[u].withdrawn = turn[u].withdrawn
  BY <1>1, <1>2 DEF Running, Holding, IsDropped, Finishing
<1>5. BusyMeansRunning'
  BY <1>0, <1>4 DEF TurnsInv, TurnsAccounted, BusyMeansRunning, TypeOK
<1>6. EveryTurnAnswers'
  BY <1>0, <1>1, <1>2 DEF TurnsInv, TurnsAccounted, EveryTurnAnswers
<1>7. OwnerKinds'
  BY <1>1, <1>2 DEF TurnsInv, OwnerKinds, InRunTurn, IsDropped, Finishing
<1>8. Withdrawals'
  <2>1. \A u \in TurnIds : turn'[u].pc \in InRunTurn =>
            u # t /\ turn'[u] = turn[u]
    BY <1>1, <1>2 DEF InRunTurn, IsDropped, Finishing
  <2>2. \A u \in TurnIds : turn'[u].pc \in InRunTurn => ~turn'[u].withdrawn
    BY <1>0, <2>1 DEF TurnsInv, Withdrawals
  <2>3. \A u \in TurnIds : turn'[u].pc = "publish" =>
            turn[u].pc = "publish" /\ turn'[u].late = turn[u].late
    BY <1>1, <1>2 DEF IsDropped, Finishing
  <2> QED
    BY <1>0, <1>4, <2>2, <2>3 DEF TurnsInv, Withdrawals, IsDirect, TypeOK
<1>9. ResultsHeld'
  BY <1>0, <1>1, <1>2 DEF TurnsInv, ResultsHeld, IsDropped, Finishing
<1>10. LoopAgrees'
  BY <1>0 DEF LoopAgrees
<1> QED
  BY <1>3, <1>5, <1>6, <1>7, <1>8, <1>9, <1>10 DEF TurnsInv, TurnsAccounted

\* An entry is taken out: its turn is withdrawn, and a web execution answered.
LEMMA WithdrawKeeps ==
    ASSUME TurnsInv, NEW r \in Entries, NEW t \in TurnIds, Dispatching, direct[r] = t,
           \/ /\ r \in Requests
              /\ turn' = [turn EXCEPT ![t] =
                    [turn[t] EXCEPT !.withdrawn = TRUE, !.late = Finishing(t)]]
              /\ loop' = [at |-> "withdraw", turn |-> t]
           \/ /\ r \in Webs
              /\ turn' = [turn EXCEPT ![t] =
                    [turn[t] EXCEPT !.withdrawn = TRUE, !.late = Finishing(t),
                                    !.result = "error"]]
              /\ loop' = loop,
           direct' = [direct EXCEPT ![r] = None],
           UNCHANGED <<chat, gate, noReasoning>>
    PROVE  TurnsInv'
<1>0. /\ TypeOK /\ ~ShuttingDown /\ ~ShuttingDown' /\ t # None
      /\ None \notin TurnIds /\ Requests \cap Webs = {} /\ Chats \cap Entries = {}
      /\ loop.at = "dispatch"
  BY NamesAssumption
     DEF TurnsInv, TurnsAccounted, Dispatching, ShuttingDown, TurnIds, Entries
<1>1. Running(t) /\ Holding(t) /\ turn[t].of = r /\ turn[t] \in TurnType
  BY <1>0 DEF TurnsInv, TurnsAccounted, BusyMeansRunning, TypeOK, TurnType, Holding
<1>2. PICK w \in TurnType :
        /\ turn' = [turn EXCEPT ![t] = w]
        /\ w.pc = turn[t].pc /\ w.of = r /\ w.hard = turn[t].hard /\ w.withdrawn
        /\ w.final = turn[t].final /\ w.late = Finishing(t)
        /\ r \in Requests => w.result = turn[t].result
        /\ r \in Webs => w.result = "error"
  <2>1. CASE r \in Requests
    <3> DEFINE w == [turn[t] EXCEPT !.withdrawn = TRUE, !.late = Finishing(t)]
    <3>1. w \in TurnType
      <4>1. Finishing(t) \in BOOLEAN
        BY DEF Finishing
      <4> QED
        BY <1>1, <4>1, Zenon DEF TurnType
    <3>2. /\ w.pc = turn[t].pc /\ w.of = r /\ w.hard = turn[t].hard /\ w.withdrawn
          /\ w.result = turn[t].result /\ w.final = turn[t].final /\ w.late = Finishing(t)
      BY <1>1 DEF TurnType
    <3>3. turn' = [turn EXCEPT ![t] = w]
      BY <1>0, <2>1 DEF TypeOK
    <3> QED
      BY <1>0, <2>1, <3>1, <3>2, <3>3
  <2>2. CASE r \in Webs
    <3> DEFINE w == [turn[t] EXCEPT !.withdrawn = TRUE, !.late = Finishing(t),
                                    !.result = "error"]
    <3>1. w \in TurnType
      <4>1. Finishing(t) \in BOOLEAN
        BY DEF Finishing
      <4> QED
        BY <1>1, <4>1, Zenon DEF TurnType, Results
    <3>2. /\ w.pc = turn[t].pc /\ w.of = r /\ w.hard = turn[t].hard /\ w.withdrawn
          /\ w.result = "error" /\ w.final = turn[t].final /\ w.late = Finishing(t)
      BY <1>1 DEF TurnType
    <3>3. turn' = [turn EXCEPT ![t] = w]
      BY <1>0, <2>2 DEF TypeOK
    <3> QED
      BY <1>0, <2>2, <3>1, <3>2, <3>3
  <2> QED
    BY <2>1, <2>2 DEF Entries
<1>3. /\ turn'[t] = w
      /\ \A u \in TurnIds : u # t => turn'[u] = turn[u]
      /\ turn' \in [TurnIds -> TurnType]
  BY <1>0, <1>2 DEF TypeOK, TurnType
<1>4. /\ direct' \in [Entries -> TurnIds \cup {None}] /\ direct'[r] = None
      /\ \A x \in Entries : x # r => direct'[x] = direct[x]
  BY <1>0 DEF TypeOK
<1>5. TypeOK'
  BY <1>0, <1>3, <1>4 DEF TypeOK, TurnType
<1>6. \A u \in TurnIds : (Running(u)' <=> Running(u)) /\ (Holding(u)' <=> Holding(u))
        /\ turn'[u].of = turn[u].of
  BY <1>1, <1>2, <1>3 DEF Running, Holding
<1>7. BusyMeansRunning'
  BY <1>0, <1>4, <1>6 DEF TurnsInv, TurnsAccounted, BusyMeansRunning, TypeOK
<1>8. EveryTurnAnswers'
  BY <1>0, <1>1, <1>2, <1>3 DEF TurnsInv, TurnsAccounted, EveryTurnAnswers, Running, Holding
<1>9. OwnerKinds'
  BY <1>1, <1>2, <1>3 DEF TurnsInv, OwnerKinds
<1>10. Withdrawals'
  <2>1. ASSUME NEW u \in TurnIds, Holding(u)', IsDirect(u)', direct'[turn'[u].of] # u
        PROVE  turn'[u].withdrawn
    <3>1. CASE u = t
      BY <1>2, <1>3, <3>1
    <3>2. CASE u # t
      <4>1. turn'[u] = turn[u] /\ Holding(u) /\ IsDirect(u)
        BY <1>3, <2>1, <3>2 DEF Running, Holding, IsDirect
      <4>2. direct[turn[u].of] # u
        BY <1>0, <1>4, <2>1, <3>2, <4>1 DEF TypeOK, IsDirect
      <4> QED
        BY <1>0, <4>1, <4>2 DEF TurnsInv, Withdrawals
    <3> QED
      BY <3>1, <3>2
  <2>2. ASSUME NEW u \in TurnIds, turn'[u].pc \in InRunTurn, turn'[u].withdrawn
        PROVE  /\ loop' = [at |-> "withdraw", turn |-> u]
               /\ turn'[u].of \in Requests /\ direct'[turn'[u].of] = None
    <3>1. u = t
      BY <1>0, <1>3, <2>2 DEF TurnsInv, Withdrawals
    <3>2. r \in Requests
      BY <1>0, <1>1, <1>2, <1>3, <2>2, <3>1 DEF TurnsInv, OwnerKinds, Entries
    <3> QED
      BY <1>0, <1>2, <1>3, <1>4, <3>1, <3>2
  <2>3. ASSUME NEW x \in Entries, direct'[x] # None
        PROVE  ~turn'[direct'[x]].withdrawn
    <3>1. x # r /\ direct'[x] = direct[x] /\ direct[x] \in TurnIds
      BY <1>0, <1>4, <2>3 DEF TypeOK
    <3>2. direct[x] # t
      BY <1>0, <1>1, <3>1 DEF TurnsInv, TurnsAccounted, BusyMeansRunning
    <3> QED
      BY <1>0, <1>3, <3>1, <3>2 DEF TurnsInv, Withdrawals
  <2>4. ASSUME NEW u \in TurnIds, turn'[u].pc = "publish", IsDirect(u)', direct'[turn'[u].of] # u
        PROVE  turn'[u].late
    <3>1. CASE u = t
      BY <1>2, <1>3, <2>4, <3>1 DEF Finishing
    <3>2. CASE u # t
      <4>1. turn'[u] = turn[u] /\ IsDirect(u)
        BY <1>3, <2>4, <3>2 DEF IsDirect
      <4>2. direct[turn[u].of] # u
        BY <1>0, <1>4, <2>4, <3>2, <4>1 DEF TypeOK, IsDirect
      <4> QED
        BY <1>0, <2>4, <4>1, <4>2 DEF TurnsInv, Withdrawals
    <3> QED
      BY <3>1, <3>2
  <2> QED
    BY <2>1, <2>2, <2>3, <2>4 DEF Withdrawals
<1>11. ResultsHeld'
  <2>1. r \in Webs => turn[t].pc \in {"web", "publish", "ending"}
    BY <1>0, <1>1 DEF TurnsInv, OwnerKinds, Running, Holding, TurnType, Pcs, InRunTurn, Entries
  <2>2. turn[t].pc = "publish" => w.late
    BY <1>2 DEF Finishing
  <2> QED
    BY <1>0, <1>1, <1>2, <1>3, <2>1, <2>2 DEF TurnsInv, ResultsHeld, Entries
<1>12. LoopAgrees'
  BY <1>0, <1>2, <1>3 DEF LoopAgrees
<1> QED
  BY <1>5, <1>7, <1>8, <1>9, <1>10, <1>11, <1>12 DEF TurnsInv, TurnsAccounted

\* A compaction frees its chat, which nobody can have taken meanwhile.
LEMMA CompactDoneKeeps ==
    ASSUME TurnsInv, NEW t \in TurnIds, CompactDone(t)
    PROVE  TurnsInv'
<1>0. /\ TypeOK /\ ~ShuttingDown /\ ~ShuttingDown' /\ loop.at = "compact" /\ loop.turn = t
      /\ turn[t].pc = "compact" /\ turn[t].of \in Chats /\ loop'.at = "dispatch"
      /\ direct' = direct /\ Vacant \notin TurnIds /\ None \notin TurnIds
      /\ Chats \cap Entries = {}
  BY NamesAssumption
     DEF TurnsInv, TurnsAccounted, CompactDone, ShuttingDown, LoopAgrees, OwnerKinds, TurnIds,
         Entries
<1> DEFINE w == [Idle EXCEPT !.pc = "done"]
<1>1. /\ w \in TurnType /\ w.pc = "done" /\ w.result = "none" /\ ~w.hard
  <2>1. w \in TurnType
    BY IdleType, Zenon DEF TurnType, Pcs
  <2> QED
    BY <2>1 DEF Idle
<1>2. turn' = [turn EXCEPT ![t] = w]
  BY DEF CompactDone
<1> HIDE DEF w
<1>3. /\ turn'[t] = w
      /\ \A u \in TurnIds : u # t => turn'[u] = turn[u]
      /\ turn' \in [TurnIds -> TurnType]
  BY <1>0, <1>1, <1>2 DEF TypeOK, TurnType
<1>4. /\ chat' \in [Chats -> TurnIds \cup {None, Vacant}]
      /\ \A c \in Chats : chat'[c] \in {chat[c], Vacant} /\ chat'[c] # t
  BY <1>0 DEF CompactDone, TypeOK, TurnsInv, TurnsAccounted, BusyMeansRunning
<1>5. TypeOK'
  BY <1>0, <1>3, <1>4 DEF TypeOK, TurnType, CompactDone
<1>6. \A r \in Entries : direct[r] # t
  BY <1>0 DEF TurnsInv, TurnsAccounted, BusyMeansRunning
<1>7. BusyMeansRunning'
  BY <1>0, <1>3, <1>4, <1>5, <1>6
     DEF TurnsInv, TurnsAccounted, BusyMeansRunning, TypeOK, Running, Holding
<1>8. EveryTurnAnswers'
  BY <1>0, <1>1, <1>3 DEF TurnsInv, TurnsAccounted, EveryTurnAnswers
<1>9. OwnerKinds'
  BY <1>1, <1>3 DEF TurnsInv, OwnerKinds, InRunTurn
<1>10. Withdrawals'
  <2>1. \A u \in TurnIds : Holding(u)' \/ turn'[u].pc \in InRunTurn \cup {"publish"} =>
            u # t /\ turn'[u] = turn[u] /\ (Holding(u)' => Holding(u))
    BY <1>1, <1>3 DEF Running, Holding, InRunTurn
  <2> QED
    BY <1>0, <1>3, <1>6, <2>1 DEF TurnsInv, Withdrawals, IsDirect, TypeOK, InRunTurn
<1>11. ResultsHeld'
  BY <1>0, <1>1, <1>3 DEF TurnsInv, ResultsHeld
<1>12. LoopAgrees'
  BY <1>0 DEF LoopAgrees
<1> QED
  BY <1>5, <1>7, <1>8, <1>9, <1>10, <1>11, <1>12 DEF TurnsInv, TurnsAccounted

\* The end of the loop releases everything and stops every task.
LEMMA ShutdownKeeps ==
    ASSUME TurnsInv, Shutdown
    PROVE  TurnsInv'
<1>0. /\ TypeOK /\ ShuttingDown' /\ None \notin TurnIds /\ Vacant \notin TurnIds
      /\ None # Vacant
  BY NamesAssumption DEF TurnsInv, TurnsAccounted, Shutdown, ShuttingDown, TurnIds
<1> DEFINE s == [Idle EXCEPT !.pc = "silent"]
<1>1. s \in TurnType /\ s.pc = "silent" /\ s.result = "none" /\ ~s.hard
  <2>1. s \in TurnType
    BY IdleType, Zenon DEF TurnType, Pcs
  <2> QED
    BY <2>1 DEF Idle
<1>2. ASSUME NEW u \in TurnIds
      PROVE  /\ turn'[u] \in TurnType
             /\ \/ turn'[u] = s
                \/ /\ Running(u) /\ IsDropped(u, turn'[u])
                   /\ turn'[u].hard = turn[u].hard
                \/ ~Running(u) /\ turn'[u] = turn[u]
  BY <1>0, <1>1, DroppedType DEF Shutdown, TypeOK, TurnType, s, IsDropped
<1> HIDE DEF s
<1>3. turn' \in [TurnIds -> TurnType]
  BY <1>2 DEF Shutdown
<1>4. /\ chat' \in [Chats -> {None, Vacant}]
      /\ direct' = [r \in Entries |-> None]
  BY DEF Shutdown
<1>5. TypeOK'
  BY <1>0, <1>3, <1>4 DEF TypeOK, TurnType, Shutdown
<1>6. BusyMeansRunning'
  BY <1>0, <1>4 DEF BusyMeansRunning
<1>7. EveryTurnAnswers'
  BY <1>0 DEF EveryTurnAnswers
<1>8. OwnerKinds'
  BY <1>1, <1>2 DEF OwnerKinds, InRunTurn, Running, Holding, IsDropped, Finishing
<1>9. Withdrawals'
  <2>1. \A u \in TurnIds : turn'[u].pc \notin InRunTurn
    BY <1>1, <1>2 DEF InRunTurn, Running, Holding, IsDropped, Finishing
  <2> QED
    BY <1>0, <1>4, <2>1 DEF Withdrawals
<1>10. ResultsHeld'
  <2>1. ASSUME NEW u \in TurnIds, turn'[u] # s, Running(u) PROVE IsDropped(u, turn'[u])
    BY <1>2, <2>1
  <2> QED
    BY <1>0, <1>1, <1>2, <2>1 DEF TurnsInv, ResultsHeld, IsDropped, Finishing, Running
<1>11. LoopAgrees'
  BY <1>0, <1>1, <1>2 DEF LoopAgrees, Finishing, ShuttingDown, Running, Shutdown, IsDropped
<1> QED
  BY <1>5, <1>6, <1>7, <1>8, <1>9, <1>10, <1>11 DEF TurnsInv, TurnsAccounted

-----------------------------------------------------------------------------
(* The invariant. *)

\* The provider starts without chats, requests and turns.
LEMMA InitTurnsInv == Init => TurnsInv
<1> SUFFICES ASSUME Init PROVE TurnsInv
  OBVIOUS
<1>1. \A t \in TurnIds : turn[t] = Idle
  BY DEF Init
<1>2. TypeOK
  <2>1. turn \in [TurnIds -> TurnType]
    BY IdleType DEF Init
  <2>2. loop \in [at : {"dispatch", "compact", "withdraw", "exit", "joined"},
                  turn : TurnIds \cup {None}]
    BY DEF Init
  <2>3. RetryType
    <3>1. ClosedGate \in [open : BOOLEAN, due : BOOLEAN, probe : BOOLEAN]
      BY DEF ClosedGate
    <3> QED
      BY <3>1, Zenon DEF Init, RetryType
  <2> QED
    BY <2>1, <2>2, <2>3 DEF Init, TypeOK, TurnType, RetryType
<1>3. /\ \A c \in Chats : chat[c] \notin TurnIds
      /\ \A r \in Entries : direct[r] = None
      /\ loop.at = "dispatch"
  BY NamesAssumption DEF Init, TurnIds
<1> QED
  BY <1>1, <1>2, <1>3, IdleType
     DEF TurnsInv, TurnsAccounted, BusyMeansRunning, EveryTurnAnswers, OwnerKinds,
         Withdrawals, ResultsHeld, LoopAgrees, Finishing, ShuttingDown, Running, Holding, InRunTurn

\* Every step of the provider keeps the invariant.
LEMMA StepTurnsInv == TurnsInv /\ [Next]_vars => TurnsInv'
<1> SUFFICES ASSUME TurnsInv, [Next]_vars PROVE TurnsInv'
  OBVIOUS
<1>0. /\ TypeOK /\ None \notin TurnIds /\ Vacant \notin TurnIds
      /\ Requests \subseteq Entries /\ Webs \subseteq Entries
      /\ Chats \subseteq Owners /\ Entries \subseteq Owners
  BY NamesAssumption DEF TurnsInv, TurnsAccounted, TurnIds, Entries, Owners
<1>1. ASSUME NEW c \in Chats, ChatCreate(c) \/ ChatDelete(c) PROVE TurnsInv'
  <2>1. turn' \in [TurnIds -> TurnType] /\ \A u \in TurnIds : Touched(u)
    <3>1. CASE ChatCreate(c)
      BY <1>0, <3>1 DEF ChatCreate, Touched, TypeOK, TurnType
    <3>2. CASE ChatDelete(c)
      BY <3>2, InterruptedTouches DEF ChatDelete
    <3> QED
      BY <1>1, <3>1, <3>2
  <2>2. /\ chat' \in [Chats -> TurnIds \cup {None, Vacant}]
        /\ \A x \in Chats : chat'[x] \in {chat[x], None, Vacant}
    BY <1>0, <1>1 DEF ChatCreate, ChatDelete, TypeOK
  <2> QED
    BY <1>1, <2>1, <2>2, InterruptKeeps DEF ChatCreate, ChatDelete
<1>2. ASSUME NEW c \in Chats, ChatCancel(c) PROVE TurnsInv'
  <2>1. chat[c] \in TurnIds /\ Running(chat[c]) /\ turn[chat[c]].of \notin Webs
    BY <1>2, NamesAssumption
       DEF ChatCancel, TurnsInv, TurnsAccounted, BusyMeansRunning, Holding
  <2> QED
    BY <1>2, <2>1, HardCancelKeeps DEF ChatCancel, Dispatching
<1>3. ASSUME NEW c \in Chats, NEW t \in TurnIds, ChatComplete(c, t) PROVE TurnsInv'
  BY <1>0, <1>3, BeginKeeps DEF ChatComplete, BeginTurn
<1>4. ASSUME NEW c \in Chats, NEW t \in TurnIds, ChatCompact(c, t) PROVE TurnsInv'
  BY <1>0, <1>4, BeginKeeps DEF ChatCompact, BeginTurn
<1>5. ASSUME NEW r \in Requests, CompletionCancel(r) PROVE TurnsInv'
  <2>1. direct[r] \in TurnIds
    BY <1>0, <1>5 DEF CompletionCancel, TypeOK
  <2> QED
    BY <1>0, <1>5, <2>1, WithdrawKeeps DEF CompletionCancel
<1>6. ASSUME NEW r \in Requests, NEW t \in TurnIds, CompletionRequest(r, t) PROVE TurnsInv'
  BY <1>0, <1>6, BeginKeeps DEF CompletionRequest
<1>7. ASSUME NEW w \in Webs, WebCancel(w) PROVE TurnsInv'
  <2>1. direct[w] \in TurnIds
    BY <1>0, <1>7 DEF WebCancel, TypeOK
  <2> QED
    BY <1>0, <1>7, <2>1, WithdrawKeeps DEF WebCancel
<1>8. ASSUME NEW w \in Webs, NEW t \in TurnIds, WebRequest(w, t) PROVE TurnsInv'
  BY <1>0, <1>8, BeginKeeps DEF WebRequest
<1>9. ASSUME Interrupt PROVE TurnsInv'
  <2>1. turn' \in [TurnIds -> TurnType] /\ \A u \in TurnIds : Touched(u)
    BY <1>9, InterruptedTouches DEF Interrupt
  <2> QED
    BY <1>0, <1>9, <2>1, InterruptKeeps DEF Interrupt, TypeOK
<1>10. ASSUME CompletionCancelTurn PROVE TurnsInv'
  <2> DEFINE t == loop.turn
  <2>1. t \in TurnIds /\ loop.at = "withdraw"
    BY <1>10 DEF CompletionCancelTurn, TurnsInv, LoopAgrees
  <2>2. CASE Running(t)
    <3>1. loop' # loop
      BY <1>10, <2>1 DEF CompletionCancelTurn
    <3>2. turn' = [turn EXCEPT ![t] = HardCancelled(t)]
      BY <1>10, <2>2 DEF CompletionCancelTurn
    <3>3. turn[t].of \notin Webs
      BY <2>1, <2>2, NamesAssumption DEF TurnsInv, LoopAgrees
    <3> QED
      BY <1>10, <2>1, <2>2, <3>1, <3>2, <3>3, HardCancelKeeps DEF CompletionCancelTurn
  <2>3. CASE ~Running(t)
    <3>1. turn' = turn /\ loop'.at = "dispatch" /\ UNCHANGED <<chat, direct>>
      BY <1>0, <1>10, <2>1, <2>3 DEF CompletionCancelTurn, TypeOK
    <3>2. TypeOK'
      BY <1>0, <1>10, <3>1 DEF CompletionCancelTurn, TypeOK
    <3>3. turn[t].pc \notin InRunTurn
      BY <2>3 DEF Running, Holding, InRunTurn
    <3> QED
      BY <1>0, <2>1, <3>1, <3>2, <3>3
         DEF TurnsInv, TurnsAccounted, BusyMeansRunning, EveryTurnAnswers, OwnerKinds,
             Withdrawals, ResultsHeld, LoopAgrees, Finishing, ShuttingDown, Running, Holding, IsDirect
  <2> QED
    BY <2>2, <2>3
<1>11. ASSUME NEW t \in TurnIds, TurnStep(t) PROVE TurnsInv'
  <2>1. CASE EndTurn(t)
    BY <2>1, EndTurnKeeps
  <2>2. CASE WebDone(t)
    BY <2>2, WebDoneKeeps
  <2>3. CASE Publish(t)
    BY <2>3, PublishKeeps
  <2>4. CASE Fallback(t)
    BY <2>4, FallbackKeeps
  <2>5. CASE ~EndTurn(t) /\ ~WebDone(t) /\ ~Publish(t) /\ ~Fallback(t)
    <3>1. (GoesOn(t) \/ Concludes(t)) /\ RetryType'
      BY <1>11, <2>5, RunTurnShape DEF TurnStep
    <3> QED
      BY <3>1, GoesOnKeeps, ConcludesKeeps
  <2> QED
    BY <2>1, <2>2, <2>3, <2>4, <2>5
<1>12. ASSUME NEW t \in TurnIds, CompactDone(t) PROVE TurnsInv'
  BY <1>12, CompactDoneKeeps
<1>13. ASSUME Tick \/ Joined \/ UNCHANGED vars PROVE TurnsInv'
  <2>1. /\ UNCHANGED <<chat, direct, turn>>
        /\ \/ UNCHANGED loop
           \/ loop.at = "exit" /\ loop' = [loop EXCEPT !.at = "joined"]
    BY <1>13 DEF Tick, Joined, vars
  <2>2. TypeOK'
    BY <1>0, <1>13 DEF Tick, Joined, vars, TypeOK
  <2>3. /\ loop'.at = loop.at \/ (loop.at = "exit" /\ loop'.at = "joined")
        /\ loop'.turn = loop.turn
    <3>1. [loop EXCEPT !.at = "joined"].at = "joined"
          /\ [loop EXCEPT !.at = "joined"].turn = loop.turn
      BY <1>0 DEF TypeOK
    <3>2. loop' = loop \/ (loop.at = "exit" /\ loop' = [loop EXCEPT !.at = "joined"])
      BY <2>1
    <3>3. CASE loop' = loop
      BY <3>3
    <3>4. CASE loop.at = "exit" /\ loop' = [loop EXCEPT !.at = "joined"]
      BY <3>1, <3>4
    <3> QED
      BY <3>2, <3>3, <3>4
  <2>4. ShuttingDown' <=> ShuttingDown
    BY <2>3 DEF ShuttingDown
  <2>5. Withdrawals'
    <3>1. \A t \in TurnIds : turn[t].pc \in InRunTurn /\ turn[t].withdrawn => loop' = loop
      BY <2>1 DEF TurnsInv, Withdrawals
    <3> QED
      BY <2>1, <2>4, <3>1 DEF TurnsInv, Withdrawals, Running, Holding, IsDirect
  <2>6. LoopAgrees'
    BY <2>1, <2>3, <2>4 DEF TurnsInv, LoopAgrees, Finishing, Running
  <2> QED
    BY <2>1, <2>2, <2>4, <2>5, <2>6
       DEF TurnsInv, TurnsAccounted, BusyMeansRunning, EveryTurnAnswers, OwnerKinds,
           ResultsHeld, Running, Holding
<1>14. ASSUME Shutdown PROVE TurnsInv'
  BY <1>14, ShutdownKeeps
<1> QED
  BY <1>1, <1>2, <1>3, <1>4, <1>5, <1>6, <1>7, <1>8, <1>9, <1>10, <1>11, <1>12, <1>13,
     <1>14 DEF Next

\* Chats, requests and tasks agree in every reachable state, and a turn that
\* ended without a word was hard cancelled, withdrawn or stopped by shutdown.
THEOREM ChatgptTurnsAccounted == Spec => []TurnsAccounted
<1>1. TurnsInv => TurnsAccounted
  BY DEF TurnsInv
<1> QED
  BY <1>1, InitTurnsInv, StepTurnsInv, PTL DEF Spec

-----------------------------------------------------------------------------
(* The action property. *)

\* What one step may do to the result of one turn.
ResultStep(t) ==
    turn'[t].result \notin {turn[t].result, "none"} =>
        /\ IsDirect(t) /\ turn'[t].result # "undelivered" =>
               direct[turn[t].of] = t \/ turn[t].late \/ ShuttingDown
        /\ turn[t].hard => turn[t].pc \in {"publish", "fallback"}
        /\ turn[t].result # "none" => turn[t].of \in Webs /\ turn'[t].late

\* The result of a request is given by its owner, and given once.
LEMMA StepOwnerFinishes ==
    ASSUME TurnsInv, [Next]_vars, NEW t \in TurnIds
    PROVE  ResultStep(t)
<1>0. /\ TypeOK /\ None \notin TurnIds
      /\ Requests \subseteq Entries /\ Webs \subseteq Entries
  BY NamesAssumption DEF TurnsInv, TurnsAccounted, TurnIds, Entries
<1>1. SUFFICES ASSUME turn'[t].result \notin {turn[t].result, "none"} PROVE ResultStep(t)
  BY DEF ResultStep
<1>2. ASSUME NEW u \in TurnIds, NEW w, turn' = [turn EXCEPT ![u] = w]
      PROVE  u = t /\ turn'[t] = w /\ w.result \notin {turn[t].result, "none"}
  BY <1>0, <1>1, <1>2 DEF TypeOK
<1>3. ASSUME \A u \in TurnIds : Touched(u) PROVE FALSE
  BY <1>1, <1>3 DEF Touched
<1>4. ASSUME NEW c \in Chats, ChatCreate(c) \/ ChatDelete(c) \/ ChatCancel(c)
      PROVE  FALSE
  <2>1. CASE ChatCreate(c)
    BY <1>1, <2>1 DEF ChatCreate
  <2>2. CASE ChatDelete(c)
    BY <1>3, <2>2, InterruptedTouches DEF ChatDelete
  <2>3. CASE ChatCancel(c)
    BY <1>1, <1>2, <2>3, DroppedType DEF ChatCancel, IsDropped
  <2> QED
    BY <1>4, <2>1, <2>2, <2>3
<1>5. ASSUME NEW o, NEW pc, NEW u \in TurnIds, turn' = [turn EXCEPT ![u] = Begun(o, pc)]
      PROVE  FALSE
  <2>1. Begun(o, pc).result = "none"
    BY DEF Begun, Idle
  <2> QED
    BY <1>2, <1>5, <2>1
<1>6. ASSUME NEW r \in Requests, CompletionCancel(r) PROVE FALSE
  <2>1. direct[r] \in TurnIds
    BY <1>0, <1>6 DEF CompletionCancel, TypeOK
  <2>2. turn'[t].result = turn[t].result
    BY <1>0, <1>6, <2>1 DEF CompletionCancel, TypeOK
  <2> QED
    BY <1>1, <2>2
<1>7. ASSUME NEW x \in Webs, WebCancel(x) PROVE ResultStep(t)
  <2> DEFINE u == direct[x]
             w == [turn[u] EXCEPT !.withdrawn = TRUE, !.late = Finishing(u), !.result = "error"]
  <2>1. u \in TurnIds /\ turn[u].of = x /\ ~turn[u].withdrawn /\ x \in Entries
    BY <1>0, <1>7
       DEF WebCancel, TypeOK, TurnsInv, TurnsAccounted, BusyMeansRunning, Withdrawals
  <2>2. turn' = [turn EXCEPT ![u] = w]
    BY <1>0, <1>7, <2>1 DEF WebCancel, TypeOK
  <2>3. w.late = Finishing(u)
    BY <1>0, <2>1 DEF TypeOK
  <2>4. u = t /\ turn'[t].late = Finishing(t)
    BY <1>2, <2>1, <2>2, <2>3
  <2>5. turn[t].hard => turn[t].of \notin Webs
    BY DEF TurnsInv, ResultsHeld
  <2>6. turn[t].result # "none" => turn[t].pc \in {"publish", "ending", "done"}
    BY <2>1, <2>4 DEF TurnsInv, ResultsHeld
  <2>7. turn[t].pc # "done"
    BY <1>0, <2>1, <2>4
       DEF TurnsInv, TurnsAccounted, BusyMeansRunning, Holding, Running
  <2> QED
    BY <2>1, <2>4, <2>5, <2>6, <2>7 DEF ResultStep, Finishing
<1>8. ASSUME CompletionCancelTurn PROVE FALSE
  <2>1. loop.turn \in TurnIds
    BY <1>8 DEF CompletionCancelTurn, TurnsInv, LoopAgrees
  <2> QED
    BY <1>1, <1>2, <1>8, <2>1, DroppedType DEF CompletionCancelTurn, IsDropped
<1>9. ASSUME NEW u \in TurnIds, EndTurn(u) PROVE FALSE
  BY <1>2, <1>9, EndedType DEF EndTurn, Moved
<1>10. ASSUME NEW u \in TurnIds, WebDone(u) PROVE FALSE
  <2>1. PICK r \in {"completed", "error"} :
        turn' = [turn EXCEPT ![u] =
            IF direct[turn[u].of] = u THEN [turn[u] EXCEPT !.pc = "publish", !.final = r]
            ELSE [turn[u] EXCEPT !.pc = "ending"]]
    BY <1>0, <1>10 DEF WebDone, TypeOK
  <2>2. /\ [turn[u] EXCEPT !.pc = "publish", !.final = r].result = turn[u].result
        /\ [turn[u] EXCEPT !.pc = "ending"].result = turn[u].result
    BY <1>0 DEF TypeOK
  <2> QED
    BY <1>2, <2>1, <2>2
<1>11. ASSUME NEW u \in TurnIds, GoesOn(u) PROVE FALSE
  BY <1>2, <1>11 DEF GoesOn
<1>12. ASSUME NEW u \in TurnIds, Concludes(u) PROVE FALSE
  <2>1. PICK r \in Results :
        turn' = [turn EXCEPT ![u] = [Idle EXCEPT
            !.pc = IF r \in {"none", "undelivered"} THEN "ending" ELSE "publish",
            !.of = turn[u].of, !.withdrawn = turn[u].withdrawn, !.final = r]]
    BY <1>12 DEF Concludes, Conclude, Moved, Published, Results
  <2>2. [Idle EXCEPT
            !.pc = IF r \in {"none", "undelivered"} THEN "ending" ELSE "publish",
            !.of = turn[u].of, !.withdrawn = turn[u].withdrawn, !.final = r].result = "none"
    BY DEF Idle
  <2> QED
    BY <1>2, <2>1, <2>2
<1>13. ASSUME NEW u \in TurnIds, Publish(u) PROVE ResultStep(t)
  <2>1. PICK w \in TurnType : turn' = [turn EXCEPT ![u] = w] /\ AfterSend(u, w)
    BY <1>13, PublishShape
  <2>2. u = t /\ turn'[t] = w /\ turn[t].pc = "publish"
    BY <1>2, <1>13, <2>1 DEF Publish
  <2>3. turn[t].result # "none" => turn[t].of \in Webs /\ turn[t].late
    BY <2>2 DEF TurnsInv, ResultsHeld
  <2>4. IsDirect(t) /\ direct[turn[t].of] # t => turn[t].late \/ ShuttingDown
    BY <2>2 DEF TurnsInv, Withdrawals
  <2> QED
    BY <2>1, <2>2, <2>3, <2>4 DEF ResultStep, AfterSend
<1>14. ASSUME NEW u \in TurnIds, Fallback(u) PROVE ResultStep(t)
  <2>1. /\ turn[u].pc = "fallback" /\ turn[u].final = "undelivered"
        /\ turn[u].result = "none"
    BY <1>14 DEF Fallback, TurnsInv, ResultsHeld
  <2>2. /\ [Idle EXCEPT !.pc = "done", !.result = turn[u].final].result = turn[u].final
        /\ [Idle EXCEPT !.pc = "silent", !.hard = turn[u].hard,
                        !.withdrawn = turn[u].withdrawn].result = "none"
    BY DEF Idle
  <2>3. u = t /\ turn'[t].result = "undelivered"
    BY <1>2, <1>14, <2>1, <2>2 DEF Fallback, Moved
  <2> QED
    BY <2>1, <2>3 DEF ResultStep
<1>15. ASSUME NEW u \in TurnIds, TurnStep(u) PROVE ResultStep(t)
  BY <1>9, <1>10, <1>11, <1>12, <1>13, <1>14, <1>15, RunTurnShape DEF TurnStep
<1>16. ASSUME NEW u \in TurnIds, CompactDone(u) PROVE FALSE
  <2>1. [Idle EXCEPT !.pc = "done"].result = "none"
    BY DEF Idle
  <2> QED
    BY <1>2, <1>16, <2>1 DEF CompactDone
<1>17. ASSUME Interrupt PROVE FALSE
  BY <1>3, <1>17, InterruptedTouches DEF Interrupt
<1>18. ASSUME Tick \/ Joined \/ UNCHANGED vars PROVE FALSE
  BY <1>1, <1>18 DEF Tick, Joined, vars
<1>19. ASSUME Shutdown PROVE FALSE
  <2>1. [Idle EXCEPT !.pc = "silent"].result = "none"
    BY DEF Idle
  <2>2. Dropped(t).result = turn[t].result
    BY DroppedType DEF IsDropped
  <2> QED
    BY <1>1, <1>19, <2>1, <2>2 DEF Shutdown
<1>20. ASSUME NEW c \in Chats, NEW u \in TurnIds, ChatComplete(c, u) \/ ChatCompact(c, u)
       PROVE  FALSE
  BY <1>5, <1>20 DEF ChatComplete, ChatCompact, BeginTurn
<1>21. ASSUME NEW r, NEW u \in TurnIds, CompletionRequest(r, u) \/ WebRequest(r, u)
       PROVE  FALSE
  BY <1>5, <1>21 DEF CompletionRequest, WebRequest
<1> QED
  BY <1>4, <1>6, <1>7, <1>8, <1>15, <1>16, <1>17, <1>18, <1>19, <1>20, <1>21 DEF Next

\* The result of a request comes from the turn that owned it when it looked,
\* whatever was withdrawn and asked again; a hard cancelled turn says nothing
\* it was not about to send; and only a web.cancel is met by a second answer.
THEOREM ChatgptOnlyOwnerFinishes == Spec => OnlyOwnerFinishes
<1>1. ASSUME TurnsInv, [Next]_vars
      PROVE  [\A t \in TurnIds : turn'[t].result \notin {turn[t].result, "none"} =>
        /\ IsDirect(t) /\ turn'[t].result # "undelivered" =>
               direct[turn[t].of] = t \/ turn[t].late \/ ShuttingDown
        /\ turn[t].hard => turn[t].pc \in {"publish", "fallback"}
        /\ turn[t].result # "none" => turn[t].of \in Webs /\ turn'[t].late]_vars
  BY <1>1, StepOwnerFinishes DEF ResultStep
<1> QED
  BY <1>1, InitTurnsInv, StepTurnsInv, PTL DEF Spec, OnlyOwnerFinishes

=============================================================================
