---------------------------- MODULE ChatgptTurns ----------------------------
(***************************************************************************)
(* The turns of the ChatGPT provider (plugins/chatgpt-provider/src/        *)
(* dispatcher.rs, state.rs): a dispatch loop that edits the chats, starts, *)
(* interrupts and cancels turns, and one task per turn that asks the       *)
(* Responses endpoint, retries behind a shared recovery gate, recovers     *)
(* from a 401 and publishes one result.                                    *)
(*                                                                         *)
(* A turn belongs to a chat (`chat.complete`, `chat.compact`) or to a      *)
(* request (`completion.request`), which has a private chat nobody else    *)
(* can reach; the task of a `web.request` is a turn here too, with no chat *)
(* and no retries.  A step is what a task does between two awaits that can *)
(* really wait; `select! { biased; ... }` is a guard, and a hard cancelled *)
(* task takes no step but its own end, save one that was past its last     *)
(* look at the token, on another thread, when it was cancelled.  A message *)
(* may be refused as too large for one frame.                              *)
(***************************************************************************)
EXTENDS Integers, FiniteSets

CONSTANTS
    Chats, Requests,   \* chat ids, and request ids of direct completions
    Webs,              \* ids of web requests
    None,              \* no chat, no turn
    Vacant,            \* the turn slot of a chat that has no turn in flight
    MaxTurns           \* bound: turns started

ASSUME BoundsAssumption == MaxTurns \in Nat \ {0}

\* Chats, completions and web executions are kept in maps of their own, and
\* the two marks are no turn and no owner.
ASSUME NamesAssumption ==
    /\ Chats \cap Requests = {} /\ Chats \cap Webs = {} /\ Requests \cap Webs = {}
    /\ None \notin Chats \cup Requests \cup Webs
    /\ None \notin 1..MaxTurns /\ Vacant \notin 1..MaxTurns /\ None # Vacant

VARIABLES
    chat,        \* Chats::inner: no such chat, or its turn in flight
    direct,      \* DirectCompletions::runs and WebExecutions::runs, by the
                 \* turn that owns the entry
    turn,        \* the turn tasks, used in order
    gate,        \* ProviderRecoveryGate: open, its deadline passed, probe
    noReasoning, \* Chats::reasoning_unsupported, for the one model
    loop         \* the dispatch loop: what it does, and for which turn

vars == <<chat, direct, turn, gate, noReasoning, loop>>

TurnIds == 1..MaxTurns

Entries == Requests \cup Webs
Owners == Chats \cup Entries

\* The results a turn can publish. "blank" is a result that names no reason,
\* "undelivered" the error that stands for output that was refused.
Results == {"none", "completed", "interrupted", "error", "blank", "undelivered"}

(* A turn: pc and whose it is; its TurnToken (cancel; suppress and hard_cancel, *)
(* which are set together); run_turn's 401 stage, whether the request carries   *)
(* `reasoning`, whether the attempt's stream is broken from the start and has   *)
(* shown anything, and the result it is about to publish; and as history,       *)
(* whether it is the gate's probe, the result its asker was sent, whether its   *)
(* request was withdrawn, and late, when the turn had looked whose it is.  A    *)
(* turn that ended is "done" or, without a result, "silent".                    *)
Idle == [pc |-> "unused", of |-> None, cancel |-> FALSE,
         hard |-> FALSE, stage |-> 0, reasoning |-> FALSE,
         broken |-> FALSE, output |-> FALSE, final |-> "none", probe |-> FALSE,
         result |-> "none", withdrawn |-> FALSE, late |-> FALSE]

Pcs == {"unused", "prepare", "admit", "open", "stream", "publish", "ending",
        "fallback", "compact", "web", "done", "silent"}

TypeOK ==
    /\ chat \in [Chats -> TurnIds \cup {None, Vacant}]
    /\ direct \in [Entries -> TurnIds \cup {None}]
    /\ turn \in [TurnIds ->
            [pc : Pcs, of : Owners \cup {None},
             cancel : BOOLEAN, hard : BOOLEAN, stage : 0..2,
             reasoning : BOOLEAN, broken : BOOLEAN, output : BOOLEAN,
             final : Results, probe : BOOLEAN, result : Results,
             withdrawn : BOOLEAN, late : BOOLEAN]]
    /\ gate \in [open : BOOLEAN, due : BOOLEAN, probe : BOOLEAN]
    /\ noReasoning \in BOOLEAN
    /\ loop \in [at : {"dispatch", "compact", "withdraw", "exit", "joined"},
                 turn : TurnIds \cup {None}]

ClosedGate == [open |-> FALSE, due |-> FALSE, probe |-> FALSE]

Init ==
    /\ chat = [c \in Chats |-> None]
    /\ direct = [r \in Entries |-> None]
    /\ turn = [t \in TurnIds |-> Idle]
    /\ gate = ClosedGate
    /\ noReasoning = FALSE
    /\ loop = [at |-> "dispatch", turn |-> None]

Dispatching == loop.at = "dispatch"

ShuttingDown == loop.at \in {"exit", "joined"}

Running(t) == turn[t].pc \notin {"unused", "done", "silent"}

\* Past its last look at the token and at whose the request is.
Finishing(t) == turn[t].pc \in {"publish", "ending", "fallback"}

IsDirect(t) == turn[t].of \in Entries

\* The turn the next TurnToken is for; a token is compared by identity.
IsNext(t) == turn[t].pc = "unused" /\ \A u \in 1..t-1 : turn[u].pc # "unused"

-----------------------------------------------------------------------------
(* The dispatch loop: chats.                                               *)

\* chat.create and chat.restore replace whatever state the id had.
ChatCreate(c) ==
    /\ Dispatching
    /\ chat' = [chat EXCEPT ![c] = Vacant]
    /\ UNCHANGED <<direct, turn, gate, noReasoning, loop>>

\* The TurnToken of the turn in flight, if any: Chats::interrupt.  A turn that
\* is about to publish its result no longer looks at it.
Interrupted(cs) ==
    [t \in TurnIds |->
        IF ~Finishing(t) /\ \E c \in cs : chat[c] = t
        THEN [turn[t] EXCEPT !.cancel = TRUE]
        ELSE turn[t]]

ChatDelete(c) ==
    /\ Dispatching /\ chat[c] # None
    /\ turn' = Interrupted({c})
    /\ chat' = [chat EXCEPT ![c] = None]
    /\ UNCHANGED <<direct, gate, noReasoning, loop>>

\* `interrupt`, for one chat or for all; `reset` and `logout_requested` also
\* interrupt all.  A direct completion is in none of these chats.
Interrupt ==
    /\ Dispatching
    /\ \E cs \in {{c} : c \in Chats} \cup {Chats} : turn' = Interrupted(cs)
    /\ UNCHANGED <<chat, direct, gate, noReasoning, loop>>

\* Hard cancelled, or told to shut down: the first arms of spawn_turn's select
\* drop run_turn at the await it is in, and all that is left is the end.  What
\* a turn that finishes does about it is in its own steps.
Dropped(t) ==
    IF Finishing(t) THEN turn[t]
    ELSE [Idle EXCEPT !.pc = "ending", !.of = turn[t].of,
                      !.hard = turn[t].hard, !.withdrawn = turn[t].withdrawn,
                      !.result = turn[t].result]

HardCancelled(t) == [Dropped(t) EXCEPT !.hard = TRUE]

\* `chat.cancel`: Chats::cancel_turn.
ChatCancel(c) ==
    /\ Dispatching /\ chat[c] \in TurnIds
    /\ turn' = [turn EXCEPT ![chat[c]] = HardCancelled(chat[c])]
    /\ UNCHANGED <<chat, direct, gate, noReasoning, loop>>

-----------------------------------------------------------------------------
(* The dispatch loop: starting and withdrawing turns.                      *)

Begun(owner, pc) == [Idle EXCEPT !.pc = pc, !.of = owner]

BeginTurn(c, t, pc) ==
    /\ IsNext(t) /\ chat[c] = Vacant
    /\ turn' = [turn EXCEPT ![t] = Begun(c, pc)]
    /\ chat' = [chat EXCEPT ![c] = t]

ChatComplete(c, t) ==
    /\ Dispatching
    /\ BeginTurn(c, t, "prepare")
    /\ UNCHANGED <<direct, gate, noReasoning, loop>>

\* Bug: a completion.request takes over an id that is in flight.
CompletionRequestReplacing(r, t) ==
    /\ Dispatching /\ IsNext(t)
    /\ direct' = [direct EXCEPT ![r] = t]
    /\ turn' = [turn EXCEPT ![t] = Begun(r, "prepare")]
    /\ UNCHANGED <<chat, gate, noReasoning, loop>>

\* A completion.request whose id is in flight is refused, with a failure under
\* that id which the turn in flight takes no notice of.
CompletionRequest(r, t) ==
    /\ Dispatching /\ direct[r] = None /\ IsNext(t)
    /\ direct' = [direct EXCEPT ![r] = t]
    /\ turn' = [turn EXCEPT ![t] = Begun(r, "prepare")]
    /\ UNCHANGED <<chat, gate, noReasoning, loop>>

\* completion.cancel takes the entry out first and stops the turn after.
CompletionCancel(r) ==
    /\ Dispatching /\ direct[r] # None
    /\ loop' = [at |-> "withdraw", turn |-> direct[r]]
    /\ turn' = [turn EXCEPT ![direct[r]] =
            [@ EXCEPT !.withdrawn = TRUE, !.late = Finishing(direct[r])]]
    /\ direct' = [direct EXCEPT ![r] = None]
    /\ UNCHANGED <<chat, gate, noReasoning>>

CompletionCancelTurn ==
    /\ loop.at = "withdraw"
    /\ turn' = [turn EXCEPT ![loop.turn] =
            IF Running(loop.turn) THEN HardCancelled(loop.turn) ELSE @]
    /\ loop' = [at |-> "dispatch", turn |-> None]
    /\ UNCHANGED <<chat, direct, gate, noReasoning>>

\* chat.compact runs inside the dispatch loop, which takes no other message
\* until the endpoint has answered.
ChatCompact(c, t) ==
    /\ Dispatching
    /\ BeginTurn(c, t, "compact")
    /\ loop' = [at |-> "compact", turn |-> t]
    /\ UNCHANGED <<direct, gate, noReasoning>>

CompactDone(t) ==
    /\ loop = [at |-> "compact", turn |-> t]
    /\ loop' = [at |-> "dispatch", turn |-> None]
    /\ chat' = [chat EXCEPT ![turn[t].of] = Vacant]
    /\ turn' = [turn EXCEPT ![t] = [Idle EXCEPT !.pc = "done"]]
    /\ UNCHANGED <<direct, gate, noReasoning>>

-----------------------------------------------------------------------------
(* Web executions.                                                         *)

WebRequest(w, t) ==
    /\ Dispatching /\ direct[w] = None /\ IsNext(t)
    /\ direct' = [direct EXCEPT ![w] = t]
    /\ turn' = [turn EXCEPT ![t] = Begun(w, "web")]
    /\ UNCHANGED <<chat, gate, noReasoning, loop>>

\* web.cancel answers in the place of the task, which goes on until it looks
\* at its token; the id is free at once.
WebCancel(w) ==
    /\ Dispatching /\ direct[w] # None
    /\ turn' = [turn EXCEPT ![direct[w]] =
            [@ EXCEPT !.withdrawn = TRUE, !.late = Finishing(direct[w]), !.result = "error"]]
    /\ direct' = [direct EXCEPT ![w] = None]
    /\ UNCHANGED <<chat, gate, noReasoning, loop>>

\* The task has its answer, and publishes it if the entry is still its own.
WebDone(t) ==
    /\ turn[t].pc = "web"
    /\ \E r \in {"completed", "error"} :
        turn' = [turn EXCEPT ![t] =
            IF direct[turn[t].of] = t THEN [@ EXCEPT !.pc = "publish", !.final = r]
            ELSE [@ EXCEPT !.pc = "ending"]]
    /\ UNCHANGED <<chat, direct, gate, noReasoning, loop>>

-----------------------------------------------------------------------------
(* A turn task: run_turn inside spawn_turn's select.                       *)

Moved(t, upd) == turn' = [turn EXCEPT ![t] = upd]

\* Bug: the result of a withdrawn request is published all the same.
PublishedUnchecked(t, result) == result

\* The end of run_turn: nothing for a request that is no longer this turn's,
\* otherwise one result.
Published(t, result) ==
    IF IsDirect(t) /\ direct[turn[t].of] # t THEN "none" ELSE result

\* run_turn has its result, or something it sent before was refused.
Conclude(t, result) ==
    \E r \in {Published(t, result), "undelivered"} :
        Moved(t, [Idle EXCEPT
            !.pc = IF r \in {"none", "undelivered"} THEN "ending" ELSE "publish",
            !.of = turn[t].of, !.withdrawn = turn[t].withdrawn, !.final = r])

\* Whoever polls the task next drops what it has not sent.
Stopped(t) ==
    \/ turn[t].hard
    \/ ShuttingDown
    \/ turn[t].of \in Webs /\ turn[t].withdrawn

\* The send, after the look: it is taken, or refused for its size, or it waits
\* for room until the task is stopped.  A web execution answers for a refused
\* result at once, any other turn after it has given its request back.
Publish(t) ==
    /\ turn[t].pc = "publish"
    /\ \/ Moved(t, [turn[t] EXCEPT !.pc = "ending", !.result = turn[t].final,
                                   !.final = "none"])
       \/ turn[t].of \in Webs
          /\ Moved(t, [turn[t] EXCEPT !.pc = "ending", !.result = "undelivered",
                                      !.final = "none"])
       \/ turn[t].of \notin Webs
          /\ Moved(t, [turn[t] EXCEPT !.pc = "ending", !.final = "undelivered"])
       \/ Stopped(t) /\ Moved(t, [turn[t] EXCEPT !.pc = "ending", !.final = "none"])
    /\ UNCHANGED <<chat, direct, gate, noReasoning, loop>>

\* The head of the loop: snapshot, login, token refresh.
Prepare(t) ==
    /\ turn[t].pc = "prepare"
    /\ \/ Conclude(t, "error")          \* the chat is gone, no login, or no fresh token
       \/ /\ turn[t].of \in {c \in Chats : chat[c] # None} \cup Requests
          /\ Moved(t, [turn[t] EXCEPT !.pc = "admit", !.reasoning = ~noReasoning])
    /\ UNCHANGED <<chat, direct, gate, noReasoning, loop>>

\* ProviderRecoveryGate::admit.
Admit(t) ==
    /\ turn[t].pc = "admit"
    /\ \/ /\ ~gate.open
          /\ Moved(t, [turn[t] EXCEPT !.pc = "open"])
          /\ UNCHANGED gate
       \/ /\ gate.open /\ gate.due /\ ~gate.probe
          /\ gate' = [gate EXCEPT !.probe = TRUE]
          /\ Moved(t, [turn[t] EXCEPT !.pc = "open", !.probe = TRUE])
       \/ /\ gate.open /\ ~(gate.due /\ ~gate.probe) /\ turn[t].cancel
          /\ Conclude(t, "blank")
          /\ UNCHANGED gate
    /\ UNCHANGED <<chat, direct, noReasoning, loop>>

\* The endpoint accepts the request: record_success.
Opened(t) ==
    /\ turn[t].pc = "open"
    /\ gate' = ClosedGate
    /\ Moved(t, [turn[t] EXCEPT !.pc = "stream", !.stage = 0,
                                !.reasoning = FALSE, !.probe = FALSE])
    /\ UNCHANGED <<chat, direct, noReasoning, loop>>

\* A transient failure becomes a stream that ends in that failure.
OpenFailsTransiently(t) ==
    /\ turn[t].pc = "open"
    /\ Moved(t, [turn[t] EXCEPT !.pc = "stream", !.broken = TRUE,
                                !.reasoning = FALSE])
    /\ UNCHANGED <<chat, direct, gate, noReasoning, loop>>

Again(t, stage) == [turn[t] EXCEPT !.pc = "prepare", !.stage = stage,
                                    !.reasoning = FALSE, !.probe = FALSE]

\* Bug: the stage after a refresh is not the last one.
Auth401ActionUnbounded(stage, adopted) ==
    IF stage = 0 /\ adopted THEN "RetryReloaded"
    ELSE IF stage <= 2 THEN "ForceRefresh" ELSE "Fail"

\* auth_401_action.
Auth401Action(stage, adopted) ==
    IF stage = 0 /\ adopted THEN "RetryReloaded"
    ELSE IF stage < 2 THEN "ForceRefresh" ELSE "Fail"

Unauthorized(t) ==
    /\ turn[t].pc = "open"
    /\ \E adopted, refreshed \in BOOLEAN :
        LET action == Auth401Action(turn[t].stage, adopted)
        IN  \/ action = "RetryReloaded" /\ Moved(t, Again(t, 1))
            \/ action = "ForceRefresh" /\ refreshed /\ Moved(t, Again(t, 2))
            \/ action = "ForceRefresh" /\ ~refreshed /\ Conclude(t, "error")
            \/ action = "Fail" /\ Conclude(t, "error")
    /\ UNCHANGED <<chat, direct, gate, noReasoning, loop>>

\* Any other refusal, and the one that only means "without reasoning".
Refused(t) ==
    /\ turn[t].pc = "open"
    /\ \/ /\ turn[t].reasoning
          /\ noReasoning' = TRUE
          /\ Moved(t, [turn[t] EXCEPT !.pc = "prepare", !.reasoning = FALSE,
                                      !.probe = FALSE])
       \/ /\ Conclude(t, "error")
          /\ UNCHANGED noReasoning
    /\ UNCHANGED <<chat, direct, gate, loop>>

\* The stream, which looks at `cancel` first.
Streaming(t) == turn[t].pc = "stream" /\ ~turn[t].cancel

Delta(t) ==
    /\ Streaming(t) /\ ~turn[t].broken
    /\ Moved(t, [turn[t] EXCEPT !.output = TRUE])
    /\ UNCHANGED <<chat, direct, gate, noReasoning, loop>>

StreamInterrupted(t) ==
    /\ turn[t].pc = "stream" /\ turn[t].cancel
    /\ Conclude(t, "interrupted")
    /\ UNCHANGED <<chat, direct, gate, noReasoning, loop>>

StreamCompleted(t) ==
    /\ Streaming(t) /\ ~turn[t].broken
    /\ Conclude(t, "completed")
    /\ UNCHANGED <<chat, direct, gate, noReasoning, loop>>

\* record_failure, and the attempt's output taken back before the next one.
RetryStream(t) ==
    /\ gate' = [open |-> TRUE, due |-> FALSE, probe |-> FALSE]
    /\ Moved(t, [turn[t] EXCEPT
            !.pc = "prepare", !.broken = FALSE,
            !.output = FALSE, !.probe = FALSE])

\* A failure is retried when it is transient and the policy allows: by default
\* it always does, an attempt count or a time budget may be set.
StreamFailed(t) ==
    /\ Streaming(t)
    /\ \/ RetryStream(t)
       \/ Conclude(t, "error") /\ UNCHANGED gate
    /\ UNCHANGED <<chat, direct, noReasoning, loop>>

\* spawn_turn after the select: the slot and the request are given back, by
\* their owner only.
EndTurnIfCurrent(t) ==
    LET c == turn[t].of
    IN  IF c \in Chats /\ chat[c] = t
        THEN chat' = [chat EXCEPT ![c] = Vacant]
        ELSE UNCHANGED chat

FinishDirect(t) ==
    direct' = [r \in Entries |-> IF direct[r] = t THEN None ELSE direct[r]]

\* A refused output is answered for by an error after that, and without
\* another look whose the request is by then.
Ended(t) ==
    IF turn[t].final # "none" /\ ~turn[t].hard
    THEN [turn[t] EXCEPT !.pc = "fallback"]
    ELSE IF turn[t].result # "none" THEN [Idle EXCEPT !.pc = "done"]
    ELSE [Idle EXCEPT !.pc = "silent", !.hard = turn[t].hard,
                      !.withdrawn = turn[t].withdrawn]

EndTurn(t) ==
    /\ turn[t].pc = "ending"
    /\ EndTurnIfCurrent(t)
    /\ FinishDirect(t)
    /\ Moved(t, Ended(t))
    /\ UNCHANGED <<gate, noReasoning, loop>>

Fallback(t) ==
    /\ turn[t].pc = "fallback"
    /\ \/ Moved(t, [Idle EXCEPT !.pc = "done", !.result = turn[t].final])
       \/ Stopped(t) /\ Moved(t, [Idle EXCEPT !.pc = "silent", !.hard = turn[t].hard,
                                             !.withdrawn = turn[t].withdrawn])
    /\ UNCHANGED <<chat, direct, gate, noReasoning, loop>>

TurnStep(t) ==
    \/ Prepare(t) \/ Admit(t) \/ Opened(t) \/ OpenFailsTransiently(t)
    \/ Unauthorized(t) \/ Refused(t) \/ Delta(t) \/ StreamInterrupted(t)
    \/ StreamCompleted(t) \/ StreamFailed(t) \/ WebDone(t)
    \/ Publish(t) \/ EndTurn(t) \/ Fallback(t)

-----------------------------------------------------------------------------
\* The deadline of the gate passes.
Tick ==
    /\ gate.open /\ ~gate.due
    /\ gate' = [gate EXCEPT !.due = TRUE]
    /\ UNCHANGED <<chat, direct, turn, noReasoning, loop>>

\* The loop ends: by a shutdown message or ctrl-c, which interrupt first, at
\* the end of stdin, or because nobody reads stdout any more.  All tasks are
\* told to stop, all turns and requests released.  A compaction under way is
\* dropped with the dispatch of its message.
Shutdown ==
    /\ ~ShuttingDown
    /\ loop' = [at |-> "exit", turn |-> None]
    /\ turn' = [t \in TurnIds |->
            IF turn[t].pc = "compact" THEN [Idle EXCEPT !.pc = "silent"]
            ELSE IF Running(t) THEN Dropped(t) ELSE turn[t]]
    /\ chat' = [c \in Chats |->
            IF chat[c] = None THEN None ELSE Vacant]
    /\ direct' = [r \in Entries |-> None]
    /\ UNCHANGED <<gate, noReasoning>>

\* run_dispatch_loop returns once every task has ended.
Joined ==
    /\ loop.at = "exit"
    /\ \A t \in TurnIds : ~Running(t)
    /\ loop' = [loop EXCEPT !.at = "joined"]
    /\ UNCHANGED <<chat, direct, turn, gate, noReasoning>>

Next ==
    \/ \E c \in Chats : \/ ChatCreate(c) \/ ChatDelete(c) \/ ChatCancel(c)
    \/ \E c \in Chats, t \in TurnIds : ChatComplete(c, t) \/ ChatCompact(c, t)
    \/ \E r \in Requests : CompletionCancel(r)
    \/ \E r \in Requests, t \in TurnIds : CompletionRequest(r, t)
    \/ \E w \in Webs : WebCancel(w) \/ \E t \in TurnIds : WebRequest(w, t)
    \/ Interrupt \/ CompletionCancelTurn
    \/ \E t \in TurnIds : TurnStep(t) \/ CompactDone(t)
    \/ Tick \/ Shutdown \/ Joined

(* Every task is polled again when what it waits for has happened, a timer *)
(* fires, and the endpoint answers or times out (REQUEST_TIMEOUT and the   *)
(* idle timeout of the stream).                                            *)
Spec == Init /\ [][Next]_vars
          /\ \A t \in TurnIds : WF_vars(TurnStep(t)) /\ WF_vars(CompactDone(t))
          /\ WF_vars(Tick) /\ WF_vars(CompletionCancelTurn) /\ WF_vars(Joined)

-----------------------------------------------------------------------------
(* Properties.                                                             *)

\* A task that has not given back what it holds.
Holding(t) == Running(t) /\ turn[t].pc # "fallback"

\* A chat is busy, and a request in flight, only while the task that holds it
\* runs and will still release it: begin_turn never refuses a chat no task
\* works for, however its turn was interrupted, cancelled, replaced or deleted.
BusyMeansRunning ==
    /\ \A c \in Chats :
        chat[c] \in TurnIds => Holding(chat[c]) /\ turn[chat[c]].of = c
    /\ \A r \in Entries :
        direct[r] # None => Holding(direct[r]) /\ turn[direct[r]].of = r

\* Every turn publishes a result before it ends, unless it was hard
\* cancelled, its request withdrawn, or the provider stops.
EveryTurnAnswers ==
    \A t \in TurnIds :
        turn[t].pc = "silent" =>
            turn[t].hard \/ turn[t].withdrawn \/ ShuttingDown

\* Chats, requests and the tasks that work for them agree, and each asker is
\* answered, in every order of deletion, cancellation, interrupt and end.
TurnsAccounted == TypeOK /\ BusyMeansRunning /\ EveryTurnAnswers

\* What a turn may send its asker.  The result of a request comes from the
\* turn that owns it: a turn whose request was withdrawn before it had looked
\* whose it is never sends one, to whoever uses the id by then.  A turn that
\* was hard cancelled sends nothing, unless it was at the send already.  And
\* nobody is answered twice, but by a web.cancel that meets the result on its
\* way.  What is left open is named: the look and the send are two steps, so a
\* withdrawal between them comes too late; and the error for refused output is
\* sent when the id has been given back, to its next user as well.
OnlyOwnerFinishes ==
    [][\A t \in TurnIds : turn'[t].result \notin {turn[t].result, "none"} =>
        /\ IsDirect(t) /\ turn'[t].result # "undelivered" =>
               direct[turn[t].of] = t \/ turn[t].late \/ ShuttingDown
        /\ turn[t].hard => turn[t].pc \in {"publish", "fallback"}
        /\ turn[t].result # "none" => turn[t].of \in Webs /\ turn'[t].late]_vars

\* An interrupted or cancelled turn ends, wherever it is and however often the
\* endpoint fails, and the dispatch loop outlives no shutdown: what still runs
\* in the end was never stopped.
StoppedTurnsEnd ==
    <>[](/\ \A t \in TurnIds : Running(t) =>
                ~turn[t].cancel /\ ~turn[t].hard /\ ~Finishing(t)
         /\ loop.at # "exit")

\* The gate holds back requests behind a probe that no turn is making.
OrphanedProbe == gate.probe /\ \A t \in TurnIds : ~turn[t].probe

\* The endpoint never stops failing transiently.
EndlessTrouble ==
    []<><<\E t \in TurnIds : OpenFailsTransiently(t) \/ StreamFailed(t)>>_vars

\* Every turn ends, and the recovery gate lets a waiting turn through, unless
\* the turn that made the probe was dropped without an outcome or the endpoint
\* fails transiently for ever, which recovery by default does not give up on:
\* no 401 and no unsupported option is retried for ever.
EveryTurnEnds ==
    (\A t \in TurnIds : []<>(~Running(t) \/ OrphanedProbe)) \/ EndlessTrouble

\* A turn ends once it is stopped, and by itself once the endpoint recovers.
TurnsEnd == StoppedTurnsEnd /\ EveryTurnEnds
=============================================================================
