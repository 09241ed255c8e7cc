----------------------------- MODULE OpenaiTurns -----------------------------
(***************************************************************************)
(* The turns of the OpenAI provider (plugins/openai-provider/src/main.rs,  *)
(* state.rs, stream.rs, broker.rs, publisher.rs).  The dispatch loop edits *)
(* the chats and starts, interrupts and cancels turns; a task per turn     *)
(* runs the work and publishes what it says, and is cut off when its       *)
(* output is refused or abandoned.                                         *)
(*                                                                         *)
(* Unlike the ChatGPT provider, a chat in use is not replaced, a cancelled *)
(* completion keeps its id until its task ends, and a turn started by the  *)
(* older `prompt` event runs the tools the model asks for itself: it       *)
(* invokes them on the bus and waits for the answers at a ToolBroker, by   *)
(* call ids that the model chooses.                                        *)
(*                                                                         *)
(* A step is what a task does between two awaits.  An acknowledged send is *)
(* one step: the work waits for it behind what is queued.                  *)
(***************************************************************************)
EXTENDS Integers, Sequences, FiniteSets, SequencesExt

CONSTANTS
    Chats, Default,    \* chat ids; the chat of the `prompt` event
    Requests,          \* request ids of direct completions
    Ids, CallerIds,    \* tool call ids; those that chat.append messages use
    None,              \* no chat, no turn
    Vacant,            \* the slot of a chat that has no turn in flight
    QueueCap,          \* CHANNEL_CAP: messages an invocation may have queued
    MaxAttempts, MaxRounds,  \* retry_policy
    MaxIterations,     \* TOOL_LOOP_MAX_ITERATIONS
    Batches,           \* the tool calls of one response: sequences of ids
    MaxTurns           \* bound: turns started

ASSUME BoundsAssumption ==
    /\ Default \in Chats /\ CallerIds \subseteq Ids
    /\ {QueueCap, MaxAttempts, MaxRounds, MaxIterations, MaxTurns}
            \subseteq Nat \ {0}
    /\ Batches \subseteq Seq(Ids) \ {<<>>}

\* Chats and completions are kept in maps of their own, and the two marks are
\* no turn and no owner.
ASSUME NamesAssumption ==
    /\ Chats \cap Requests = {} /\ None \notin Chats \cup Requests
    /\ None \notin 1..MaxTurns /\ Vacant \notin 1..MaxTurns /\ None # Vacant

VARIABLES
    chat,       \* Chats::inner
    runs,       \* CompletionRuns::inner, by the turn that owns the entry
    turn,       \* the turn tasks, used in order
    broker,     \* ToolBroker::pending: whose waiter is registered for an id
    noTools,    \* who knows that the model takes no tools: the chats, the runs
    loop        \* the dispatch loop: "dispatch", "exit", "joined"

vars == <<chat, runs, turn, broker, noTools, loop>>

TurnIds == 1..MaxTurns

(* A turn.  pc and whose it is, and whether a `prompt` started it; its token: *)
(* cancel, and suppress with abandoned; queued deltas; the retry loop of one  *)
(* request: attempt, round, whether the round saw a 429, whether the attempt  *)
(* has shown anything; the tool loop: iteration, calls of this response not   *)
(* yet answered, the reply received ("closed": the waiter was thrown away).   *)
(* As history: what it is about to say or has said, and whether its output    *)
(* was refused.                                                               *)
Idle == [pc |-> "unused", of |-> None, legacy |-> FALSE, cancel |-> FALSE,
         suppress |-> FALSE, queued |-> 0, attempt |-> 1, round |-> 1,
         limited |-> FALSE, shown |-> FALSE, iteration |-> 1, calls |-> <<>>,
         reply |-> "none", finish |-> "none", terminal |-> "none",
         failed |-> FALSE]

\* A chat: its turn slot, whether it is an untouched restored one, the tool
\* calls in its history that have no result, and as history those among them
\* that no turn is going to answer: the caller's, and those of a turn cut off.
Fresh == [slot |-> Vacant, restored |-> FALSE, open |-> {}, left |-> {}]

NoChat == [Fresh EXCEPT !.slot = None]

Pcs == {"unused", "request", "stream", "backoff", "tool", "invoke", "await",
        "report", "conclude", "closing", "terminal", "release", "ended"}

Finishes == {"none", "result", "interrupted", "error"}

TypeOK ==
    /\ chat \in [Chats -> [slot : TurnIds \cup {None, Vacant}, restored : BOOLEAN,
                           open : SUBSET Ids, left : SUBSET Ids]]
    /\ \A c \in Chats : chat[c].left \subseteq chat[c].open
    /\ runs \in [Requests -> TurnIds \cup {None}]
    /\ turn \in [TurnIds ->
            [pc : Pcs, of : Chats \cup Requests \cup {None}, legacy : BOOLEAN,
             cancel : BOOLEAN, suppress : BOOLEAN, queued : 0..QueueCap,
             attempt : 1..MaxAttempts, round : 1..MaxRounds, limited : BOOLEAN,
             shown : BOOLEAN, iteration : 1..MaxIterations,
             calls : Seq(Ids), reply : {"none", "result", "closed"},
             finish : Finishes, terminal : Finishes \cup {"admission"},
             failed : BOOLEAN]]
    /\ broker \in [Ids -> TurnIds \cup {None}]
    /\ noTools \subseteq {"chats", "runs"}
    /\ loop \in {"dispatch", "exit", "joined"}

Init ==
    /\ chat = [c \in Chats |-> NoChat]
    /\ runs = [r \in Requests |-> None]
    /\ turn = [t \in TurnIds |-> Idle]
    /\ broker = [i \in Ids |-> None]
    /\ noTools = {}
    /\ loop = "dispatch"

Dispatching == loop = "dispatch"

Running(t) == turn[t].pc \notin {"unused", "ended"}

IsDirect(t) == turn[t].of \in Requests

Side(t) == IF IsDirect(t) THEN "runs" ELSE "chats"

\* The turn the next token is for; tokens are compared by identity.
IsNext(t) == turn[t].pc = "unused" /\ \A u \in 1..t-1 : turn[u].pc # "unused"

-----------------------------------------------------------------------------
(* The dispatch loop.                                                      *)

\* Chats::create: an id in use is refused, unless nothing touched it since it
\* was restored.
ChatCreate(c) ==
    /\ Dispatching
    /\ chat[c].slot = None \/ chat[c].restored
    /\ chat' = [chat EXCEPT ![c] = Fresh]
    /\ UNCHANGED <<runs, turn, broker, noTools, loop>>

\* Chats::restore, with a repaired history: refused while a turn is in flight.
ChatRestore(c) ==
    /\ Dispatching
    /\ chat[c].slot \in {None, Vacant}
    /\ chat' = [chat EXCEPT ![c] = [Fresh EXCEPT !.restored = TRUE]]
    /\ UNCHANGED <<runs, turn, broker, noTools, loop>>

\* Chats::append_for_model: what a message does to a chat.  A result without
\* an open call is dropped, before the chat counts as touched.
Asked(ch, ids) == [ch EXCEPT !.open = @ \cup ids, !.restored = FALSE]

Answered(ch, ids) ==
    [ch EXCEPT !.open = @ \ ids, !.left = @ \ ids,
               !.restored = @ /\ ids \cap ch.open = {}]

\* chat.append of a message, perhaps with tool calls, or of a tool result.
ChatAppend(c) ==
    /\ Dispatching /\ chat[c].slot # None
    /\ \/ \E ids \in SUBSET CallerIds :
            chat' = [chat EXCEPT ![c] = [Asked(chat[c], ids) EXCEPT !.left = @ \cup ids]]
       \/ \E i \in Ids : chat' = [chat EXCEPT ![c] = Answered(@, {i})]
    /\ UNCHANGED <<runs, turn, broker, noTools, loop>>

Started(t, owner, legacy) ==
    [turn EXCEPT ![t] = [Idle EXCEPT !.pc = "request", !.of = owner, !.legacy = legacy]]

\* Chats::begin_turn; a chat with a turn in flight is "busy".
BeginTurn(ch, t) == [ch EXCEPT !.slot = t, !.restored = FALSE]

ChatComplete(c, t) ==
    /\ Dispatching /\ IsNext(t)
    /\ chat[c].slot = Vacant
    /\ chat' = [chat EXCEPT ![c] = BeginTurn(@, t)]
    /\ turn' = Started(t, c, FALSE)
    /\ UNCHANGED <<runs, broker, noTools, loop>>

\* `prompt`: the default chat is made if need be and takes the message even
\* when it is busy.
Prompt(t) ==
    LET c  == Default
        ch == Asked(IF chat[c].slot = None THEN Fresh ELSE chat[c], {})
    IN  /\ Dispatching /\ IsNext(t)
        /\ \/ /\ ch.slot = Vacant
              /\ chat' = [chat EXCEPT ![c] = BeginTurn(ch, t)]
              /\ turn' = Started(t, c, TRUE)
           \/ /\ ch.slot # Vacant
              /\ chat' = [chat EXCEPT ![c] = ch]
              /\ UNCHANGED turn
        /\ UNCHANGED <<runs, broker, noTools, loop>>

\* The tokens of the turns in flight on these chats: Chats::interrupt.  A turn
\* that concludes no longer looks at it.
Heeds(t) == turn[t].pc \in {"request", "stream", "backoff", "tool", "invoke",
                            "await", "report"}

Interrupted(cs) ==
    [t \in TurnIds |->
        IF Heeds(t) /\ \E c \in cs : chat[c].slot = t
        THEN [turn[t] EXCEPT !.cancel = TRUE] ELSE turn[t]]

ChatDelete(c) ==
    /\ Dispatching /\ chat[c].slot # None
    /\ turn' = Interrupted({c})
    /\ chat' = [chat EXCEPT ![c] = NoChat]
    /\ UNCHANGED <<runs, broker, noTools, loop>>

\* `interrupt`, of one chat or of all.
Interrupt(cs) ==
    /\ Dispatching
    /\ turn' = Interrupted(cs)
    /\ UNCHANGED <<chat, runs, broker, noTools, loop>>

Suppressed(t) ==
    [turn EXCEPT ![t].suppress = TRUE, ![t].cancel = @ \/ Heeds(t)]

\* Chats::cancel_turn: the result is suppressed and the output abandoned.
ChatCancel(c) ==
    /\ Dispatching /\ chat[c].slot \in TurnIds
    /\ turn' = Suppressed(chat[c].slot)
    /\ UNCHANGED <<chat, runs, broker, noTools, loop>>

\* reset: every history is cleared; the turns in flight go on.
Reset ==
    /\ Dispatching
    /\ chat' = [c \in Chats |-> [chat[c] EXCEPT !.open = {}, !.left = {}]]
    /\ UNCHANGED <<runs, turn, broker, noTools, loop>>

\* CompletionRuns::begin: an id in flight is refused.
CompletionRequest(r, t) ==
    /\ Dispatching /\ IsNext(t)
    /\ runs[r] = None
    /\ runs' = [runs EXCEPT ![r] = t]
    /\ turn' = Started(t, r, FALSE)
    /\ UNCHANGED <<chat, broker, noTools, loop>>

\* CompletionRuns::cancel: one token is both the abort and the abandonment.
\* The entry stays until its task ends.
CompletionCancel(r) ==
    /\ Dispatching /\ runs[r] # None
    /\ turn' = Suppressed(runs[r])
    /\ UNCHANGED <<chat, runs, broker, noTools, loop>>

\* tool.result: ToolBroker::deliver hands it to the waiter registered for the
\* id, whoever that is now; without one it is dropped.
ToolResult(i) ==
    /\ Dispatching /\ broker[i] # None
    /\ broker' = [broker EXCEPT ![i] = None]
    /\ turn' = IF turn[broker[i]].pc \in {"invoke", "await"}
               THEN [turn EXCEPT ![broker[i]].reply = "result"]
               ELSE turn
    /\ UNCHANGED <<chat, runs, noTools, loop>>

\* A shutdown message, ctrl-c, the end of stdin or a closed writer end the
\* loop; Tasks::shutdown then stops every task.
Shutdown ==
    /\ Dispatching
    /\ loop' = "exit"
    /\ turn' = Interrupted(Chats)
    /\ UNCHANGED <<chat, runs, broker, noTools>>

Joined ==
    /\ loop = "exit" /\ \A t \in TurnIds : ~Running(t)
    /\ loop' = "joined"
    /\ UNCHANGED <<chat, runs, turn, broker, noTools>>

-----------------------------------------------------------------------------
(* The invocation's publisher.                                             *)

\* Publisher::run returns as soon as it is stopped or abandoned, and drops the
\* work where it is; then it publishes nothing more.
Cut(t) == ~Dispatching \/ turn[t].suppress

Working(t) == Running(t) /\ turn[t].pc \notin {"closing", "terminal", "release"}

\* The calls this turn has put into its chat and will no longer answer.
Abandoned(t) ==
    IF IsDirect(t) THEN chat
    ELSE [chat EXCEPT ![turn[t].of].left =
            @ \cup (Range(turn[t].calls) \cap chat[turn[t].of].open)]

\* What is left of a turn when its work is over.
Closing(t) == [Idle EXCEPT !.pc = "closing", !.of = turn[t].of,
                           !.suppress = turn[t].suppress]

Dropped(t, failed) ==
    [turn EXCEPT ![t] = [Closing(t) EXCEPT !.failed = failed]]

PublisherStops(t) ==
    /\ Working(t) /\ Cut(t)
    /\ turn' = Dropped(t, FALSE)
    /\ chat' = Abandoned(t)
    /\ UNCHANGED <<runs, broker, noTools, loop>>

\* One queued delta reaches the wire.
Drain(t) ==
    /\ Working(t) /\ ~Cut(t) /\ turn[t].queued > 0
    /\ turn' = [turn EXCEPT ![t].queued = @ - 1]
    /\ UNCHANGED <<chat, runs, broker, noTools, loop>>

\* Publisher::send may go out: the queue before it is empty.
MaySend(t) == ~Cut(t) /\ turn[t].queued = 0

\* checked_send refuses a message, a queued one or the next: too large for a
\* frame.  The work never sees it and is dropped.
OutputRefused(t) ==
    /\ Working(t) /\ ~Cut(t)
    /\ turn[t].queued > 0 \/ turn[t].pc \in {"tool", "invoke", "report", "conclude"}
    /\ turn' = Dropped(t, TRUE)
    /\ chat' = Abandoned(t)
    /\ UNCHANGED <<runs, broker, noTools, loop>>

-----------------------------------------------------------------------------
(* The work of a turn: requests.                                           *)

Concluding(t, finish) ==
    [turn EXCEPT ![t] = [Idle EXCEPT !.pc = "conclude", !.of = turn[t].of,
                !.suppress = turn[t].suppress, !.queued = turn[t].queued,
                !.finish = finish]]

\* A snapshot of the history is sent; without a chat there is nothing to send.
Request(t) ==
    /\ turn[t].pc = "request"
    /\ turn' = IF ~IsDirect(t) /\ chat[turn[t].of].slot = None
               THEN Concluding(t, "error")
               ELSE [turn EXCEPT ![t].pc = "stream"]
    /\ UNCHANGED <<chat, runs, broker, noTools, loop>>

Streaming(t) == turn[t].pc = "stream" /\ ~turn[t].cancel

\* A delta, of text or reasoning: Publisher::try_send.
\* Without room in the queue the invocation fails.
Delta(t) ==
    /\ Streaming(t)
    /\ turn' = IF turn[t].queued < QueueCap
               THEN [turn EXCEPT ![t].queued = @ + 1, ![t].shown = TRUE]
               ELSE Dropped(t, TRUE)
    /\ UNCHANGED <<chat, runs, broker, noTools, loop>>

\* The token ends the request at every await of the retry loop.
StreamInterrupted(t) ==
    /\ turn[t].pc \in {"stream", "backoff"} /\ turn[t].cancel
    /\ turn' = Concluding(t, "interrupted")
    /\ UNCHANGED <<chat, runs, broker, noTools, loop>>

\* A transport failure, a 429 or a 5xx, before anything was shown: a notice and
\* another attempt, and after the last another round only if one was a 429.
Transient(t, is429) ==
    LET w         == turn[t]
        limited   == w.limited \/ is429
        exhausted == w.attempt = MaxAttempts
    IN  /\ Streaming(t) /\ ~w.shown
        /\ turn' =
            IF exhausted /\ (~limited \/ w.round = MaxRounds)
            THEN Concluding(t, "error")
            ELSE IF w.queued = QueueCap THEN Dropped(t, TRUE)
            ELSE [turn EXCEPT ![t].pc = "backoff", ![t].queued = @ + 1,
                    ![t].attempt = IF exhausted THEN 1 ELSE @ + 1,
                    ![t].round = IF exhausted THEN @ + 1 ELSE @,
                    ![t].limited = ~exhausted /\ limited]
        /\ UNCHANGED <<chat, runs, broker, noTools, loop>>

Backoff(t) ==
    /\ turn[t].pc = "backoff" /\ ~turn[t].cancel
    /\ turn' = [turn EXCEPT ![t].pc = "stream"]
    /\ UNCHANGED <<chat, runs, broker, noTools, loop>>

\* Any other failure: a refusal, a 401, a malformed or broken stream.
StreamFails(t) ==
    /\ Streaming(t)
    /\ turn' = Concluding(t, "error")
    /\ UNCHANGED <<chat, runs, broker, noTools, loop>>

\* A turn whose request is over: the next one counts its attempts anew.
Responded(t) == [turn[t] EXCEPT !.attempt = 1, !.round = 1, !.limited = FALSE,
                                !.shown = FALSE]

\* The model takes no tools: remembered, and asked again without.
ToolsUnsupported(t) ==
    /\ Streaming(t) /\ ~turn[t].shown /\ Side(t) \notin noTools
    /\ noTools' = noTools \cup {Side(t)}
    /\ turn' = [turn EXCEPT ![t] = [Responded(t) EXCEPT !.pc = "request"]]
    /\ UNCHANGED <<chat, runs, broker, loop>>

\* A complete response without tool calls.
StreamCompletes(t) ==
    /\ Streaming(t)
    /\ turn' = Concluding(t, "result")
    /\ UNCHANGED <<chat, runs, broker, noTools, loop>>

\* A complete response with tool calls joins the history, whether or not it was
\* offered tools.  They are handed to the caller, except in a `prompt` turn,
\* which runs them itself.
StreamCompletesWithCalls(t, calls) ==
    LET c == turn[t].of
    IN  /\ Streaming(t)
        /\ IF turn[t].legacy
           THEN turn' = [turn EXCEPT ![t] =
                            [Responded(t) EXCEPT !.pc = "tool", !.calls = calls]]
           ELSE turn' = Concluding(t, "result")
        /\ chat' = IF IsDirect(t) \/ chat[c].slot = None THEN chat
                   ELSE [chat EXCEPT ![c] =
                            [Asked(chat[c], Range(calls)) EXCEPT
                                !.left = IF turn[t].legacy THEN @ \ Range(calls)
                                         ELSE @ \cup Range(calls)]]
        /\ UNCHANGED <<runs, broker, noTools, loop>>

-----------------------------------------------------------------------------
(* The work of a `prompt` turn: tools.                                     *)

\* ToolBroker::register and cancel: what becomes of the waiter that was
\* registered for the id.
Displaced(i) ==
    IF broker[i] # None /\ turn[broker[i]].pc \in {"invoke", "await"}
    THEN [turn EXCEPT ![broker[i]].reply = "closed"]
    ELSE turn

\* chat.tool.start is out, and the waiter is registered before the invocation.
RunTool(t) ==
    LET i == Head(turn[t].calls)
    IN  /\ turn[t].pc = "tool" /\ MaySend(t)
        /\ broker' = [broker EXCEPT ![i] = t]
        /\ turn' = [Displaced(i) EXCEPT ![t].pc = "invoke", ![t].reply = "none"]
        /\ UNCHANGED <<chat, runs, noTools, loop>>

\* Arguments that do not parse, or a tool nobody registered: answered here.
BadCall(t) ==
    /\ turn[t].pc = "tool" /\ MaySend(t)
    /\ turn' = [turn EXCEPT ![t].pc = "report"]
    /\ UNCHANGED <<chat, runs, broker, noTools, loop>>

Invoke(t) ==
    /\ turn[t].pc = "invoke" /\ MaySend(t)
    /\ turn' = [turn EXCEPT ![t].pc = "await"]
    /\ UNCHANGED <<chat, runs, broker, noTools, loop>>

\* Bug: only the call that was cancelled gets a stand-in.
ToolInterruptedAlone(t) ==
    LET i == Head(turn[t].calls)
    IN  /\ turn[t].pc = "await" /\ turn[t].cancel
        /\ broker' = [broker EXCEPT ![i] = None]
        /\ chat' = [chat EXCEPT ![turn[t].of] = Answered(@, {i})]
        /\ turn' = [Displaced(i) EXCEPT ![t] = Concluding(t, "interrupted")[t]]
        /\ UNCHANGED <<runs, noTools, loop>>

\* Cancelled while waiting: the call and those not started get a stand-in.
ToolInterrupted(t) ==
    LET i == Head(turn[t].calls)
        c == turn[t].of
    IN  /\ turn[t].pc = "await" /\ turn[t].cancel
        /\ broker' = [broker EXCEPT ![i] = None]
        /\ chat' = [chat EXCEPT ![c] = Answered(@, Range(turn[t].calls))]
        /\ turn' = [Displaced(i) EXCEPT ![t] = Concluding(t, "interrupted")[t]]
        /\ UNCHANGED <<runs, noTools, loop>>

ToolReplied(t) ==
    /\ turn[t].pc = "await" /\ ~turn[t].cancel /\ turn[t].reply # "none"
    /\ turn' = [turn EXCEPT ![t].pc = "report", ![t].reply = "none"]
    /\ UNCHANGED <<chat, runs, broker, noTools, loop>>

\* TOOL_RESULT_TIMEOUT
ToolTimesOut(t) ==
    LET i == Head(turn[t].calls)
    IN  /\ turn[t].pc = "await" /\ ~turn[t].cancel /\ turn[t].reply = "none"
        /\ broker' = [broker EXCEPT ![i] = None]
        /\ turn' = [Displaced(i) EXCEPT ![t].pc = "report", ![t].reply = "none"]
        /\ UNCHANGED <<chat, runs, noTools, loop>>

\* Bug: the tool loop is not counted.
ReportUncounted(t) ==
    LET rest == Tail(turn[t].calls)
    IN  /\ turn[t].pc = "report" /\ MaySend(t)
        /\ chat' = [chat EXCEPT ![turn[t].of] = Answered(@, {Head(turn[t].calls)})]
        /\ turn' = [turn EXCEPT ![t].calls = rest,
                        ![t].pc = IF rest # <<>> THEN "tool" ELSE "request"]
        /\ UNCHANGED <<runs, broker, noTools, loop>>

\* chat.tool.end is out and the result joins the history; then the next call,
\* or the next request, unless the loop has run too often.
Report(t) ==
    LET i    == Head(turn[t].calls)
        rest == Tail(turn[t].calls)
    IN  /\ turn[t].pc = "report" /\ MaySend(t)
        /\ chat' = [chat EXCEPT ![turn[t].of] = Answered(@, {i})]
        /\ turn' =
            IF rest # <<>> THEN [turn EXCEPT ![t].pc = "tool", ![t].calls = rest]
            ELSE IF turn[t].iteration >= MaxIterations THEN Concluding(t, "error")
            ELSE [turn EXCEPT ![t].pc = "request", ![t].calls = <<>>,
                    ![t].iteration = @ + 1]
        /\ UNCHANGED <<runs, broker, noTools, loop>>

-----------------------------------------------------------------------------
(* The end of a turn.                                                      *)

\* The last message of the work: stream.end, and the result or the error.
Conclude(t) ==
    /\ turn[t].pc = "conclude" /\ MaySend(t)
    /\ turn' = [turn EXCEPT ![t] = [Closing(t) EXCEPT !.terminal = turn[t].finish]]
    /\ UNCHANGED <<chat, runs, broker, noTools, loop>>

\* Bug: only the tool loop itself ever removes its waiters.
ReapNothing(t) ==
    /\ turn[t].pc = "closing"
    /\ turn' = [turn EXCEPT ![t].pc = "terminal"]
    /\ UNCHANGED <<chat, runs, broker, noTools, loop>>

\* After the publisher: waiters that nobody listens to leave the broker.
ReapAbandoned(t) ==
    /\ turn[t].pc = "closing"
    /\ turn' = [turn EXCEPT ![t].pc = "terminal"]
    /\ broker' = IF IsDirect(t) THEN broker
                 ELSE [i \in Ids |->
                    IF broker[i] # None /\ turn[broker[i]].pc \in {"invoke", "await"}
                    THEN broker[i] ELSE None]
    /\ UNCHANGED <<chat, runs, noTools, loop>>

\* Bug: the slot is freed whoever owns it.
ReleasedUnowned(t) ==
    /\ chat' = [c \in Chats |->
                    IF turn[t].of = c /\ chat[c].slot # None
                    THEN [chat[c] EXCEPT !.slot = Vacant] ELSE chat[c]]
    /\ runs' = [r \in Requests |-> IF runs[r] = t THEN None ELSE runs[r]]

\* Chats::finish_turn and CompletionRuns::finish free only what this turn owns.
Released(t) ==
    /\ chat' = [c \in Chats |->
                    IF chat[c].slot = t THEN [chat[c] EXCEPT !.slot = Vacant] ELSE chat[c]]
    /\ runs' = [r \in Requests |-> IF runs[r] = t THEN None ELSE runs[r]]

\* Bug: the error is sent for a suppressed turn too.
TerminalUnsuppressed(t) ==
    /\ turn[t].pc = "terminal"
    /\ turn' = [turn EXCEPT ![t].pc = "release",
                    ![t].terminal = IF turn[t].failed THEN "admission" ELSE @]
    /\ UNCHANGED <<chat, runs, broker, noTools, loop>>

\* publisher::terminal: output that was refused is replaced by a short error.
Terminal(t) ==
    /\ turn[t].pc = "terminal"
    /\ turn' = [turn EXCEPT ![t].pc = "release",
                    ![t].terminal = IF turn[t].failed /\ ~Cut(t) THEN "admission" ELSE @]
    /\ UNCHANGED <<chat, runs, broker, noTools, loop>>

FinishTurn(t) ==
    /\ turn[t].pc = "release"
    /\ turn' = [turn EXCEPT ![t] = [Idle EXCEPT !.pc = "ended"]]
    /\ Released(t)
    /\ UNCHANGED <<broker, noTools, loop>>

-----------------------------------------------------------------------------
\* What a turn does whoever else acts; the rest waits for the endpoint.
TurnStep(t) ==
    \/ PublisherStops(t) \/ Drain(t) \/ Request(t) \/ StreamInterrupted(t)
    \/ Backoff(t) \/ RunTool(t) \/ BadCall(t) \/ Invoke(t)
    \/ ToolInterrupted(t) \/ ToolReplied(t) \/ ToolTimesOut(t) \/ Report(t)
    \/ Conclude(t) \/ ReapAbandoned(t) \/ Terminal(t) \/ FinishTurn(t)

Endpoint(t) ==
    \/ Delta(t) \/ StreamCompletes(t) \/ StreamFails(t) \/ ToolsUnsupported(t)
    \/ \E is429 \in BOOLEAN : Transient(t, is429)
    \/ \E calls \in Batches : StreamCompletesWithCalls(t, calls)

Dispatch ==
    \/ \E c \in Chats : \/ ChatCreate(c) \/ ChatRestore(c) \/ ChatAppend(c)
                        \/ ChatDelete(c) \/ ChatCancel(c) \/ Interrupt({c})
                        \/ \E t \in TurnIds : ChatComplete(c, t)
    \/ \E t \in TurnIds : Prompt(t)
    \/ Interrupt(Chats) \/ Reset
    \/ \E r \in Requests : CompletionCancel(r)
                        \/ \E t \in TurnIds : CompletionRequest(r, t)
    \/ \E i \in Ids : ToolResult(i)
    \/ Shutdown

Next ==
    \/ Dispatch \/ Joined
    \/ \E t \in TurnIds : TurnStep(t) \/ Endpoint(t) \/ OutputRefused(t)

Spec ==
    /\ Init /\ [][Next]_vars
    /\ \A t \in TurnIds : WF_vars(TurnStep(t))
    /\ WF_vars(Joined)

-----------------------------------------------------------------------------
(* Properties.                                                             *)

\* A chat or a completion is busy with a turn as long as that turn's task runs:
\* nobody is refused as busy for a turn that is over, a cancelled completion
\* keeps its id until its task has ended, and the end of an interrupted turn
\* of a deleted chat does not free the slot of the turn that came after it.
BusyMeansRunning ==
    /\ \A c \in Chats : chat[c].slot \in TurnIds =>
            Running(chat[c].slot) /\ turn[chat[c].slot].of = c
    /\ \A r \in Requests : runs[r] # None => Running(runs[r]) /\ turn[runs[r]].of = r
    /\ \A t \in TurnIds :
            /\ Running(t) /\ IsDirect(t) => runs[turn[t].of] = t
            /\ Heeds(t) /\ ~IsDirect(t) /\ ~turn[t].cancel => chat[turn[t].of].slot = t

\* A turn that is over has said how: with a result, an error or, when its
\* output was refused, the short admission error and never a success; only a
\* suppressed turn or one stopped by shutdown ends without a word.
EveryTurnAnswers ==
    \A t \in TurnIds : turn[t].pc = "release" =>
        /\ turn[t].terminal = "none" => turn[t].suppress \/ ~Dispatching
        /\ turn[t].failed => turn[t].terminal \in {"none", "admission"}

\* Chats, completion ids and the tasks that work for them agree, and each
\* asker is answered, in every order of deletion, cancellation and end.
TurnsAccounted == TypeOK /\ BusyMeansRunning /\ EveryTurnAnswers

\* A turn that waits for a tool is registered at the broker unless its reply
\* is there: no answer of a tool can be lost on a turn that then times out.
WaitersRegistered ==
    \A t \in TurnIds :
        turn[t].pc \in {"invoke", "await"} /\ turn[t].reply = "none"
            => broker[Head(turn[t].calls)] = t

\* The broker holds a waiter only for the call its turn waits for, or until
\* the task of a turn that was cut off has cleaned up behind it.
NoWaiterLeaks ==
    \A i \in Ids : broker[i] # None =>
        LET w == turn[broker[i]]
        IN  \/ w.pc \in {"invoke", "await"} /\ Head(w.calls) = i
            \/ w.pc = "closing"

\* The broker's waiters are the waits of the running turns.
WaitersMatch == WaitersRegistered /\ NoWaiterLeaks

\* A tool call in a history without a result is one that a running turn is
\* going to answer, one left to the caller, or one of a turn that was cut
\* off: an interrupt answers for all the calls it prevents.
CallsAreAnswered ==
    \A c \in Chats : \A i \in chat[c].open \ chat[c].left :
        \E t \in TurnIds : turn[t].of = c /\ i \in Range(turn[t].calls)

\* A suppressed turn says nothing any more, not even that its output was refused.
SuppressedStaysSilent ==
    [][\A t \in TurnIds : turn[t].suppress =>
            turn'[t].terminal \in {turn[t].terminal, "none"}]_vars

\* Retries, tool loops and waits for tools are bounded, and a turn that was
\* interrupted, cancelled or stopped ends: what remains in the end is a turn
\* nobody stopped, whose endpoint neither goes on nor closes the stream.
OnlyTheEndpointStalls ==
    <>[](\A t \in TurnIds :
            Running(t) => /\ turn[t].pc = "stream" /\ Dispatching
                          /\ ~turn[t].cancel /\ ~turn[t].suppress)

=============================================================================
