------------------------------- MODULE Broker -------------------------------
(***************************************************************************)
(* The life cycle of plugin connections in the engine's broker: attaching, *)
(* transport faults, process exits, local close deadlines, the shutdown    *)
(* window and the end of Broker::run.                                      *)
(*                                                                         *)
(* Broker::run is one task; its turn is split at the points where another  *)
(* thread can be observed: the drain of pending notices, the check of the  *)
(* local deadlines, the accounting of finished exits, the shutdown         *)
(* deadlines, the return checks and the select.  Reader tasks, writer      *)
(* tasks, exit watchers, plugin processes and the clock take their steps   *)
(* in between.  Lua is the composition: whenever the broker enters it, it  *)
(* may request shutdown or start a runtime process.                        *)
(*                                                                         *)
(* Line contents, envelope formats and event-log routing are left out (the *)
(* log and its dispatch are in NcpBus, the write queue in                  *)
(* ConnectionWriter); a line is its position in its connection's stdout.   *)
(***************************************************************************)
EXTENDS Integers, Sequences, FiniteSets, SequencesExt

CONSTANTS
    Conns,              \* connections, one per plugin name
    Watched,            \* those with a process behind them; others are in-memory
    Codes,              \* exit codes a shutdown request may carry
    Graces,             \* grace windows a shutdown request may carry, in ticks
    CloseGrace,         \* the local close grace (2000 ms), in ticks
    ForcedGrace,        \* the wait after forced termination (2 s), in ticks
    MaxLines,           \* bound: lines read from one connection
    MaxInterrupts,      \* bound: external interrupts
    MaxRuntime          \* bound: runtime processes started by Lua

ASSUME WatchedAssumption == Watched \subseteq Conns
ASSUME GraceAssumption == /\ Graces \subseteq Nat
                          /\ CloseGrace \in Nat /\ ForcedGrace \in Nat
ASSUME BoundAssumption == /\ MaxLines \in Nat /\ MaxInterrupts \in Nat
                          /\ MaxRuntime \in Nat

VARIABLES
    (* Environment: processes, I/O tasks and their channels. *)
    proc,               \* "up", "down" or "none" (no process)
    reader, writer,     \* "run", "aborting" or "done" per connection
    lines,              \* lines the reader has taken from stdout so far
    inbound,            \* inbound_rx: lines and Closed notices
    notices,            \* writer_rx: connections whose writer failed
    exits,              \* exit_rx: connections whose watcher has reported
    interrupts,         \* external interrupts: waiting and already taken
    runtime,            \* runtime processes: running, ever started
    (* The broker's records and routing map. *)
    live,               \* conns_by_id
    closing, failed,    \* record.closing, record.transport_failure
    pendingExit,        \* record.pending_exit
    timer,              \* ticks to record.close_deadline, or NoTimer
    killed,             \* record.terminate was taken and sent
    routing,            \* shared.conns
    spawnFailed,        \* process facts queued before the loop starts
    facts,              \* per connection, the facts given to Lua, in order
    (* Shutdown. *)
    fired, code,        \* the latch and exit-code slot of ShutdownRequestSink
    shutdownQ,          \* shutdown_rx
    grace,              \* shutdown_grace, or NoTimer
    shutTimer,          \* ticks to shutdown_deadline, or NoTimer
    forcedTimer,        \* ticks to forced_exit_deadline, or NoTimer
    pc, stop,           \* point of the turn; BrokerStopReason or "running"
    (* History. *)
    heard, dropped,     \* lines given to Lua, lines discarded
    closedBy            \* what began the closing of each connection

envVars == <<proc, reader, writer, lines, inbound, notices, exits, interrupts>>
recVars == <<live, closing, failed, pendingExit, timer, killed, routing>>
askVars == <<fired, code, shutdownQ, runtime>>
winVars == <<grace, shutTimer, forcedTimer, stop>>
histVars == <<heard, dropped, closedBy>>
vars == <<envVars, recVars, spawnFailed, facts, askVars, winVars, pc, histVars>>

NoTimer == -1
TaskState == {"run", "aborting", "done"}
Stages == {"cli", "pre", "preNotices", "observe", "account", "drain", "deadline",
           "check", "select", "ended"}
ProcessFacts == {"exited", "unknown", "spawn_failure"}
Causes == {"open", "eof", "exit", "fault", "shutdown"}

Item(c, what, n) == [conn |-> c, what |-> what, n |-> n]
Request == [code : Codes, grace : Graces]

EnvTypeOK ==
    /\ proc \in [Conns -> {"up", "down", "none"}]
    /\ reader \in [Conns -> TaskState] /\ writer \in [Conns -> TaskState]
    /\ lines \in [Conns -> 0..MaxLines]
    /\ inbound \in Seq([conn : Conns, what : {"line", "eof", "fault"},
                        n : 0..MaxLines])
    /\ notices \subseteq Conns /\ exits \subseteq Conns
    /\ interrupts \in [waiting : 0..MaxInterrupts, taken : 0..MaxInterrupts]

RecTypeOK ==
    /\ live \subseteq Conns /\ closing \subseteq Conns /\ failed \subseteq Conns
    /\ pendingExit \subseteq Conns /\ killed \subseteq Conns /\ routing \subseteq Conns
    /\ timer \in [Conns -> {NoTimer} \cup 0..CloseGrace]
    /\ spawnFailed \subseteq Conns
    /\ facts \in [Conns -> Seq({"transport_failed"} \cup ProcessFacts)]

AskTypeOK ==
    /\ fired \in BOOLEAN /\ code \in {0} \cup Codes
    /\ shutdownQ \in Seq(Request)
    /\ runtime \in [running : 0..MaxRuntime, started : 0..MaxRuntime]

WinTypeOK ==
    /\ grace \in {NoTimer} \cup Graces
    /\ shutTimer \in Int /\ forcedTimer \in {NoTimer} \cup 0..ForcedGrace
    /\ pc \in Stages
    /\ stop \in {"running", "Shutdown", "AllPluginsGone"}

HistTypeOK ==
    /\ heard \subseteq Conns \X (1..MaxLines)
    /\ dropped \subseteq Conns \X (1..MaxLines)
    /\ closedBy \in [Conns -> Causes]

TypeOK == EnvTypeOK /\ RecTypeOK /\ AskTypeOK /\ WinTypeOK /\ HistTypeOK

(* spawn_specs and attach_transport: a plugin whose spawn fails never gets *)
(* a record, only a queued process fact.  With a CLI target the run starts *)
(* by calling its cli function.                                            *)
Init ==
    /\ spawnFailed \in SUBSET Watched
    /\ live = Conns \ spawnFailed
    /\ routing = live
    /\ proc = [c \in Conns |-> IF c \in live \cap Watched THEN "up" ELSE "none"]
    /\ reader = [c \in Conns |-> IF c \in live THEN "run" ELSE "done"]
    /\ writer = reader
    /\ lines = [c \in Conns |-> 0]
    /\ inbound = <<>> /\ notices = {} /\ exits = {}
    /\ interrupts = [waiting |-> 0, taken |-> 0]
    /\ runtime = [running |-> 0, started |-> 0]
    /\ closing = {} /\ failed = {} /\ pendingExit = {} /\ killed = {}
    /\ timer = [c \in Conns |-> NoTimer]
    /\ facts = [c \in Conns |-> <<>>]
    /\ fired = FALSE /\ code = 0 /\ shutdownQ = <<>>
    /\ grace = NoTimer /\ shutTimer = NoTimer /\ forcedTimer = NoTimer
    /\ pc \in {"cli", "pre"} /\ stop = "running"
    /\ heard = {} /\ dropped = {}
    /\ closedBy = [c \in Conns |-> "open"]

-----------------------------------------------------------------------------
(* Plugin processes, I/O tasks and the clock.  An aborted task runs on     *)
(* until its next await, so it may still send what it was about to send.   *)

ReaderLine(c) ==
    /\ reader[c] # "done" /\ lines[c] < MaxLines
    /\ lines' = [lines EXCEPT ![c] = @ + 1]
    /\ inbound' = Append(inbound, Item(c, "line", lines[c] + 1))
    /\ UNCHANGED <<proc, reader, writer, notices, exits, interrupts, recVars,
                   spawnFailed, facts, askVars, winVars, pc, histVars>>

(* The reader ends on EOF, or on an I/O, encoding or framing error. *)
ReaderEnd(c, reason) ==
    /\ reader[c] # "done"
    /\ reader' = [reader EXCEPT ![c] = "done"]
    /\ inbound' = Append(inbound, Item(c, reason, 0))
    /\ UNCHANGED <<proc, writer, lines, notices, exits, interrupts, recVars,
                   spawnFailed, facts, askVars, winVars, pc, histVars>>

(* A write or flush fails: the writer leaves its notice and returns. *)
WriterFault(c) ==
    /\ writer[c] # "done"
    /\ writer' = [writer EXCEPT ![c] = "done"]
    /\ notices' = notices \cup {c}
    /\ UNCHANGED <<proc, reader, lines, inbound, exits, interrupts, recVars,
                   spawnFailed, facts, askVars, winVars, pc, histVars>>

(* A writer whose sender is gone drains its queue and returns. *)
WriterDrained(c) ==
    /\ writer[c] = "run" /\ c \notin routing
    /\ writer' = [writer EXCEPT ![c] = "done"]
    /\ UNCHANGED <<proc, reader, lines, inbound, notices, exits, interrupts,
                   recVars, spawnFailed, facts, askVars, winVars, pc, histVars>>

(* The runtime drops an aborted task at its next await. *)
AbortTakesEffect(c) ==
    /\ \/ /\ reader[c] = "aborting" /\ reader' = [reader EXCEPT ![c] = "done"]
          /\ UNCHANGED writer
       \/ /\ writer[c] = "aborting" /\ writer' = [writer EXCEPT ![c] = "done"]
          /\ UNCHANGED reader
    /\ UNCHANGED <<proc, lines, inbound, notices, exits, interrupts, recVars,
                   spawnFailed, facts, askVars, winVars, pc, histVars>>

(* A plugin process ends, by itself or killed, and its watcher reports. *)
ProcessExit(c) ==
    /\ proc[c] = "up"
    /\ proc' = [proc EXCEPT ![c] = "down"]
    /\ exits' = exits \cup {c}
    /\ UNCHANGED <<reader, writer, lines, inbound, notices, interrupts, recVars,
                   spawnFailed, facts, askVars, winVars, pc, histVars>>

CtrlC ==
    /\ interrupts.waiting + interrupts.taken < MaxInterrupts
    /\ interrupts' = [interrupts EXCEPT !.waiting = @ + 1]
    /\ UNCHANGED <<proc, reader, writer, lines, inbound, notices, exits, recVars,
                   spawnFailed, facts, askVars, winVars, pc, histVars>>

RuntimeExit ==
    /\ runtime.running > 0
    /\ runtime' = [runtime EXCEPT !.running = @ - 1]
    /\ UNCHANGED <<envVars, recVars, spawnFailed, facts, fired, code, shutdownQ,
                   winVars, pc, histVars>>

CountDown(t) == IF t > 0 THEN t - 1 ELSE t

Tick ==
    /\ stop = "running"
    /\ \/ \E c \in Conns : timer[c] > 0
       \/ shutTimer > 0 \/ forcedTimer > 0
    /\ timer' = [c \in Conns |-> CountDown(timer[c])]
    /\ shutTimer' = CountDown(shutTimer)
    /\ forcedTimer' = CountDown(forcedTimer)
    /\ UNCHANGED <<envVars, live, closing, failed, pendingExit, killed, routing,
                   spawnFailed, facts, askVars, grace, stop, pc, histVars>>

Environment ==
    \/ \E c \in live : \/ ReaderLine(c)
                       \/ \E reason \in {"eof", "fault"} : ReaderEnd(c, reason)
                       \/ WriterFault(c) \/ WriterDrained(c)
                       \/ AbortTakesEffect(c) \/ ProcessExit(c)
    \/ CtrlC \/ RuntimeExit \/ Tick

-----------------------------------------------------------------------------
(* What Lua may do whenever the broker enters it. *)

(* ShutdownRequestSink::request: the first request takes the latch. *)
RequestShutdown(r) ==
    IF fired THEN UNCHANGED <<fired, code, shutdownQ>>
    ELSE /\ fired' = TRUE /\ code' = r.code
         /\ shutdownQ' = Append(shutdownQ, r)

LuaIdle == UNCHANGED askVars

StartRuntime ==
    /\ runtime.started < MaxRuntime
    /\ runtime' = [running |-> runtime.running + 1, started |-> runtime.started + 1]

LuaRuns ==
    /\ \/ UNCHANGED <<fired, code, shutdownQ>>
       \/ \E r \in Request : RequestShutdown(r)
    /\ StartRuntime \/ UNCHANGED runtime

(* run_with_cli_dispatch: the cli function runs.  If it fails or returns a *)
(* nonzero code without having requested shutdown, the broker requests it  *)
(* for it: as far as the latch can tell, one more request made from Lua.   *)
CliDispatch ==
    /\ pc = "cli" /\ pc' = "pre"
    /\ LuaRuns
    /\ UNCHANGED <<envVars, recVars, spawnFailed, facts, winVars, histVars>>

-----------------------------------------------------------------------------
(* Effects of the broker's helpers on a set of connections. *)

(* Defect: tasks are not aborted. *)
CancelNothing(task, S) == task

Cancel(task, S) ==
    [c \in Conns |-> IF c \in S /\ task[c] = "run" THEN "aborting" ELSE task[c]]

Report(S, fact) == [c \in Conns |-> IF c \in S THEN Append(facts[c], fact) ELSE facts[c]]

(* Defect: no local close deadline. *)
ArmNothing(S) == timer

Arm(S) == [c \in Conns |-> IF c \in S THEN CloseGrace ELSE timer[c]]

Blame(S, cause) ==
    [c \in Conns |-> IF c \in S /\ closedBy[c] = "open" THEN cause ELSE closedBy[c]]

(* Records without an exit watcher are dropped as soon as they are closed. *)
TransportOnly(S) == S \ Watched

(* Only the first fault of a live connection counts.  Defect: all do. *)
AnyFault(S) == S \cap live

FirstFault(S) == (S \cap live) \ failed

(* Defect: the routing entry stays. *)
ForceCloseStillRouted(S, cause) ==
    LET fresh == (S \cap live) \ closing
    IN  /\ closing' = closing \cup fresh
        /\ timer' = Arm(fresh)
        /\ routing' = routing
        /\ closedBy' = Blame(fresh, cause)

(* force_close: a connection not yet closing leaves the routing map, its   *)
(* writer is sent Close and its local deadline is armed.                   *)
ForceClose(S, cause) ==
    LET fresh == (S \cap live) \ closing
    IN  /\ closing' = closing \cup fresh
        /\ timer' = Arm(fresh)
        /\ routing' = routing \ fresh
        /\ closedBy' = Blame(fresh, cause)

(* transport_failed: the tasks are aborted, the connection is unrouted,    *)
(* and Lua learns of it at once.                                           *)
TransportFailed(S) ==
    LET fresh == FirstFault(S)
    IN  /\ failed' = failed \cup fresh
        /\ closing' = closing \cup fresh
        /\ timer' = Arm(fresh)
        /\ reader' = Cancel(reader, fresh) /\ writer' = Cancel(writer, fresh)
        /\ routing' = routing \ fresh
        /\ facts' = Report(fresh, "transport_failed")
        /\ closedBy' = Blame(fresh, "fault")
        /\ live' = live \ TransportOnly(fresh)
        /\ IF fresh = {} THEN LuaIdle ELSE LuaRuns

-----------------------------------------------------------------------------
(* One inbound tick: every message now in the channel.  Lines of           *)
(* connections already closing are discarded, the others reach Lua, and    *)
(* only then are the Closed notices handled.  One connection has at most   *)
(* one of these, so the notices commute.                                   *)

From(what) == {inbound[i].conn : i \in {j \in 1..Len(inbound) : inbound[j].what = what}}
LinesOf(S) ==
    {<<inbound[i].conn, inbound[i].n>> :
        i \in {j \in 1..Len(inbound) : inbound[j].what = "line" /\ inbound[j].conn \in S}}

HandleInboundTick ==
    LET eofs == (From("eof") \cap live) \ closing
        faults == FirstFault(From("fault"))
        gone == TransportOnly(From("eof") \cap live)
        given == LinesOf(live \ closing)
    IN  /\ inbound' = <<>>
        /\ heard' = heard \cup given
        /\ dropped' = dropped \cup (LinesOf(Conns) \ given)
        /\ failed' = failed \cup faults
        /\ closing' = closing \cup eofs \cup faults
        /\ timer' = Arm(eofs \cup faults)
        /\ routing' = routing \ (eofs \cup faults)
        /\ reader' = Cancel(reader, faults \cup gone)
        /\ writer' = Cancel(writer, faults \cup gone)
        /\ facts' = Report(faults, "transport_failed")
        /\ closedBy' = [c \in Conns |-> IF c \in faults THEN Blame(faults, "fault")[c]
                                        ELSE Blame(eofs, "eof")[c]]
        /\ live' = live \ (gone \cup TransportOnly(faults))
        /\ IF given = {} /\ faults = {} THEN LuaIdle ELSE LuaRuns
        /\ UNCHANGED <<proc, lines, notices, exits, interrupts, pendingExit, killed,
                       spawnFailed>>

(* Start of a turn: with an exit waiting to be accounted, notices already  *)
(* in the channels are handled first.                                      *)
PreInbound ==
    /\ pc = "pre"
    /\ IF live \cap pendingExit = {}
       THEN pc' = "observe" /\ UNCHANGED <<envVars, recVars, facts, askVars, histVars,
                                            spawnFailed>>
       ELSE pc' = "preNotices" /\ HandleInboundTick
    /\ UNCHANGED winVars

PreNotices ==
    /\ pc = "preNotices" /\ pc' = "observe"
    /\ notices' = {}
    /\ TransportFailed(notices)
    /\ UNCHANGED <<proc, lines, inbound, exits, interrupts, pendingExit, killed,
                   spawnFailed, winVars, heard, dropped>>

Due == {c \in live : timer[c] = 0}

(* observe_losses_and_local_deadlines: an expired local deadline aborts    *)
(* the tasks and asks for the termination of the process.                  *)
ObserveDeadlines ==
    LET due == Due
    IN  /\ pc = "observe" /\ pc' = "account"
        /\ timer' = [c \in Conns |-> IF c \in due THEN NoTimer ELSE timer[c]]
        /\ reader' = Cancel(reader, due) /\ writer' = Cancel(writer, due)
        /\ killed' = killed \cup (due \cap Watched)
        /\ live' = live \ TransportOnly(due)
        /\ UNCHANGED <<proc, lines, inbound, notices, exits, interrupts, closing,
                       failed, pendingExit, routing, spawnFailed, facts, askVars,
                       winVars, histVars>>

(* account_finished_exits and account_exit: once the exit is known and     *)
(* both I/O tasks are finished, the record goes and Lua gets its fact.     *)
AccountFinishedExits ==
    LET ready == {c \in live \cap pendingExit : reader[c] = "done" /\ writer[c] = "done"}
    IN  /\ pc = "account" /\ pc' = "drain"
        /\ live' = live \ ready
        /\ routing' = routing \ ready
        /\ facts' = Report(ready, "exited")
        /\ IF ready = {} THEN LuaIdle ELSE LuaRuns
        /\ UNCHANGED <<envVars, closing, failed, pendingExit, timer, killed,
                       spawnFailed, winVars, histVars>>

(* drain_engine_envelopes: the facts queued before the loop and the losses *)
(* just observed reach Lua.                                                *)
DrainEngineEnvelopes ==
    /\ pc = "drain" /\ pc' = "deadline"
    /\ spawnFailed' = {}
    /\ facts' = Report(spawnFailed, "spawn_failure")
    /\ LuaRuns
    /\ UNCHANGED <<envVars, recVars, winVars, histVars>>

(* The grace window has passed: one more wait begins, of fixed length. *)
(* Defect: that wait has no end.                                       *)
ForcedWaitForever == shutTimer' = NoTimer /\ UNCHANGED forcedTimer

ForcedWait == shutTimer' = NoTimer /\ forcedTimer' = ForcedGrace

(* force_terminate_all *)
ForceTerminateAll ==
    /\ pc = "deadline" /\ shutTimer = 0
    /\ killed' = killed \cup (live \cap Watched)
    /\ reader' = Cancel(reader, live) /\ writer' = Cancel(writer, live)
    /\ routing' = routing \ TransportOnly(live)
    /\ live' = live \ TransportOnly(live)
    /\ ForcedWait
    /\ pc' = "check"
    /\ UNCHANGED <<proc, lines, inbound, notices, exits, interrupts, closing, failed,
                   pendingExit, timer, spawnFailed, facts, askVars, grace, stop, histVars>>

(* account_unreaped_processes: what did not exit after forced termination  *)
(* is reported as unknown, and the run ends.                               *)
AccountUnreaped ==
    /\ pc = "deadline" /\ shutTimer # 0 /\ forcedTimer = 0
    /\ facts' = Report(live, "unknown")
    /\ routing' = routing \ live
    /\ live' = {}
    /\ IF live = {} THEN LuaIdle ELSE LuaRuns
    /\ stop' = "Shutdown" /\ pc' = "ended"
    /\ UNCHANGED <<envVars, closing, failed, pendingExit, timer, killed, spawnFailed,
                   grace, shutTimer, forcedTimer, histVars>>

NoDeadlineDue ==
    /\ pc = "deadline" /\ shutTimer # 0 /\ forcedTimer # 0
    /\ pc' = "check"
    /\ UNCHANGED <<envVars, recVars, spawnFailed, facts, askVars, winVars, histVars>>

(* Outside shutdown one deferred Lua task runs; then the return checks,    *)
(* which read nothing that task can change.                                *)
CheckReturn ==
    /\ pc = "check"
    /\ IF grace = NoTimer THEN LuaRuns ELSE LuaIdle
    /\ stop' = IF live # {} THEN "running"
               ELSE IF grace = NoTimer THEN "AllPluginsGone"
               ELSE IF runtime.running = 0 THEN "Shutdown" ELSE "running"
    /\ pc' = IF stop' = "running" THEN "select" ELSE "ended"
    /\ UNCHANGED <<envVars, recVars, spawnFailed, facts, grace, shutTimer,
                   forcedTimer, histVars>>

-----------------------------------------------------------------------------
(* The arms of the select. *)

SelectInbound ==
    /\ pc = "select" /\ inbound # <<>> /\ pc' = "pre"
    /\ HandleInboundTick
    /\ UNCHANGED winVars

SelectNotice(c) ==
    /\ pc = "select" /\ c \in notices /\ pc' = "pre"
    /\ notices' = notices \ {c}
    /\ TransportFailed({c})
    /\ UNCHANGED <<proc, lines, inbound, exits, interrupts, pendingExit, killed,
                   spawnFailed, winVars, heard, dropped>>

(* handle_exit *)
SelectExit(c) ==
    /\ pc = "select" /\ c \in exits /\ pc' = "pre"
    /\ exits' = exits \ {c}
    /\ pendingExit' = pendingExit \cup ({c} \cap live)
    /\ ForceClose({c}, "exit")
    /\ UNCHANGED <<proc, reader, writer, lines, inbound, notices, interrupts, live,
                   failed, killed, spawnFailed, facts, askVars, winVars, heard,
                   dropped>>

SelectInterrupt ==
    /\ pc = "select" /\ interrupts.waiting > 0 /\ grace = NoTimer /\ pc' = "pre"
    /\ interrupts' = [waiting |-> interrupts.waiting - 1, taken |-> interrupts.taken + 1]
    /\ LuaRuns
    /\ UNCHANGED <<proc, reader, writer, lines, inbound, notices, exits, recVars,
                   spawnFailed, facts, winVars, histVars>>

(* handle_runtime_callbacks: callbacks of runtime processes run in Lua. *)
SelectCallback ==
    /\ pc = "select" /\ runtime.started > 0 /\ grace = NoTimer /\ pc' = "pre"
    /\ LuaRuns
    /\ UNCHANGED <<envVars, recVars, spawnFailed, facts, winVars, histVars>>

(* begin_shutdown: the lifecycle subscribers run, what they publish is     *)
(* routed (module NcpBus; not seen here), the runtime processes are told   *)
(* to end, which a runtime process may do at any time in this model, and   *)
(* every connection is closed.                                             *)
BeginShutdown == ForceClose(live, "shutdown")

SelectShutdown ==
    /\ pc = "select" /\ shutdownQ # <<>> /\ grace = NoTimer /\ pc' = "pre"
    /\ grace' = Head(shutdownQ).grace
    /\ shutTimer' = Head(shutdownQ).grace
    /\ shutdownQ' = Tail(shutdownQ)
    /\ BeginShutdown
    /\ StartRuntime \/ UNCHANGED runtime
    /\ UNCHANGED <<envVars, live, failed, pendingExit, killed, spawnFailed, facts,
                   fired, code, forcedTimer, stop, heard, dropped>>

(* The sleep ends; its length is at most the nearest deadline. *)
SelectSleep ==
    /\ pc = "select" /\ pc' = "pre"
    /\ UNCHANGED <<envVars, recVars, spawnFailed, facts, askVars, winVars, histVars>>

Turn ==
    \/ CliDispatch \/ PreInbound \/ PreNotices \/ ObserveDeadlines
    \/ AccountFinishedExits \/ DrainEngineEnvelopes \/ ForceTerminateAll
    \/ AccountUnreaped \/ NoDeadlineDue \/ CheckReturn

Select ==
    \/ SelectInbound \/ SelectCallback \/ SelectInterrupt \/ SelectShutdown
    \/ SelectSleep
    \/ \E c \in Conns : SelectNotice(c) \/ SelectExit(c)

Ended == pc = "ended" /\ UNCHANGED vars

Next == (stop = "running" /\ Environment) \/ Turn \/ Select \/ Ended

(* The loop never blocks: its select always has the sleep, and select!     *)
(* picks among its ready arms at random, so an arm that is ready again and *)
(* again is taken.  Time passes, and the runtime drops an aborted task.    *)
(* Nothing makes a plugin read, write, or exit, even when killed.          *)
Fairness ==
    /\ WF_vars(Turn \/ Select)
    /\ SF_vars(SelectShutdown) /\ SF_vars(SelectInbound)
    /\ \A c \in Conns : SF_vars(SelectExit(c)) /\ SF_vars(SelectNotice(c))
    /\ WF_vars(Tick)
    /\ \A c \in Conns : WF_vars(c \in live /\ stop = "running" /\ AbortTakesEffect(c))

Spec == Init /\ [][Next]_vars /\ Fairness

-----------------------------------------------------------------------------
ProcessFactsOf(c) == {k \in 1..Len(facts[c]) : facts[c][k] \in ProcessFacts}

(* A plugin can be sent to exactly as long as its record is in conns_by_id *)
(* and not closing: the two maps of the broker never drift apart.          *)
RoutedAreOpen == routing = live \ closing

(* One engine.plugin_process_terminated fact per spawned process: none     *)
(* while its record lives, exactly one once it is gone, whether it exited, *)
(* could not be spawned or was never reaped; an in-memory transport gets   *)
(* no invented process fact.                                               *)
OneProcessFact ==
    \A c \in Conns : Cardinality(ProcessFactsOf(c)) =
        IF c \in Watched /\ c \notin live \cup spawnFailed THEN 1 ELSE 0

(* A connection reports at most one engine.plugin_transport_failed, and    *)
(* never after the fact of its process's end.                              *)
FaultFirst ==
    \A c \in Conns : \A i \in 1..Len(facts[c]) :
        facts[c][i] = "transport_failed" => i = 1

(* A fault, an EOF or an exit takes down its own connection only, and a    *)
(* connection is closed for a reason of its own or by the shutdown window. *)
ClosedForCause ==
    \A c \in Conns :
        /\ c \in closing <=> closedBy[c] # "open"
        /\ closedBy[c] = "exit" => proc[c] = "down"
        /\ closedBy[c] = "eof" => reader[c] = "done"
        /\ closedBy[c] = "fault" => c \in failed
        /\ closedBy[c] = "shutdown" => grace # NoTimer

(* Only a connection already being closed has its process terminated, and  *)
(* the run never returns with a process it has not at least told to end.   *)
TerminatedOnlyWhenClosing ==
    /\ killed \subseteq closing \cap Watched
    /\ stop # "running" => \A c \in Conns : proc[c] = "up" => c \in killed

(* Only a line of a connection that is no longer open is discarded. *)
OpenLinesHeard == \A line \in dropped : closedBy[line[1]] # "open"

(* The broker's record of a connection, its routing entry, its process and *)
(* the reason it was closed agree, in every order in which the reader, the *)
(* writer, the exit watcher and the deadlines report.                      *)
RecordsAgree ==
    /\ TypeOK
    /\ RoutedAreOpen
    /\ ClosedForCause
    /\ TerminatedOnlyWhenClosing
    /\ OpenLinesHeard

(* What Lua is told of a connection is complete and in order: one process  *)
(* fact, and no fault after it.                                            *)
ReportsInOrder == OneProcessFact /\ FaultFirst

(* Once shutdown is requested the run returns, wherever the turn stands    *)
(* when the request is made, even if no plugin reads, writes or exits      *)
(* again and Lua keeps starting runtime processes.                         *)
ShutdownReturns == fired ~> stop # "running"

(* An observed exit is reported, even if a descendant keeps the plugin's   *)
(* stdout open: the local deadline ends the reader.                        *)
ExitReported ==
    \A c \in Conns : c \in exits ~> (ProcessFactsOf(c) # {} \/ stop # "running")

(* A closing connection is gone or has had its process told to end; it     *)
(* cannot stay half closed.                                                *)
ClosingReclaimed ==
    \A c \in Conns : c \in closing ~> (c \notin live \/ c \in killed)

-----------------------------------------------------------------------------
(* Why RecordsAgree and ReportsInOrder hold: the parts of an inductive     *)
(* invariant.                                                              *)

CountsBounded ==
    /\ interrupts.waiting + interrupts.taken <= MaxInterrupts
    /\ runtime.running <= runtime.started

(* What is in the channel comes from a connection that was attached, and   *)
(* its reader ended before it said so.                                     *)
InboundGenuine ==
    \A k \in 1..Len(inbound) :
        /\ inbound[k].conn \in live \cup closing
        /\ inbound[k].what = "line" => inbound[k].n # 0
        /\ inbound[k].what = "eof" => reader[inbound[k].conn] = "done"

(* An exit is reported of a process that has ended; one that has not       *)
(* keeps its record, or was told to end.                                   *)
ExitsGenuine ==
    /\ \A c \in exits \cup pendingExit : proc[c] = "down"
    /\ pendingExit \subseteq closing
    /\ \A c \in Conns :
          /\ proc[c] # "none" => c \in Watched
          /\ proc[c] = "up" => c \in live \cup killed

(* A deadline runs only for what is being closed; in the shutdown window   *)
(* that is everything, and in the last wait everything was told to end.    *)
DeadlinesArmed ==
    /\ \A c \in Conns : timer[c] # NoTimer => c \in closing
    /\ grace = NoTimer => shutTimer = NoTimer /\ forcedTimer = NoTimer
    /\ grace # NoTimer => live \subseteq closing
    /\ forcedTimer # NoTimer => live \subseteq killed

(* What Lua has been told of a connection follows from its record. *)
FactsAgree ==
    /\ spawnFailed \subseteq Watched \ (live \cup failed)
    /\ \A c \in Conns :
          LET faults == IF c \in failed THEN <<"transport_failed">> ELSE <<>>
          IN  /\ c \in spawnFailed => facts[c] = <<>>
              /\ c \in live \/ c \notin Watched => facts[c] = faults
              /\ c \in Watched \ (live \cup spawnFailed) =>
                    \E fact \in ProcessFacts : facts[c] = Append(faults, fact)

RunEnded == stop # "running" <=> pc = "ended"

BrokerInv ==
    /\ RecordsAgree
    /\ CountsBounded
    /\ InboundGenuine
    /\ ExitsGenuine
    /\ DeadlinesArmed
    /\ FactsAgree
    /\ RunEnded
=============================================================================
