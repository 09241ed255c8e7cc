------------------------------- MODULE NcpBus -------------------------------
(***************************************************************************)
(* The event bus: the broker's event log and its dispatch                  *)
(* (handle_inbound_tick, drain_pending_dispatch, deferred tasks) together  *)
(* with the protocol layer it calls, lua/core/ncp.lua (ready handshake,    *)
(* replay on attach, routing to every ready peer, popups).                 *)
(*                                                                         *)
(* Lua and the broker share one thread, so the order in which the select   *)
(* serves its arms is the only scheduling; a plugin's writer may however   *)
(* die at any time, after which delivering to it fails.  The composition's *)
(* callbacks (to_plugin, on_event) are abstracted to what they may publish *)
(* and defer.  A log entry keeps what routing reads: its origin, sender,   *)
(* target and the peer its kind names as a prefix.                         *)
(***************************************************************************)
EXTENDS Integers, Sequences, FiniteSets, SequencesExt

CONSTANTS
    Peers,          \* plugin names
    Tui,            \* the peer called nefor-tui
    Nobody,         \* no target, no prefix
    Lua,            \* the composition as a sender
    CascadeCap,     \* rounds of one drain_pending_dispatch (8)
    TickBurst,      \* inbound messages per tick (256)
    MaxLines,       \* bound: lines the peers write, malformed ones aside
    MaxInbound,     \* bound: lines waiting in the channel
    MaxDerived,     \* bound: entries Lua publishes
    MaxTasks        \* bound: tasks Lua defers

ASSUME NameAssumption == Tui \in Peers /\ Nobody \notin Peers /\ Lua \notin Peers
ASSUME SizeAssumption == /\ CascadeCap \in Nat \ {0} /\ TickBurst \in Nat \ {0}
                         /\ MaxLines \in Nat /\ MaxInbound \in Nat /\ MaxDerived \in Nat /\ MaxTasks \in Nat

VARIABLES
    conns,          \* shared.conns: the peers Lua can deliver to
    broken,         \* those whose writer has ended: delivering fails
    reported,       \* peers whose process fact has been published
    inbound,        \* inbound_rx
    arrived,        \* well-formed lines written so far
    todo,           \* lines of the current tick, grouped by peer
    log,            \* shared.event_log
    mirrored,       \* mirrored_count, and dispatch_hwm of ncp.lua
    rounds,         \* rounds left of the running drain
    ready,          \* ready_plugins
    popups,         \* pending_chat_popups
    stdin,          \* per peer, what was delivered to it, errors aside
    tasks, deferred, ran,   \* deferred tasks: queued, created, executed
    derived,        \* entries Lua has published
    pc, back        \* point of the turn, and where a drain returns to

busVars == <<log, mirrored, ready, popups, stdin>>
taskVars == <<tasks, deferred, ran>>
vars == <<conns, broken, reported, inbound, arrived, todo, busVars, rounds,
          taskVars, derived, pc, back>>

Address == Peers \cup {Nobody}
Line == [peer : Peers, what : {"ready", "garbage"}, prefix : {Nobody}]
            \cup [peer : Peers, what : {"event"}, prefix : Address]
Entry == [origin : {"step", "engine"}, what : {"event", "failed", "clean", "crash"},
          from : Peers \cup {Lua}, to : Address, prefix : Address]

Got(what, n) == [what |-> what, n |-> n]

TypeOK ==
    /\ conns \subseteq Peers /\ broken \subseteq Peers /\ reported \subseteq Peers
    /\ inbound \in Seq(Line) /\ todo \in Seq(Line) /\ arrived \in 0..MaxLines
    /\ log \in Seq(Entry) /\ mirrored \in 0..Len(log) /\ rounds \in 0..CascadeCap
    /\ ready \subseteq Peers /\ popups \in Seq(Nat)
    /\ stdin \in [Peers -> Seq([what : {"ready_ok", "event", "popup"}, n : Nat])]
    /\ tasks \in Seq(1..MaxTasks) /\ ran \in Seq(1..MaxTasks) /\ deferred \in 0..MaxTasks
    /\ derived \in 0..MaxDerived
    /\ pc \in {"cli", "top", "select", "tick", "drain"} /\ back \in {"top", "select"}

(* With a cli target the run starts in its cli function. *)
Init ==
    /\ conns = Peers /\ broken = {} /\ reported = {}
    /\ inbound = <<>> /\ todo = <<>> /\ arrived = 0
    /\ log = <<>> /\ mirrored = 0 /\ rounds = 0
    /\ ready = {} /\ popups = <<>> /\ stdin = [p \in Peers |-> <<>>]
    /\ tasks = <<>> /\ deferred = 0 /\ ran = <<>> /\ derived = 0
    /\ pc \in {"cli", "top"} /\ back = "top"

-----------------------------------------------------------------------------
(* Publishing.  engine.send only appends to the log. *)

Step(from, to, prefix) ==
    [origin |-> "step", what |-> "event", from |-> from, to |-> to, prefix |-> prefix]
Fact(p, what) ==
    [origin |-> "engine", what |-> what, from |-> p, to |-> Nobody, prefix |-> Nobody]
Failed(p) ==
    [origin |-> "step", what |-> "failed", from |-> Lua, to |-> Nobody, prefix |-> Nobody]

(* What Lua code may do when it runs: publish an entry, defer a task.  An  *)
(* entry addressed to a target needs no peer's name in its kind.  What the *)
(* code had published and queued before is given.                          *)
LuaRuns(published, queued) ==
    /\ \/ log' = published /\ UNCHANGED derived
       \/ /\ derived < MaxDerived /\ derived' = derived + 1
          /\ \E to \in Address, prefix \in Address :
                /\ Nobody \in {to, prefix}
                /\ log' = Append(published, Step(Lua, to, prefix))
    /\ \/ tasks' = queued /\ UNCHANGED deferred
       \/ /\ deferred < MaxTasks /\ deferred' = deferred + 1
          /\ tasks' = Append(queued, deferred')

StartDrain(after) == pc' = "drain" /\ rounds' = CascadeCap /\ back' = after

-----------------------------------------------------------------------------
(* Routing one entry to one peer. *)

(* Defect: the target of an entry is not looked at. *)
RoutesEverywhere(p, i, among) ==
    LET e == log[i] IN
    /\ e.origin = "step" /\ e.what = "event"
    /\ e.from # p
    /\ e.prefix \in among /\ e.prefix # e.from => e.prefix = p

(* default_deliver_for: no echo to the sender, a target or a peer named by *)
(* the kind's prefix keeps the entry to itself.  ncp.delivery_failed is    *)
(* never routed, or a failure would produce the next one.                  *)
Routes(p, i, among) ==
    LET e == log[i] IN
    /\ e.origin = "step" /\ e.what = "event"
    /\ e.from # p
    /\ e.to \in {Nobody, p}
    /\ e.prefix \in among /\ e.prefix # e.from => e.prefix = p

(* The entries lo+1..hi for p, as deliveries in log order. *)
Batch(p, lo, hi, among) ==
    LET routed == SelectSeq([k \in 1..(hi - lo) |-> lo + k],
                            LAMBDA i : Routes(p, i, among))
    IN  [k \in 1..Len(routed) |-> Got("event", routed[k])]

Reachable == conns \ broken

(* engine.deliver to a peer whose writer is gone fails: ncp.lua publishes  *)
(* one ncp.delivery_failed for each such entry of a batch.                 *)
Failures(p, batch) ==
    IF p \in broken THEN [k \in 1..Len(batch) |-> Failed(p)] ELSE <<>>

Deliver(p, items) ==
    stdin' = IF p \in Reachable THEN [stdin EXCEPT ![p] = @ \o items] ELSE stdin

-----------------------------------------------------------------------------
(* Inbound lines. *)

(* A peer writes a line.  Arrivals are only observed by the next tick.     *)
(* There is no end to the malformed lines: they keep the loop busy.        *)
Arrive(l) ==
    /\ pc \in {"top", "select"} /\ Len(inbound) < MaxInbound /\ l.peer \in conns
    /\ \/ l.what = "garbage" /\ UNCHANGED arrived
       \/ l.what # "garbage" /\ arrived < MaxLines /\ arrived' = arrived + 1
    /\ inbound' = Append(inbound, l)
    /\ UNCHANGED <<conns, broken, reported, todo, busVars, rounds, taskVars,
                   derived, pc, back>>

WriterDies(p) ==
    /\ p \in Reachable
    /\ broken' = broken \cup {p}
    /\ UNCHANGED <<conns, reported, inbound, arrived, todo, busVars, rounds,
                   taskVars, derived, pc, back>>

(* Before the select the run returns if every connection has gone. *)
AtSelect == pc = "select" /\ reported # Peers
Returned == pc = "select" /\ reported = Peers

(* Lines of a tick, grouped by peer in order of first appearance; those of *)
(* a connection being closed are dropped.                                  *)
Grouped(s) ==
    LET open == SelectSeq(s, LAMBDA l : l.peer \in conns)
        First(p) == SelectInSeq(open, LAMBDA l : l.peer = p)
        Before(k, j) ==
            LET fk == First(open[k].peer) fj == First(open[j].peer)
            IN  fk < fj \/ (fk = fj /\ k < j)
        Rank(k) == Cardinality({j \in 1..Len(open) : Before(j, k)}) + 1
    IN  [n \in 1..Len(open) |-> open[CHOOSE k \in 1..Len(open) : Rank(k) = n]]

(* handle_inbound_tick: a bounded burst is taken from the channel. *)
SelectInbound ==
    /\ AtSelect /\ inbound # <<>>
    /\ LET n == IF Len(inbound) < TickBurst THEN Len(inbound) ELSE TickBurst
       IN  /\ todo' = Grouped(SubSeq(inbound, 1, n))
           /\ inbound' = SubSeq(inbound, n + 1, Len(inbound))
    /\ pc' = "tick"
    /\ UNCHANGED <<conns, broken, reported, arrived, busVars, rounds, taskVars,
                   derived, back>>

(* A malformed line, a second ready or an event before ready. *)
Refused(l) ==
    \/ l.what = "garbage"
    \/ l.what = "ready" /\ l.peer \in ready
    \/ l.what = "event" /\ l.peer \notin ready

(* deliver_error: an error goes to the sender alone, past the log.  It is  *)
(* a reply and no traffic of the bus, and is not kept in stdin.            *)
RefuseLine ==
    /\ pc = "tick" /\ todo # <<>> /\ Refused(Head(todo))
    /\ todo' = Tail(todo)
    /\ UNCHANGED <<conns, broken, reported, inbound, arrived, busVars, rounds,
                   taskVars, derived, pc, back>>

(* Defect: events published in this tick are replayed now and dispatched   *)
(* later.                                                                  *)
ReplayEndAtLog == Len(log)

(* replay_prior_events walks the entries Lua has been handed so far. *)
ReplayEnd == mirrored

Welcome(replay, kept) == <<Got("ready_ok", 0)>> \o replay \o kept

(* Defect: the popups handed over are kept as well. *)
PopupsLeftUncleared(p) == popups

PopupsLeft(p) == IF p = Tui THEN <<>> ELSE popups

(* handle_ready: the peer joins, gets ready_ok, then the log so far, and   *)
(* nefor-tui the popups kept for it.                                       *)
HandleReady ==
    LET p == Head(todo).peer
        replay == Batch(p, 0, ReplayEnd, ready \cup {p})
        kept == IF p = Tui THEN [k \in 1..Len(popups) |-> Got("popup", popups[k])]
                ELSE <<>>
    IN  /\ pc = "tick" /\ todo # <<>>
        /\ Head(todo).what = "ready" /\ p \notin ready
        /\ ready' = ready \cup {p}
        /\ Deliver(p, Welcome(replay, kept))
        /\ log' = log \o Failures(p, replay)
        /\ popups' = PopupsLeft(p)
        /\ todo' = Tail(todo)
        /\ UNCHANGED <<conns, broken, reported, inbound, arrived, mirrored, rounds,
                       taskVars, derived, pc, back>>

(* The default from_plugin publishes the event as it came.  A plugin gives *)
(* its own name as the sender.                                             *)
HandleEvent ==
    LET l == Head(todo)
    IN  /\ pc = "tick" /\ todo # <<>> /\ l.what = "event" /\ l.peer \in ready
        /\ log' = Append(log, Step(l.peer, Nobody, l.prefix))
        /\ todo' = Tail(todo)
        /\ UNCHANGED <<conns, broken, reported, inbound, arrived, mirrored, ready,
                       popups, stdin, rounds, taskVars, derived, pc, back>>

(* One drain of the log ends the tick. *)
EndTick ==
    /\ pc = "tick" /\ todo = <<>>
    /\ StartDrain("top")
    /\ UNCHANGED <<conns, broken, reported, inbound, arrived, todo, busVars,
                   taskVars, derived>>

-----------------------------------------------------------------------------
(* Dispatch. *)

(* handle_engine_envelope: a crash makes a popup, if nefor-tui is there. *)
NewPopups ==
    IF Tui \notin conns THEN <<>>
    ELSE SelectSeq([k \in 1..(Len(log) - mirrored) |-> mirrored + k],
                   LAMBDA i : log[i].what = "crash")

(* One round: the new tail is handed to every ready peer, in one batch per *)
(* peer; popups go to nefor-tui while the tail is walked, before the       *)
(* batches, or are kept until it is ready.                                 *)
DispatchRound ==
    LET batch(p) == Batch(p, mirrored, Len(log), ready)
        shown == IF Tui \in ready
                 THEN [k \in 1..Len(NewPopups) |-> Got("popup", NewPopups[k])]
                 ELSE <<>>
        sent(p) == (IF p = Tui THEN shown ELSE <<>>) \o batch(p)
        served == SetToSeq(conns \cap ready)
        failures == FlattenSeq([k \in 1..Len(served) |->
                                    Failures(served[k], batch(served[k]))])
    IN  /\ pc = "drain" /\ rounds > 0 /\ mirrored < Len(log)
        /\ mirrored' = Len(log)
        /\ stdin' = [p \in Peers |-> IF p \in Reachable \cap ready
                                     THEN stdin[p] \o sent(p) ELSE stdin[p]]
        /\ popups' = IF Tui \in ready THEN popups ELSE popups \o NewPopups
        /\ LuaRuns(log \o failures, tasks)
        /\ rounds' = rounds - 1
        /\ UNCHANGED <<conns, broken, reported, inbound, arrived, todo, ready, ran,
                       pc, back>>

EndDrain ==
    /\ pc = "drain" /\ (rounds = 0 \/ mirrored = Len(log))
    /\ pc' = back /\ rounds' = 0 /\ back' = "top"
    /\ UNCHANGED <<conns, broken, reported, inbound, arrived, todo, busVars,
                   taskVars, derived>>

-----------------------------------------------------------------------------
(* The rest of the turn. *)

(* invoke_cli runs before the loop. *)
CliRuns ==
    /\ pc = "cli" /\ pc' = "top"
    /\ LuaRuns(log, tasks)
    /\ UNCHANGED <<conns, broken, reported, inbound, arrived, todo, mirrored, ready,
                   popups, stdin, rounds, ran, back>>

TakeTask == ran' = Append(ran, Head(tasks)) /\ LuaRuns(log, Tail(tasks))

(* Defect: tasks wait until no peer has a line in the channel. *)
TaskDueWhenQuiet == tasks # <<>> /\ inbound = <<>>

TaskDue == tasks # <<>>

(* run_one_cooperative_task: one task of the queue runs per turn, and may  *)
(* defer the next, as a session replay does chunk by chunk.                *)
RunTask ==
    /\ pc = "top" /\ TaskDue
    /\ TakeTask
    /\ StartDrain("select")
    /\ UNCHANGED <<conns, broken, reported, inbound, arrived, todo, mirrored, ready,
                   popups, stdin>>

NoTask ==
    /\ pc = "top" /\ ~TaskDue
    /\ pc' = "select"
    /\ UNCHANGED <<conns, broken, reported, inbound, arrived, todo, busVars, rounds,
                   taskVars, derived, back>>

(* A connection begins to close: it leaves the routing map. *)
Unroute(p) ==
    /\ AtSelect /\ p \in conns /\ pc' = "top"
    /\ conns' = conns \ {p}
    /\ UNCHANGED <<broken, reported, inbound, arrived, todo, busVars, rounds,
                   taskVars, derived, back>>

(* account_exit: the process fact is published and drained at once. *)
ReportExit(p, how) ==
    /\ AtSelect /\ p \notin conns \cup reported
    /\ reported' = reported \cup {p}
    /\ log' = Append(log, Fact(p, how))
    /\ StartDrain("top")
    /\ UNCHANGED <<conns, broken, inbound, arrived, todo, mirrored, ready, popups,
                   stdin, taskVars, derived>>

SelectSleep ==
    /\ AtSelect /\ pc' = "top"
    /\ UNCHANGED <<conns, broken, reported, inbound, arrived, todo, busVars, rounds,
                   taskVars, derived, back>>

Environment ==
    \/ \E l \in Line : Arrive(l)
    \/ \E p \in Peers : WriterDies(p)

Loop ==
    \/ CliRuns \/ RunTask \/ NoTask \/ SelectInbound \/ RefuseLine \/ HandleReady
    \/ HandleEvent \/ EndTick \/ DispatchRound \/ EndDrain \/ SelectSleep
    \/ \E p \in Peers : Unroute(p) \/ \E how \in {"clean", "crash"} : ReportExit(p, how)

Ended == Returned /\ UNCHANGED vars

Next == Environment \/ Loop \/ Ended

(* The loop always has a step, and a ready arm is taken in the end. *)
Spec == Init /\ [][Next]_vars /\ WF_vars(Loop) /\ SF_vars(SelectInbound)

-----------------------------------------------------------------------------
EventsOf(p) == SelectSeq(stdin[p], LAMBDA g : g.what = "event")
Indices(p) == {EventsOf(p)[k].n : k \in 1..Len(EventsOf(p))}

(* A plugin that becomes ready at any moment, in the middle of a tick or   *)
(* between two rounds of a drain, sees every broadcast of the others       *)
(* exactly once and in log order: what replay_prior_events hands it and    *)
(* what dispatch delivers neither overlap nor leave a gap.                 *)
ExactlyOnceInOrder ==
    \A p \in Peers :
        /\ \A j, k \in 1..Len(EventsOf(p)) : j < k => EventsOf(p)[j].n < EventsOf(p)[k].n
        /\ p \in ready \cap Reachable =>
              {i \in 1..mirrored : Routes(p, i, {}) /\ log[i].prefix \in {Nobody, p}}
                  \subseteq Indices(p)

(* An entry sent to one peer, or the report of a failed delivery, reaches  *)
(* nobody else, and nobody hears its own events.                           *)
NobodyElseHears ==
    \A p \in Peers : \A i \in Indices(p) :
        /\ log[i].what = "event" /\ log[i].from # p
        /\ log[i].to \in {Nobody, p}

(* A peer is told ready_ok exactly once, and before any event or popup. *)
ReadyOkFirst ==
    \A p \in Peers :
        LET oks == {k \in 1..Len(stdin[p]) : stdin[p][k].what = "ready_ok"}
        IN  /\ Cardinality(oks) <= 1
            /\ \A k \in 1..Len(stdin[p]) :
                  stdin[p][k].what \in {"event", "popup"} => \E j \in oks : j < k

(* Popups wait only for nefor-tui to become ready, and each crash shows at *)
(* most one.                                                               *)
PopupsShownOnce ==
    LET shown == SelectSeq(stdin[Tui], LAMBDA g : g.what = "popup")
        all == [k \in 1..Len(shown) |-> shown[k].n] \o popups
    IN  /\ Tui \in ready => popups = <<>>
        /\ \A j, k \in 1..Len(all) : j < k => all[j] < all[k]

(* Deferred tasks run in the order in which they were deferred. *)
TasksInOrder == ran \o tasks = [k \in 1..deferred |-> k]

(* What a peer hears, and what Lua runs, is complete, for it, and in the   *)
(* order of the log, wherever in a tick the peer became ready.             *)
BusInOrder ==
    /\ TypeOK
    /\ ExactlyOnceInOrder
    /\ NobodyElseHears
    /\ ReadyOkFirst
    /\ TasksInOrder

(* A deferred task runs, also one deferred by the task before it, while    *)
(* the peers never stop writing and never leave the channel empty, unless  *)
(* all of them leave: run takes one task in every turn, before its select. *)
TaskRuns == \A n \in 1..MaxTasks : deferred >= n ~> (n \in ToSet(ran) \/ Returned)
=============================================================================
