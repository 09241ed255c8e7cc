---------------------------- MODULE BrokerProofs ----------------------------
(***************************************************************************)
(* What Broker guarantees for any set of connections, with or without a    *)
(* process behind them, any grace windows and any exit codes: its records, *)
(* its routing map, its processes and its reasons for closing agree, and   *)
(* what Lua is told of a connection is complete and in order.              *)
(***************************************************************************)
EXTENDS Broker, FiniteSetTheorems, TLAPS

\* The sequence facts the proofs use.
LEMMA Appended ==
    ASSUME NEW S, NEW q \in Seq(S), NEW e \in S
    PROVE  /\ Append(q, e) \in Seq(S)
           /\ Len(q) \in Nat
           /\ Len(Append(q, e)) = Len(q) + 1
           /\ \A k \in 1..Len(q) : Append(q, e)[k] = q[k]
           /\ Append(q, e)[Len(q) + 1] = e
  OBVIOUS

LEMMA Singles ==
    ASSUME NEW a, NEW b
    PROVE  /\ Len(<<>>) = 0
           /\ Append(<<>>, a) = <<a>>
           /\ Len(<<a>>) = 1 /\ <<a>>[1] = a
           /\ Len(Append(<<a>>, b)) = 2 /\ Append(<<a>>, b)[1] = a /\ Append(<<a>>, b)[2] = b
  OBVIOUS

-----------------------------------------------------------------------------
(* The broker's helpers. *)

LEMMA TaskEnds ==
    ASSUME NEW task \in [Conns -> TaskState], NEW c \in Conns,
           NEW t, t \in {task, [task EXCEPT ![c] = "done"]}
    PROVE  /\ t \in [Conns -> TaskState]
           /\ \A d \in Conns : task[d] = "done" => t[d] = "done"
  BY DEF TaskState

LEMMA CancelType ==
    ASSUME NEW task \in [Conns -> TaskState], NEW S
    PROVE  /\ Cancel(task, S) \in [Conns -> TaskState]
           /\ \A c \in Conns : task[c] = "done" => Cancel(task, S)[c] = "done"
  BY DEF Cancel, TaskState

LEMMA ArmType ==
    ASSUME RecTypeOK, NEW S
    PROVE  /\ Arm(S) \in [Conns -> {NoTimer} \cup 0..CloseGrace]
           /\ \A c \in Conns : Arm(S)[c] = IF c \in S THEN CloseGrace ELSE timer[c]
  BY GraceAssumption DEF Arm, RecTypeOK

LEMMA ReportType ==
    ASSUME RecTypeOK, NEW S, NEW fact \in {"transport_failed"} \cup ProcessFacts
    PROVE  /\ Report(S, fact) \in [Conns -> Seq({"transport_failed"} \cup ProcessFacts)]
           /\ \A c \in Conns :
                 Report(S, fact)[c] = IF c \in S THEN Append(facts[c], fact) ELSE facts[c]
  <1> DEFINE F == {"transport_failed"} \cup ProcessFacts
  <1>1. facts \in [Conns -> Seq(F)] /\ fact \in F BY DEF RecTypeOK
  <1> HIDE DEF F
  <1>2. \A c \in Conns : Append(facts[c], fact) \in Seq(F) BY <1>1, Appended
  <1>3. Report(S, fact) \in [Conns -> Seq(F)] BY <1>1, <1>2 DEF Report
  <1> QED BY <1>3 DEF Report, F

LEMMA BlameType ==
    ASSUME HistTypeOK, NEW S, NEW cause \in Causes
    PROVE  /\ Blame(S, cause) \in [Conns -> Causes]
           /\ \A c \in Conns :
                 Blame(S, cause)[c] = IF c \in S /\ closedBy[c] = "open" THEN cause ELSE closedBy[c]
  BY DEF Blame, HistTypeOK

\* Lua may ask for shutdown or start a runtime process.
LEMMA StartType ==
    ASSUME AskTypeOK, CountsBounded, StartRuntime \/ UNCHANGED runtime
    PROVE  /\ runtime' \in [running : 0..MaxRuntime, started : 0..MaxRuntime]
           /\ runtime'.running <= runtime'.started
  <1>1. /\ runtime.running \in 0..MaxRuntime /\ runtime.started \in 0..MaxRuntime
        /\ runtime.running <= runtime.started
    BY DEF AskTypeOK, CountsBounded
  <1>2. CASE UNCHANGED runtime BY <1>1, <1>2 DEF AskTypeOK
  <1>3. CASE StartRuntime
    <2>1. runtime.running + 1 \in 0..MaxRuntime /\ runtime.started + 1 \in 0..MaxRuntime
      BY <1>1, <1>3, BoundAssumption DEF StartRuntime
    <2> QED BY <1>1, <1>3, <2>1 DEF StartRuntime
  <1> QED BY <1>2, <1>3

LEMMA LuaType ==
    ASSUME AskTypeOK, CountsBounded, LuaRuns \/ LuaIdle
    PROVE  AskTypeOK' /\ runtime'.running <= runtime'.started
  <1>1. CASE LuaIdle
    BY <1>1 DEF LuaIdle, askVars, AskTypeOK, CountsBounded
  <1>2. CASE LuaRuns
    <2>1. /\ runtime' \in [running : 0..MaxRuntime, started : 0..MaxRuntime]
          /\ runtime'.running <= runtime'.started
      BY <1>2, StartType DEF LuaRuns
    <2>2. fired' \in BOOLEAN /\ code' \in {0} \cup Codes /\ shutdownQ' \in Seq(Request)
      <3>1. CASE UNCHANGED <<fired, code, shutdownQ>> BY <3>1 DEF AskTypeOK
      <3>2. ASSUME NEW r \in Request, RequestShutdown(r)
            PROVE  fired' \in BOOLEAN /\ code' \in {0} \cup Codes /\ shutdownQ' \in Seq(Request)
        <4>1. CASE fired BY <3>2, <4>1 DEF RequestShutdown, AskTypeOK
        <4>2. CASE ~fired
          <5>1. fired' = TRUE /\ code' = r.code /\ shutdownQ' = Append(shutdownQ, r)
            BY <3>2, <4>2 DEF RequestShutdown
          <5>2. r.code \in Codes BY DEF Request
          <5>3. shutdownQ \in Seq(Request) BY DEF AskTypeOK
          <5> QED BY <5>1, <5>2, <5>3, Appended
        <4> QED BY <4>1, <4>2
      <3> QED BY <1>2, <3>1, <3>2 DEF LuaRuns
    <2> QED BY <2>1, <2>2 DEF AskTypeOK
  <1> QED BY <1>1, <1>2

-----------------------------------------------------------------------------
(* The steps of processes, I/O tasks and the clock. *)

LEMMA BrokerTypes == BrokerInv =>
    EnvTypeOK /\ RecTypeOK /\ AskTypeOK /\ WinTypeOK /\ HistTypeOK /\ CountsBounded
  BY DEF BrokerInv, RecordsAgree, TypeOK

LEMMA InboundItems ==
    ASSUME EnvTypeOK, NEW k \in 1..Len(inbound)
    PROVE  /\ inbound[k].conn \in Conns
           /\ inbound[k].what \in {"line", "eof", "fault"}
           /\ inbound[k].n \in 0..MaxLines
  <1> DEFINE Items == [conn : Conns, what : {"line", "eof", "fault"}, n : 0..MaxLines]
  <1>1. inbound \in Seq(Items) BY DEF EnvTypeOK
  <1> HIDE DEF Items
  <1>2. inbound[k] \in Items BY <1>1
  <1> QED BY <1>2 DEF Items

\* While the broker runs, a process and its tasks may move as long as what
\* they report is true: the records and the reports do not change.
LEMMA TasksMove ==
    ASSUME BrokerInv, stop = "running",
           UNCHANGED <<recVars, spawnFailed, facts, askVars, winVars, pc, histVars>>,
           EnvTypeOK', interrupts'.waiting + interrupts'.taken <= MaxInterrupts,
           InboundGenuine', ExitsGenuine',
           \A c \in Conns : reader[c] = "done" => reader'[c] = "done",
           \A c \in Conns : proc[c] = "down" => proc'[c] = "down"
    PROVE  BrokerInv'
  <1> USE DEF recVars, askVars, winVars, histVars
  <1>1. TypeOK' BY BrokerTypes DEF TypeOK, RecTypeOK, AskTypeOK, WinTypeOK, HistTypeOK
  <1>2. RoutedAreOpen' BY DEF BrokerInv, RecordsAgree, RoutedAreOpen
  <1>3. ClosedForCause' BY DEF BrokerInv, RecordsAgree, ClosedForCause
  <1>4. TerminatedOnlyWhenClosing' BY DEF BrokerInv, RecordsAgree, TerminatedOnlyWhenClosing
  <1>5. OpenLinesHeard' BY DEF BrokerInv, RecordsAgree, OpenLinesHeard
  <1>6. CountsBounded' BY DEF BrokerInv, CountsBounded
  <1>7. DeadlinesArmed' BY DEF BrokerInv, DeadlinesArmed
  <1>8. FactsAgree' BY DEF BrokerInv, FactsAgree
  <1>10. RunEnded' BY DEF BrokerInv, RunEnded
  <1> QED BY <1>1, <1>2, <1>3, <1>4, <1>5, <1>6, <1>7, <1>8, <1>10
          DEF BrokerInv, RecordsAgree

\* The reader of connection c sends item m and goes on, or ends.
LEMMA ReaderSends ==
    ASSUME BrokerInv, stop = "running", NEW c \in live, NEW m, inbound' = Append(inbound, m),
           m \in [conn : Conns, what : {"line", "eof", "fault"}, n : 0..MaxLines],
           m.conn = c, m.what = "line" => m.n # 0, m.what = "eof" => reader'[c] = "done",
           reader' \in [Conns -> TaskState], lines' \in [Conns -> 0..MaxLines],
           \A d \in Conns : reader[d] = "done" => reader'[d] = "done",
           UNCHANGED <<proc, writer, notices, exits, interrupts, recVars,
                       spawnFailed, facts, askVars, winVars, pc, histVars>>
    PROVE  BrokerInv'
  <1> DEFINE Items == [conn : Conns, what : {"line", "eof", "fault"}, n : 0..MaxLines]
  <1>1. EnvTypeOK /\ CountsBounded /\ RecTypeOK BY BrokerTypes
  <1>2. inbound \in Seq(Items) /\ m \in Items BY <1>1 DEF EnvTypeOK
  <1> HIDE DEF Items
  <1>3. /\ inbound' \in Seq(Items) /\ Len(inbound) \in Nat /\ Len(inbound') = Len(inbound) + 1
        /\ \A k \in 1..Len(inbound) : inbound'[k] = inbound[k]
        /\ inbound'[Len(inbound) + 1] = m
    BY <1>2, Appended
  <1>4. EnvTypeOK' BY <1>1, <1>3 DEF EnvTypeOK, Items
  <1>5. live' = live /\ closing' = closing BY DEF recVars
  <1>6. InboundGenuine'
    <2> SUFFICES ASSUME NEW k \in 1..Len(inbound')
                 PROVE  /\ inbound'[k].conn \in live \cup closing
                        /\ inbound'[k].what = "line" => inbound'[k].n # 0
                        /\ inbound'[k].what = "eof" => reader'[inbound'[k].conn] = "done"
      BY <1>5 DEF InboundGenuine
    <2>1. CASE k \in 1..Len(inbound)
      <3>1. inbound[k] \in Items BY <1>2, <2>1
      <3>2. inbound[k].conn \in Conns BY <3>1 DEF Items
      <3> QED BY <1>3, <2>1, <3>2 DEF BrokerInv, InboundGenuine
    <2>2. CASE k = Len(inbound) + 1 BY <1>3, <2>2
    <2> QED BY <1>3, <2>1, <2>2
  <1>7. ExitsGenuine' BY DEF BrokerInv, ExitsGenuine, recVars
  <1>8. interrupts'.waiting + interrupts'.taken <= MaxInterrupts BY <1>1 DEF CountsBounded
  <1> QED BY <1>4, <1>6, <1>7, <1>8, TasksMove

\* A step in which only Lua's requests, the interrupts and the place of the
\* turn change.
LEMMA LuaMoves ==
    ASSUME BrokerInv, AskTypeOK', CountsBounded',
           interrupts' \in [waiting : 0..MaxInterrupts, taken : 0..MaxInterrupts],
           UNCHANGED <<proc, reader, writer, lines, inbound, notices, exits>>,
           UNCHANGED recVars, UNCHANGED <<spawnFailed, facts, grace, shutTimer, forcedTimer>>,
           UNCHANGED histVars,
           pc' \in Stages, stop' \in {"running", "Shutdown", "AllPluginsGone"},
           RunEnded', TerminatedOnlyWhenClosing'
    PROVE  BrokerInv'
  <1> USE DEF recVars, histVars
  <1>1. TypeOK' BY BrokerTypes DEF TypeOK, EnvTypeOK, RecTypeOK, WinTypeOK, HistTypeOK
  <1>2. RoutedAreOpen' BY DEF BrokerInv, RecordsAgree, RoutedAreOpen
  <1>3. ClosedForCause' BY DEF BrokerInv, RecordsAgree, ClosedForCause
  <1>4. OpenLinesHeard' BY DEF BrokerInv, RecordsAgree, OpenLinesHeard
  <1>5. InboundGenuine' BY DEF BrokerInv, InboundGenuine
  <1>6. ExitsGenuine' BY DEF BrokerInv, ExitsGenuine
  <1>7. DeadlinesArmed' BY DEF BrokerInv, DeadlinesArmed
  <1>8. FactsAgree' BY DEF BrokerInv, FactsAgree
  <1> QED BY <1>1, <1>2, <1>3, <1>4, <1>5, <1>6, <1>7, <1>8 DEF BrokerInv, RecordsAgree

LEMMA EnvironmentKeeps ==
    ASSUME BrokerInv, stop = "running", Environment PROVE BrokerInv'
  <1>0. EnvTypeOK /\ RecTypeOK /\ CountsBounded BY BrokerTypes
  <1>a. live \subseteq Conns BY <1>0 DEF RecTypeOK
  <1>1. ASSUME NEW c \in live, ReaderLine(c) PROVE BrokerInv'
    <2>1. lines[c] \in 0..MaxLines /\ lines[c] < MaxLines BY <1>0, <1>1, <1>a DEF EnvTypeOK, ReaderLine
    <2>2. lines[c] + 1 \in 0..MaxLines /\ lines[c] + 1 # 0 BY <2>1, BoundAssumption
    <2> DEFINE m == Item(c, "line", lines[c] + 1)
    <2>3. /\ m \in [conn : Conns, what : {"line", "eof", "fault"}, n : 0..MaxLines]
          /\ m.conn = c /\ m.what = "line" /\ m.n # 0
      BY <2>2, <1>a DEF Item
    <2>4. /\ inbound' = Append(inbound, m) /\ reader' = reader
          /\ lines' \in [Conns -> 0..MaxLines]
      BY <1>0, <1>1, <2>2 DEF ReaderLine, EnvTypeOK
    <2>5. reader' \in [Conns -> TaskState] BY <1>0, <2>4 DEF EnvTypeOK
    <2>6. UNCHANGED <<proc, writer, notices, exits, interrupts, recVars,
                      spawnFailed, facts, askVars, winVars, pc, histVars>>
      BY <1>1 DEF ReaderLine
    <2> HIDE DEF m
    <2> QED BY <2>3, <2>4, <2>5, <2>6, ReaderSends
  <1>2. ASSUME NEW c \in live, NEW reason \in {"eof", "fault"}, ReaderEnd(c, reason) PROVE BrokerInv'
    <2> DEFINE m == Item(c, reason, 0)
    <2>1. /\ m \in [conn : Conns, what : {"line", "eof", "fault"}, n : 0..MaxLines]
          /\ m.conn = c /\ m.what # "line"
      BY <1>a, BoundAssumption DEF Item
    <2>2. /\ inbound' = Append(inbound, m) /\ lines' = lines
          /\ reader' = [reader EXCEPT ![c] = "done"]
      BY <1>2 DEF ReaderEnd
    <2>3. /\ reader' \in [Conns -> TaskState] /\ lines' \in [Conns -> 0..MaxLines]
          /\ reader'[c] = "done"
          /\ \A d \in Conns : reader[d] = "done" => reader'[d] = "done"
      BY <1>0, <1>a, <2>2 DEF EnvTypeOK, TaskState
    <2>4. UNCHANGED <<proc, writer, notices, exits, interrupts, recVars,
                      spawnFailed, facts, askVars, winVars, pc, histVars>>
      BY <1>2 DEF ReaderEnd
    <2> HIDE DEF m
    <2> QED BY <2>1, <2>2, <2>3, <2>4, ReaderSends
  <1>3. ASSUME NEW c \in live, WriterFault(c) \/ WriterDrained(c) \/ AbortTakesEffect(c)
        PROVE  BrokerInv'
    <2>1. /\ UNCHANGED <<proc, lines, inbound, exits, interrupts>>
          /\ UNCHANGED <<recVars, spawnFailed, facts, askVars, winVars, pc, histVars>>
          /\ notices' \in {notices, notices \cup {c}}
          /\ reader' \in {reader, [reader EXCEPT ![c] = "done"]}
          /\ writer' \in {writer, [writer EXCEPT ![c] = "done"]}
      BY <1>3 DEF WriterFault, WriterDrained, AbortTakesEffect
    <2>2. EnvTypeOK' /\ \A d \in Conns : reader[d] = "done" => reader'[d] = "done"
      <3>1. reader \in [Conns -> TaskState] /\ writer \in [Conns -> TaskState]
        BY <1>0 DEF EnvTypeOK
      <3>2. /\ reader' \in [Conns -> TaskState] /\ writer' \in [Conns -> TaskState]
            /\ \A d \in Conns : reader[d] = "done" => reader'[d] = "done"
        BY <1>a, <2>1, <3>1, TaskEnds
      <3>3. notices' \subseteq Conns BY <1>0, <1>a, <2>1 DEF EnvTypeOK
      <3> QED BY <1>0, <2>1, <3>2, <3>3 DEF EnvTypeOK
    <2>3. InboundGenuine'
      <3>1. \A k \in 1..Len(inbound) : inbound[k].conn \in Conns BY <1>0, InboundItems
      <3> QED BY <2>1, <2>2, <3>1 DEF BrokerInv, InboundGenuine, recVars
    <2>4. ExitsGenuine' BY <2>1 DEF BrokerInv, ExitsGenuine, recVars
    <2>5. interrupts'.waiting + interrupts'.taken <= MaxInterrupts BY <1>0, <2>1 DEF CountsBounded
    <2> QED BY <2>1, <2>2, <2>3, <2>4, <2>5, TasksMove
  <1>4. ASSUME NEW c \in live, ProcessExit(c) PROVE BrokerInv'
    <2>1. /\ UNCHANGED <<reader, writer, lines, inbound, notices, interrupts>>
          /\ UNCHANGED <<recVars, spawnFailed, facts, askVars, winVars, pc, histVars>>
          /\ proc[c] = "up" /\ proc' = [proc EXCEPT ![c] = "down"] /\ exits' = exits \cup {c}
      BY <1>4 DEF ProcessExit
    <2>2. EnvTypeOK' /\ \A d \in Conns : proc[d] = "down" => proc'[d] = "down"
      BY <1>0, <1>a, <2>1 DEF EnvTypeOK
    <2>3. InboundGenuine' BY <2>1 DEF BrokerInv, InboundGenuine, recVars
    <2>4. ExitsGenuine'
      <3>1. exits \cup pendingExit \subseteq Conns BY <1>0 DEF EnvTypeOK, RecTypeOK
      <3>2. /\ \A d \in exits' \cup pendingExit : proc'[d] = "down"
            /\ \A d \in Conns : proc'[d] # "none" => proc[d] # "none"
            /\ \A d \in Conns : proc'[d] = "up" => proc[d] = "up"
        BY <1>0, <1>a, <2>1, <2>2, <3>1 DEF EnvTypeOK, BrokerInv, ExitsGenuine
      <3> QED BY <2>1, <3>2 DEF BrokerInv, ExitsGenuine, recVars
    <2>5. interrupts'.waiting + interrupts'.taken <= MaxInterrupts BY <1>0, <2>1 DEF CountsBounded
    <2> QED BY <2>1, <2>2, <2>3, <2>4, <2>5, TasksMove
  <1>5. ASSUME CtrlC PROVE BrokerInv'
    <2>1. /\ UNCHANGED <<proc, reader, writer, lines, inbound, notices, exits>>
          /\ UNCHANGED <<recVars, spawnFailed, facts, askVars, winVars, pc, histVars>>
          /\ interrupts.waiting + interrupts.taken < MaxInterrupts
          /\ interrupts' = [interrupts EXCEPT !.waiting = @ + 1]
      BY <1>5 DEF CtrlC
    <2>2. /\ interrupts' \in [waiting : 0..MaxInterrupts, taken : 0..MaxInterrupts]
          /\ interrupts'.waiting + interrupts'.taken <= MaxInterrupts
      <3>1. interrupts \in [waiting : 0..MaxInterrupts, taken : 0..MaxInterrupts]
        BY <1>0 DEF EnvTypeOK
      <3>2. interrupts.waiting \in 0..MaxInterrupts /\ interrupts.taken \in 0..MaxInterrupts
        BY <3>1
      <3>3. /\ interrupts.waiting + 1 \in 0..MaxInterrupts
            /\ interrupts.waiting + 1 + interrupts.taken <= MaxInterrupts
        BY <2>1, <3>2, BoundAssumption
      <3>4. /\ interrupts' = [waiting |-> interrupts.waiting + 1, taken |-> interrupts.taken]
        BY <2>1, <3>1
      <3> QED BY <3>2, <3>3, <3>4
    <2>3. EnvTypeOK' BY <1>0, <2>1, <2>2 DEF EnvTypeOK
    <2>4. InboundGenuine' BY <2>1 DEF BrokerInv, InboundGenuine, recVars
    <2>5. ExitsGenuine' BY <2>1 DEF BrokerInv, ExitsGenuine, recVars
    <2> QED BY <2>1, <2>2, <2>3, <2>4, <2>5, TasksMove
  <1>6. ASSUME RuntimeExit PROVE BrokerInv'
    <2>1. /\ UNCHANGED <<envVars, recVars, spawnFailed, facts, fired, code, shutdownQ, winVars,
                         pc, histVars>>
          /\ runtime.running > 0 /\ runtime' = [runtime EXCEPT !.running = @ - 1]
      BY <1>6 DEF RuntimeExit
    <2>2. /\ runtime' \in [running : 0..MaxRuntime, started : 0..MaxRuntime]
          /\ runtime'.running <= runtime'.started
      BY <2>1, BrokerTypes, BoundAssumption DEF AskTypeOK, CountsBounded
    <2>3. AskTypeOK' /\ CountsBounded' /\ RunEnded' /\ TerminatedOnlyWhenClosing'
      BY <1>0, <2>1, <2>2, BrokerTypes
      DEF AskTypeOK, CountsBounded, BrokerInv, RecordsAgree, RunEnded, TerminatedOnlyWhenClosing,
          envVars, recVars, winVars
    <2>4. /\ interrupts' \in [waiting : 0..MaxInterrupts, taken : 0..MaxInterrupts]
          /\ pc' \in Stages /\ stop' \in {"running", "Shutdown", "AllPluginsGone"}
      BY <2>1, BrokerTypes DEF EnvTypeOK, WinTypeOK, envVars, winVars
    <2> QED BY <2>1, <2>3, <2>4, LuaMoves DEF envVars, winVars
  <1>7. ASSUME Tick PROVE BrokerInv'
    <2>1. /\ UNCHANGED <<envVars, live, closing, failed, pendingExit, killed, routing,
                         spawnFailed, facts, askVars, grace, stop, pc, histVars>>
          /\ timer' = [c \in Conns |-> CountDown(timer[c])]
          /\ shutTimer' = CountDown(shutTimer) /\ forcedTimer' = CountDown(forcedTimer)
      BY <1>7 DEF Tick
    <2>2. \A n \in Nat : \A t \in {NoTimer} \cup 0..n :
            CountDown(t) \in {NoTimer} \cup 0..n /\ (CountDown(t) = NoTimer <=> t = NoTimer)
      BY DEF CountDown, NoTimer
    <2>3. /\ timer' \in [Conns -> {NoTimer} \cup 0..CloseGrace]
          /\ \A c \in Conns : timer'[c] = NoTimer <=> timer[c] = NoTimer
      BY <1>0, <2>1, <2>2, GraceAssumption DEF RecTypeOK
    <2>4. /\ forcedTimer' \in {NoTimer} \cup 0..ForcedGrace
          /\ forcedTimer' = NoTimer <=> forcedTimer = NoTimer
      BY <2>1, <2>2, BrokerTypes, GraceAssumption DEF WinTypeOK
    <2>5. shutTimer' \in Int /\ (shutTimer = NoTimer => shutTimer' = NoTimer)
      BY <2>1, BrokerTypes DEF WinTypeOK, CountDown, NoTimer
    <2> USE DEF envVars, askVars, histVars
    <2>6. TypeOK'
      BY <2>1, <2>3, <2>4, <2>5, BrokerTypes
      DEF TypeOK, EnvTypeOK, RecTypeOK, AskTypeOK, WinTypeOK, HistTypeOK
    <2>7. RoutedAreOpen' /\ ClosedForCause' /\ TerminatedOnlyWhenClosing' /\ OpenLinesHeard'
      BY <2>1 DEF BrokerInv, RecordsAgree, RoutedAreOpen, ClosedForCause, TerminatedOnlyWhenClosing,
                  OpenLinesHeard
    <2>8. CountsBounded' /\ InboundGenuine' /\ ExitsGenuine'
      BY <2>1 DEF BrokerInv, CountsBounded, InboundGenuine, ExitsGenuine
    <2>9. DeadlinesArmed' BY <2>1, <2>3, <2>4, <2>5 DEF BrokerInv, DeadlinesArmed
    <2>10. FactsAgree' BY <2>1 DEF BrokerInv, FactsAgree
    <2>11. RunEnded' BY <2>1 DEF BrokerInv, RunEnded
    <2> QED BY <2>6, <2>7, <2>8, <2>9, <2>10, <2>11 DEF BrokerInv, RecordsAgree
  <1> QED BY <1>1, <1>2, <1>3, <1>4, <1>5, <1>6, <1>7, Zenon DEF Environment

-----------------------------------------------------------------------------
(* The steps of the broker's turn. *)

\* The part of the invariant that a step of the broker keeps because of what
\* it may do to records: they only go, each after it was closed; closing is
\* for good; a finished task stays finished; and no process is touched.
RecordsGo ==
    /\ live' \subseteq live
    /\ closing \subseteq closing' /\ failed \subseteq failed' /\ killed \subseteq killed'
    /\ live \ live' \subseteq closing'
    /\ proc' = proc /\ lines' = lines
    /\ \A c \in Conns : reader[c] = "done" => reader'[c] = "done"
    /\ reader' \in [Conns -> TaskState] /\ writer' \in [Conns -> TaskState]

LEMMA RecordsGoKeeps ==
    ASSUME BrokerInv, RecordsGo, inbound' \in {inbound, <<>>}
    PROVE  /\ InboundGenuine'
           /\ notices' \subseteq Conns /\ exits' \subseteq Conns /\ UNCHANGED interrupts => EnvTypeOK'
  <1>1. EnvTypeOK BY BrokerTypes
  <1>2. InboundGenuine'
    <2>1. CASE inbound' = <<>> BY <2>1 DEF InboundGenuine
    <2>2. CASE inbound' = inbound
      <3>1. \A k \in 1..Len(inbound) : inbound[k].conn \in Conns BY <1>1, InboundItems
      <3> QED BY <2>2, <3>1 DEF BrokerInv, InboundGenuine, RecordsGo
    <2> QED BY <2>1, <2>2
  <1>3. inbound' \in Seq([conn : Conns, what : {"line", "eof", "fault"}, n : 0..MaxLines])
    <2> DEFINE Items == [conn : Conns, what : {"line", "eof", "fault"}, n : 0..MaxLines]
    <2>1. inbound \in Seq(Items) BY <1>1 DEF EnvTypeOK
    <2> HIDE DEF Items
    <2>2. <<>> \in Seq(Items) OBVIOUS
    <2>3. inbound' \in Seq(Items) BY <2>1, <2>2, Zenon
    <2> QED BY <2>3 DEF Items
  <1> QED BY <1>1, <1>2, <1>3 DEF EnvTypeOK, RecordsGo

\* What is in the channel, by connection.
LEMMA FromConns ==
    ASSUME BrokerInv, NEW what PROVE From(what) \subseteq Conns
  BY BrokerTypes, InboundItems DEF From

LEMMA EofsEnded ==
    ASSUME BrokerInv, NEW c \in From("eof") PROVE reader[c] = "done"
  BY DEF From, BrokerInv, InboundGenuine

LEMMA LinesOfType ==
    ASSUME BrokerInv, NEW S
    PROVE  /\ LinesOf(S) \subseteq Conns \X (1..MaxLines)
           /\ \A line \in LinesOf(S) : line[1] \in S /\ line[1] \in live \cup closing
           /\ \A line \in LinesOf(Conns) : line[1] \in S => line \in LinesOf(S)
  <1>1. EnvTypeOK BY BrokerTypes
  <1>2. ASSUME NEW line \in LinesOf(S)
        PROVE  line \in Conns \X (1..MaxLines) /\ line[1] \in S /\ line[1] \in live \cup closing
    <2>1. PICK k \in 1..Len(inbound) : /\ inbound[k].what = "line" /\ inbound[k].conn \in S
                                       /\ line = <<inbound[k].conn, inbound[k].n>>
      BY DEF LinesOf
    <2>2. inbound[k].conn \in Conns /\ inbound[k].n \in 0..MaxLines BY <1>1, InboundItems
    <2>3. inbound[k].n # 0 /\ inbound[k].conn \in live \cup closing
      BY <2>1 DEF BrokerInv, InboundGenuine
    <2>4. inbound[k].n \in 1..MaxLines BY <2>2, <2>3, BoundAssumption
    <2> QED BY <2>1, <2>2, <2>3, <2>4
  <1>3. \A line \in LinesOf(Conns) : line[1] \in S => line \in LinesOf(S) BY DEF LinesOf
  <1> QED BY <1>2, <1>3

\* The first fault of a connection is the first thing Lua hears of it.
LEMMA FaultsReported ==
    ASSUME BrokerInv, NEW F, F \subseteq live \ failed, failed' = failed \cup F,
           live' \subseteq live, (live \ live') \cap Watched = {}, spawnFailed' = spawnFailed,
           \A c \in Conns : facts'[c] = IF c \in F THEN Append(facts[c], "transport_failed")
                                        ELSE facts[c]
    PROVE  FactsAgree'
  <1>1. spawnFailed' \subseteq Watched \ (live' \cup failed') BY DEF BrokerInv, FactsAgree
  <1>2. ASSUME NEW c \in Conns
        PROVE  LET faults == IF c \in failed' THEN <<"transport_failed">> ELSE <<>>
               IN  /\ c \in spawnFailed => facts'[c] = <<>>
                   /\ c \in live' \/ c \notin Watched => facts'[c] = faults
                   /\ c \in Watched \ (live' \cup spawnFailed) =>
                         \E fact \in ProcessFacts : facts'[c] = Append(faults, fact)
    <2>1. CASE c \in F
      <3>1. c \in live /\ c \notin failed BY <2>1
      <3>2. facts[c] = <<>> BY <3>1 DEF BrokerInv, FactsAgree
      <3>3. facts'[c] = <<"transport_failed">>
        <4>1. facts'[c] = Append(<<>>, "transport_failed") BY <2>1, <3>2
        <4> QED BY <4>1, Singles, Zenon
      <3>4. c \notin spawnFailed /\ (c \in Watched => c \in live') BY <3>1 DEF BrokerInv, FactsAgree
      <3> QED BY <2>1, <3>3, <3>4
    <2>2. CASE c \notin F
      <3>1. facts'[c] = facts[c] /\ (c \in failed' <=> c \in failed) BY <2>2
      <3> QED BY <3>1 DEF BrokerInv, FactsAgree
    <2> QED BY <2>1, <2>2
  <1> QED BY <1>1, <1>2 DEF FactsAgree

LEMMA InboundTickKeeps ==
    ASSUME BrokerInv, HandleInboundTick, UNCHANGED winVars,
           pc # "ended", pc' \in Stages, pc' # "ended"
    PROVE  BrokerInv'
  <1> DEFINE eofs == (From("eof") \cap live) \ closing
             faults == FirstFault(From("fault"))
             gone == TransportOnly(From("eof") \cap live)
             given == LinesOf(live \ closing)
  <1>1. /\ inbound' = <<>> /\ heard' = heard \cup given
        /\ dropped' = dropped \cup (LinesOf(Conns) \ given)
        /\ failed' = failed \cup faults /\ closing' = closing \cup eofs \cup faults
        /\ timer' = Arm(eofs \cup faults) /\ routing' = routing \ (eofs \cup faults)
        /\ reader' = Cancel(reader, faults \cup gone) /\ writer' = Cancel(writer, faults \cup gone)
        /\ facts' = Report(faults, "transport_failed")
        /\ closedBy' = [c \in Conns |-> IF c \in faults THEN Blame(faults, "fault")[c]
                                        ELSE Blame(eofs, "eof")[c]]
        /\ live' = live \ (gone \cup TransportOnly(faults))
        /\ LuaIdle \/ LuaRuns
        /\ UNCHANGED <<proc, lines, notices, exits, interrupts, pendingExit, killed,
                       spawnFailed>>
    BY DEF HandleInboundTick
  <1>2. /\ EnvTypeOK /\ RecTypeOK /\ AskTypeOK /\ WinTypeOK /\ HistTypeOK /\ CountsBounded
        /\ RoutedAreOpen /\ ClosedForCause /\ TerminatedOnlyWhenClosing /\ OpenLinesHeard
    BY BrokerTypes DEF BrokerInv, RecordsAgree
  <1>3. /\ eofs \subseteq live /\ eofs \cap closing = {} /\ faults \subseteq live \ failed
        /\ gone \subseteq live \ Watched /\ gone \subseteq eofs \cup closing
        /\ \A c \in eofs : reader[c] = "done"
        /\ TransportOnly(faults) = faults \ Watched
    BY EofsEnded DEF FirstFault, TransportOnly
  <1>4. /\ given \subseteq Conns \X (1..MaxLines) /\ LinesOf(Conns) \subseteq Conns \X (1..MaxLines)
        /\ \A line \in LinesOf(Conns) \ given : line[1] \in closing
    <2>1. \A line \in LinesOf(Conns) : line[1] \in live \cup closing BY LinesOfType
    <2>2. \A line \in LinesOf(Conns) : line[1] \in live \ closing => line \in given BY LinesOfType
    <2>3. given \subseteq Conns \X (1..MaxLines) /\ LinesOf(Conns) \subseteq Conns \X (1..MaxLines)
      BY LinesOfType
    <2> QED BY <2>1, <2>2, <2>3
  <1> HIDE DEF eofs, faults, gone, given
  <1>5. live \subseteq Conns /\ closing \subseteq Conns BY <1>2 DEF RecTypeOK
  <1>6. /\ timer' \in [Conns -> {NoTimer} \cup 0..CloseGrace]
        /\ \A c \in Conns : timer'[c] = IF c \in eofs \cup faults THEN CloseGrace ELSE timer[c]
    BY <1>1, <1>2, ArmType
  <1>7. /\ facts' \in [Conns -> Seq({"transport_failed"} \cup ProcessFacts)]
        /\ \A c \in Conns : facts'[c] = IF c \in faults THEN Append(facts[c], "transport_failed")
                                        ELSE facts[c]
    BY <1>1, <1>2, ReportType
  <1>8. /\ closedBy' \in [Conns -> Causes]
        /\ \A c \in Conns : closedBy'[c] = IF closedBy[c] # "open" THEN closedBy[c]
                                           ELSE IF c \in faults THEN "fault"
                                           ELSE IF c \in eofs THEN "eof" ELSE "open"
    <2>1. "fault" \in Causes /\ "eof" \in Causes BY DEF Causes
    <2> QED BY <1>1, <1>2, <2>1, BlameType
  <1>9. RecordsGo
    <2>1. reader \in [Conns -> TaskState] /\ writer \in [Conns -> TaskState]
      BY <1>2 DEF EnvTypeOK
    <2> QED BY <1>1, <1>3, <2>1, CancelType DEF RecordsGo
  <1>10. EnvTypeOK' /\ InboundGenuine' BY <1>1, <1>2, <1>9, RecordsGoKeeps DEF EnvTypeOK
  <1>11. AskTypeOK' /\ CountsBounded' BY <1>1, <1>2, LuaType DEF CountsBounded
  <1>12. RecTypeOK' BY <1>1, <1>2, <1>3, <1>6, <1>7 DEF RecTypeOK
  <1>13. WinTypeOK' BY <1>2 DEF WinTypeOK, winVars
  <1>14. HistTypeOK' BY <1>1, <1>2, <1>4, <1>8 DEF HistTypeOK
  <1>15. RoutedAreOpen' BY <1>1, <1>2, <1>3 DEF RoutedAreOpen
  <1>16. ClosedForCause'
    <2>1. /\ closing' = closing \cup eofs \cup faults /\ failed' = failed \cup faults
          /\ proc' = proc /\ grace' = grace
          /\ \A c \in Conns : reader[c] = "done" => reader'[c] = "done"
      BY <1>1, <1>9 DEF RecordsGo, winVars
    <2> QED BY <1>2, <1>3, <1>8, <2>1 DEF ClosedForCause
  <1>17. TerminatedOnlyWhenClosing' BY <1>1, <1>2 DEF TerminatedOnlyWhenClosing, winVars
  <1>18. OpenLinesHeard'
    BY <1>1, <1>2, <1>4, <1>5, <1>8 DEF OpenLinesHeard, ClosedForCause, HistTypeOK
  <1>19. ExitsGenuine' BY <1>1, <1>3, <1>9 DEF BrokerInv, ExitsGenuine, RecordsGo
  <1>20. DeadlinesArmed' BY <1>1, <1>6, <1>9 DEF BrokerInv, DeadlinesArmed, RecordsGo, winVars
  <1>21. FactsAgree'
    <2>1. live' \subseteq live /\ (live \ live') \cap Watched = {} BY <1>1, <1>3
    <2> QED BY <1>1, <1>3, <1>7, <2>1, FaultsReported
  <1>22. RunEnded' BY DEF BrokerInv, RunEnded, winVars
  <1> QED BY <1>10, <1>11, <1>12, <1>13, <1>14, <1>15, <1>16, <1>17, <1>18, <1>19, <1>20, <1>21,
             <1>22 DEF BrokerInv, RecordsAgree, TypeOK
LEMMA TransportFailedKeeps ==
    ASSUME BrokerInv, NEW S, S \subseteq Conns, TransportFailed(S),
           notices' \subseteq Conns, pc # "ended", pc' \in Stages, pc' # "ended",
           UNCHANGED <<proc, lines, inbound, exits, interrupts, pendingExit, killed,
                       spawnFailed, winVars, heard, dropped>>
    PROVE  BrokerInv'
  <1> DEFINE F == FirstFault(S)
  <1>1. /\ failed' = failed \cup F /\ closing' = closing \cup F /\ timer' = Arm(F)
        /\ reader' = Cancel(reader, F) /\ writer' = Cancel(writer, F) /\ routing' = routing \ F
        /\ facts' = Report(F, "transport_failed") /\ closedBy' = Blame(F, "fault")
        /\ live' = live \ (F \ Watched)
        /\ LuaIdle \/ LuaRuns
    BY DEF TransportFailed, TransportOnly
  <1>2. /\ EnvTypeOK /\ RecTypeOK /\ AskTypeOK /\ WinTypeOK /\ HistTypeOK /\ CountsBounded
        /\ RoutedAreOpen /\ ClosedForCause /\ TerminatedOnlyWhenClosing /\ OpenLinesHeard
    BY BrokerTypes DEF BrokerInv, RecordsAgree
  <1>3. F \subseteq live \ failed BY DEF FirstFault
  <1> HIDE DEF F
  <1>4. live \subseteq Conns BY <1>2 DEF RecTypeOK
  <1>5. /\ timer' \in [Conns -> {NoTimer} \cup 0..CloseGrace]
        /\ \A c \in Conns : timer'[c] = IF c \in F THEN CloseGrace ELSE timer[c]
    BY <1>1, <1>2, ArmType
  <1>6. /\ facts' \in [Conns -> Seq({"transport_failed"} \cup ProcessFacts)]
        /\ \A c \in Conns : facts'[c] = IF c \in F THEN Append(facts[c], "transport_failed")
                                        ELSE facts[c]
    BY <1>1, <1>2, ReportType
  <1>7. /\ closedBy' \in [Conns -> Causes]
        /\ \A c \in Conns : closedBy'[c] = IF c \in F /\ closedBy[c] = "open" THEN "fault"
                                           ELSE closedBy[c]
    <2>1. "fault" \in Causes BY DEF Causes
    <2> QED BY <1>1, <1>2, <2>1, BlameType
  <1>8. RecordsGo
    <2>1. reader \in [Conns -> TaskState] /\ writer \in [Conns -> TaskState]
      BY <1>2 DEF EnvTypeOK
    <2> QED BY <1>1, <1>3, <2>1, CancelType DEF RecordsGo
  <1>9. EnvTypeOK' /\ InboundGenuine' BY <1>2, <1>8, RecordsGoKeeps DEF EnvTypeOK
  <1>10. AskTypeOK' /\ CountsBounded' BY <1>1, <1>2, LuaType DEF CountsBounded
  <1>11. RecTypeOK' BY <1>1, <1>2, <1>3, <1>5, <1>6 DEF RecTypeOK
  <1>12. WinTypeOK' /\ HistTypeOK' BY <1>2, <1>7 DEF WinTypeOK, HistTypeOK, winVars
  <1>13. RoutedAreOpen' BY <1>1, <1>2, <1>3 DEF RoutedAreOpen
  <1>14. ClosedForCause'
    <2>1. /\ closing' = closing \cup F /\ failed' = failed \cup F /\ proc' = proc /\ grace' = grace
          /\ \A c \in Conns : reader[c] = "done" => reader'[c] = "done"
      BY <1>1, <1>8 DEF RecordsGo, winVars
    <2> QED BY <1>2, <1>3, <1>7, <2>1 DEF ClosedForCause
  <1>15. TerminatedOnlyWhenClosing' BY <1>1, <1>2 DEF TerminatedOnlyWhenClosing, winVars
  <1>16. OpenLinesHeard' BY <1>2, <1>7 DEF OpenLinesHeard, HistTypeOK
  <1>17. ExitsGenuine' BY <1>1, <1>8 DEF BrokerInv, ExitsGenuine, RecordsGo
  <1>18. DeadlinesArmed' BY <1>1, <1>5, <1>8 DEF BrokerInv, DeadlinesArmed, RecordsGo, winVars
  <1>19. FactsAgree'
    <2>1. live' \subseteq live /\ (live \ live') \cap Watched = {} BY <1>1
    <2> QED BY <1>1, <1>3, <1>6, <2>1, FaultsReported
  <1>20. RunEnded' BY DEF BrokerInv, RunEnded, winVars
  <1> QED BY <1>9, <1>10, <1>11, <1>12, <1>13, <1>14, <1>15, <1>16, <1>17, <1>18, <1>19, <1>20
          DEF BrokerInv, RecordsAgree, TypeOK

\* The parts that a step keeps which closes nothing and tells Lua nothing.
LEMMA NothingClosed ==
    ASSUME BrokerInv, RecordsGo, notices' = notices, exits' = exits, interrupts' = interrupts,
           inbound' = inbound, pendingExit' = pendingExit, closing' = closing, failed' = failed,
           histVars' = histVars, routing' = live' \ closing',
           grace # NoTimer => grace' = grace
    PROVE  /\ EnvTypeOK' /\ InboundGenuine' /\ HistTypeOK'
           /\ RoutedAreOpen' /\ ClosedForCause' /\ OpenLinesHeard'
  <1>1. EnvTypeOK /\ HistTypeOK BY BrokerTypes
  <1>2. EnvTypeOK' /\ InboundGenuine' BY <1>1, RecordsGoKeeps DEF EnvTypeOK
  <1>3. HistTypeOK' BY <1>1 DEF HistTypeOK, histVars
  <1>4. RoutedAreOpen' BY DEF RoutedAreOpen
  <1>5. ClosedForCause' BY DEF BrokerInv, RecordsAgree, ClosedForCause, RecordsGo, histVars
  <1>6. OpenLinesHeard' BY DEF BrokerInv, RecordsAgree, OpenLinesHeard, histVars
  <1> QED BY <1>2, <1>3, <1>4, <1>5, <1>6
LEMMA ObserveKeeps ==
    ASSUME BrokerInv, ObserveDeadlines PROVE BrokerInv'
  <1>1. /\ pc = "observe" /\ pc' = "account"
        /\ timer' = [c \in Conns |-> IF c \in Due THEN NoTimer ELSE timer[c]]
        /\ reader' = Cancel(reader, Due) /\ writer' = Cancel(writer, Due)
        /\ killed' = killed \cup (Due \cap Watched)
        /\ live' = live \ (Due \ Watched)
        /\ UNCHANGED <<proc, lines, inbound, notices, exits, interrupts, closing,
                       failed, pendingExit, routing, spawnFailed, facts, askVars,
                       winVars, histVars>>
    BY DEF ObserveDeadlines, TransportOnly
  <1>2. /\ EnvTypeOK /\ RecTypeOK /\ AskTypeOK /\ WinTypeOK /\ CountsBounded
        /\ RoutedAreOpen /\ TerminatedOnlyWhenClosing
    BY BrokerTypes DEF BrokerInv, RecordsAgree
  <1>3. Due \subseteq live /\ Due \subseteq closing
    <2>1. \A c \in Conns : timer[c] # NoTimer => c \in closing BY DEF BrokerInv, DeadlinesArmed
    <2>2. \A c \in Due : timer[c] # NoTimer BY DEF Due, NoTimer
    <2>3. Due \subseteq live /\ live \subseteq Conns BY <1>2 DEF Due, RecTypeOK
    <2> QED BY <2>1, <2>2, <2>3
  <1>4. RecordsGo
    <2>1. reader \in [Conns -> TaskState] /\ writer \in [Conns -> TaskState]
      BY <1>2 DEF EnvTypeOK
    <2> QED BY <1>1, <1>3, <2>1, CancelType DEF RecordsGo
  <1>5. routing' = live' \ closing' BY <1>1, <1>2, <1>3 DEF RoutedAreOpen
  <1>6. /\ EnvTypeOK' /\ InboundGenuine' /\ HistTypeOK'
        /\ RoutedAreOpen' /\ ClosedForCause' /\ OpenLinesHeard'
    BY <1>1, <1>4, <1>5, NothingClosed DEF winVars
  <1>7. RecTypeOK' BY <1>1, <1>2 DEF RecTypeOK, Due
  <1>8. AskTypeOK' /\ CountsBounded' /\ WinTypeOK'
    BY <1>1, <1>2 DEF AskTypeOK, CountsBounded, WinTypeOK, askVars, winVars, Stages
  <1>9. TerminatedOnlyWhenClosing'
    BY <1>1, <1>2, <1>3 DEF TerminatedOnlyWhenClosing, winVars
  <1>10. ExitsGenuine' BY <1>1, <1>4 DEF BrokerInv, ExitsGenuine, RecordsGo
  <1>11. DeadlinesArmed' BY <1>1, <1>4 DEF BrokerInv, DeadlinesArmed, RecordsGo, winVars
  <1>12. FactsAgree'
    <2>1. live' \subseteq live /\ (live \ live') \cap Watched = {} BY <1>1
    <2>2. failed' = failed \cup {} /\ \A c \in Conns : facts'[c] = facts[c] BY <1>1
    <2> QED BY <1>1, <2>1, <2>2, FaultsReported
  <1>13. RunEnded' BY <1>1 DEF BrokerInv, RunEnded, winVars
  <1> QED BY <1>6, <1>7, <1>8, <1>9, <1>10, <1>11, <1>12, <1>13 DEF BrokerInv, RecordsAgree, TypeOK

\* The records of processes that go leave one process fact behind.
LEMMA ProcessFactReported ==
    ASSUME BrokerInv, NEW G, G \subseteq live \cap Watched, live' = live \ G, failed' = failed,
           spawnFailed' = spawnFailed, NEW fact \in ProcessFacts,
           \A c \in Conns : facts'[c] = IF c \in G THEN Append(facts[c], fact) ELSE facts[c]
    PROVE  FactsAgree'
  <1>1. spawnFailed' \subseteq Watched \ (live' \cup failed') BY DEF BrokerInv, FactsAgree
  <1>2. ASSUME NEW c \in Conns
        PROVE  LET faults == IF c \in failed' THEN <<"transport_failed">> ELSE <<>>
               IN  /\ c \in spawnFailed => facts'[c] = <<>>
                   /\ c \in live' \/ c \notin Watched => facts'[c] = faults
                   /\ c \in Watched \ (live' \cup spawnFailed) =>
                         \E f \in ProcessFacts : facts'[c] = Append(faults, f)
    <2>1. CASE c \in G
      <3> DEFINE faults == IF c \in failed' THEN <<"transport_failed">> ELSE <<>>
      <3>1. facts[c] = faults BY <2>1 DEF BrokerInv, FactsAgree
      <3>2. c \in Watched /\ c \notin live' /\ c \notin spawnFailed
        BY <2>1 DEF BrokerInv, FactsAgree
      <3>3. facts'[c] = Append(faults, fact) BY <2>1, <3>1
      <3> HIDE DEF faults
      <3>4. \E f \in ProcessFacts : facts'[c] = Append(faults, f) BY <3>3
      <3> QED BY <3>2, <3>4 DEF faults
    <2>2. CASE c \notin G
      <3>1. facts'[c] = facts[c] /\ (c \in live' <=> c \in live) BY <2>2
      <3> QED BY <3>1 DEF BrokerInv, FactsAgree
    <2> QED BY <2>1, <2>2
  <1> QED BY <1>1, <1>2 DEF FactsAgree

LEMMA AccountKeeps ==
    ASSUME BrokerInv, AccountFinishedExits PROVE BrokerInv'
  <1> DEFINE ready == {c \in live \cap pendingExit : reader[c] = "done" /\ writer[c] = "done"}
  <1>1. /\ pc = "account" /\ pc' = "drain"
        /\ live' = live \ ready /\ routing' = routing \ ready
        /\ facts' = Report(ready, "exited")
        /\ LuaIdle \/ LuaRuns
        /\ UNCHANGED <<envVars, closing, failed, pendingExit, timer, killed,
                       spawnFailed, winVars, histVars>>
    BY DEF AccountFinishedExits
  <1>2. /\ EnvTypeOK /\ RecTypeOK /\ AskTypeOK /\ WinTypeOK /\ CountsBounded
        /\ RoutedAreOpen /\ TerminatedOnlyWhenClosing
    BY BrokerTypes DEF BrokerInv, RecordsAgree
  <1>3. ready \subseteq live \cap pendingExit OBVIOUS
  <1> HIDE DEF ready
  <1>4. ready \subseteq closing /\ \A c \in ready : proc[c] = "down"
    BY <1>3 DEF BrokerInv, ExitsGenuine
  <1>5. ready \subseteq live \cap Watched
    <2>1. live \subseteq Conns BY <1>2 DEF RecTypeOK
    <2> QED BY <1>3, <1>4, <2>1 DEF BrokerInv, ExitsGenuine
  <1>6. RecordsGo
    <2>1. reader \in [Conns -> TaskState] /\ writer \in [Conns -> TaskState]
      BY <1>2 DEF EnvTypeOK
    <2> QED BY <1>1, <1>4, <2>1 DEF RecordsGo, envVars
  <1>7. routing' = live' \ closing' BY <1>1, <1>2 DEF RoutedAreOpen
  <1>8. /\ EnvTypeOK' /\ InboundGenuine' /\ HistTypeOK'
        /\ RoutedAreOpen' /\ ClosedForCause' /\ OpenLinesHeard'
    BY <1>1, <1>6, <1>7, NothingClosed DEF winVars, envVars
  <1>9. /\ facts' \in [Conns -> Seq({"transport_failed"} \cup ProcessFacts)]
        /\ \A c \in Conns : facts'[c] = IF c \in ready THEN Append(facts[c], "exited")
                                        ELSE facts[c]
        /\ "exited" \in ProcessFacts
    <2>1. "exited" \in ProcessFacts BY DEF ProcessFacts
    <2> QED BY <1>1, <1>2, <2>1, ReportType
  <1>10. RecTypeOK' BY <1>1, <1>2, <1>9 DEF RecTypeOK
  <1>11. AskTypeOK' /\ CountsBounded' /\ WinTypeOK'
    BY <1>1, <1>2, LuaType DEF CountsBounded, WinTypeOK, envVars, winVars, Stages
  <1>12. TerminatedOnlyWhenClosing'
    BY <1>1, <1>2 DEF TerminatedOnlyWhenClosing, winVars, envVars
  <1>13. ExitsGenuine' BY <1>1, <1>4 DEF BrokerInv, ExitsGenuine, envVars
  <1>14. DeadlinesArmed' BY <1>1 DEF BrokerInv, DeadlinesArmed, winVars
  <1>15. FactsAgree' BY <1>1, <1>5, <1>9, ProcessFactReported
  <1>16. RunEnded' BY <1>1 DEF BrokerInv, RunEnded, winVars
  <1> QED BY <1>8, <1>10, <1>11, <1>12, <1>13, <1>14, <1>15, <1>16 DEF BrokerInv, RecordsAgree, TypeOK

LEMMA DrainKeeps ==
    ASSUME BrokerInv, DrainEngineEnvelopes PROVE BrokerInv'
  <1>1. /\ pc = "drain" /\ pc' = "deadline"
        /\ spawnFailed' = {} /\ facts' = Report(spawnFailed, "spawn_failure")
        /\ LuaIdle \/ LuaRuns
        /\ UNCHANGED <<envVars, recVars, winVars, histVars>>
    BY DEF DrainEngineEnvelopes
  <1>2. /\ EnvTypeOK /\ RecTypeOK /\ AskTypeOK /\ WinTypeOK /\ CountsBounded
        /\ RoutedAreOpen /\ TerminatedOnlyWhenClosing
    BY BrokerTypes DEF BrokerInv, RecordsAgree
  <1>3. RecordsGo
    BY <1>1, <1>2 DEF RecordsGo, EnvTypeOK, envVars, recVars
  <1>4. /\ EnvTypeOK' /\ InboundGenuine' /\ HistTypeOK'
        /\ RoutedAreOpen' /\ ClosedForCause' /\ OpenLinesHeard'
    <2>1. routing' = live' \ closing' BY <1>1, <1>2 DEF RoutedAreOpen, recVars
    <2> QED BY <1>1, <1>3, <2>1, NothingClosed DEF winVars, envVars, recVars
  <1>5. /\ facts' \in [Conns -> Seq({"transport_failed"} \cup ProcessFacts)]
        /\ \A c \in Conns : facts'[c] = IF c \in spawnFailed THEN Append(facts[c], "spawn_failure")
                                        ELSE facts[c]
        /\ "spawn_failure" \in ProcessFacts
    <2>1. "spawn_failure" \in ProcessFacts BY DEF ProcessFacts
    <2> QED BY <1>1, <1>2, <2>1, ReportType
  <1>6. RecTypeOK' BY <1>1, <1>2, <1>5 DEF RecTypeOK, recVars
  <1>7. AskTypeOK' /\ CountsBounded' /\ WinTypeOK'
    BY <1>1, <1>2, LuaType DEF CountsBounded, WinTypeOK, envVars, winVars, Stages
  <1>8. TerminatedOnlyWhenClosing'
    BY <1>1, <1>2 DEF TerminatedOnlyWhenClosing, winVars, envVars, recVars
  <1>9. ExitsGenuine' BY <1>1 DEF BrokerInv, ExitsGenuine, envVars, recVars
  <1>10. DeadlinesArmed' BY <1>1 DEF BrokerInv, DeadlinesArmed, winVars, recVars
  <1>11. FactsAgree'
    <2>1. live' = live /\ failed' = failed BY <1>1 DEF recVars
    <2>2. ASSUME NEW c \in spawnFailed, c \in Conns
          PROVE  /\ c \in Watched \ live
                 /\ facts'[c] = Append(IF c \in failed THEN <<"transport_failed">> ELSE <<>>, "spawn_failure")
      <3>1. c \in Watched \ live BY DEF BrokerInv, FactsAgree
      <3>2. facts[c] = <<>> BY <2>2 DEF BrokerInv, FactsAgree
      <3>3. c \notin failed BY DEF BrokerInv, FactsAgree
      <3> QED BY <1>5, <2>2, <3>1, <3>2, <3>3
    <2> QED BY <1>1, <1>5, <2>1, <2>2 DEF BrokerInv, FactsAgree
  <1>12. RunEnded' BY <1>1 DEF BrokerInv, RunEnded, winVars
  <1> QED BY <1>4, <1>6, <1>7, <1>8, <1>9, <1>10, <1>11, <1>12 DEF BrokerInv, RecordsAgree, TypeOK
\* When the shutdown deadline has passed, every record is closing, so that
\* what is told to end is being closed already.
LEMMA ForceTerminateKeeps ==
    ASSUME BrokerInv, ForceTerminateAll PROVE BrokerInv'
  <1>1. /\ pc = "deadline" /\ pc' = "check" /\ shutTimer = 0
        /\ killed' = killed \cup (live \cap Watched)
        /\ reader' = Cancel(reader, live) /\ writer' = Cancel(writer, live)
        /\ routing' = routing \ (live \ Watched) /\ live' = live \ (live \ Watched)
        /\ shutTimer' = NoTimer /\ forcedTimer' = ForcedGrace
        /\ UNCHANGED <<proc, lines, inbound, notices, exits, interrupts, closing, failed,
                       pendingExit, timer, spawnFailed, facts, askVars, grace, stop, histVars>>
    BY DEF ForceTerminateAll, ForcedWait, TransportOnly
  <1>2. /\ EnvTypeOK /\ RecTypeOK /\ AskTypeOK /\ WinTypeOK /\ CountsBounded
        /\ RoutedAreOpen /\ TerminatedOnlyWhenClosing
    BY BrokerTypes DEF BrokerInv, RecordsAgree
  <1>3. grace # NoTimer /\ live \subseteq closing
    <2>1. shutTimer # NoTimer BY <1>1 DEF NoTimer
    <2> QED BY <2>1 DEF BrokerInv, DeadlinesArmed
  <1>4. RecordsGo
    <2>1. reader \in [Conns -> TaskState] /\ writer \in [Conns -> TaskState]
      BY <1>2 DEF EnvTypeOK
    <2> QED BY <1>1, <1>3, <2>1, CancelType DEF RecordsGo
  <1>5. /\ EnvTypeOK' /\ InboundGenuine' /\ HistTypeOK'
        /\ RoutedAreOpen' /\ ClosedForCause' /\ OpenLinesHeard'
    <2>1. routing' = live' \ closing' BY <1>1, <1>2, <1>3 DEF RoutedAreOpen
    <2> QED BY <1>1, <1>4, <2>1, NothingClosed
  <1>6. RecTypeOK' BY <1>1, <1>2 DEF RecTypeOK
  <1>7. AskTypeOK' /\ CountsBounded' BY <1>1, <1>2 DEF AskTypeOK, CountsBounded, askVars
  <1>8. WinTypeOK' BY <1>1, <1>2, GraceAssumption DEF WinTypeOK, Stages, NoTimer
  <1>9. TerminatedOnlyWhenClosing' BY <1>1, <1>2, <1>3 DEF TerminatedOnlyWhenClosing
  <1>10. ExitsGenuine' BY <1>1 DEF BrokerInv, ExitsGenuine
  <1>11. DeadlinesArmed' BY <1>1, <1>3 DEF BrokerInv, DeadlinesArmed
  <1>12. FactsAgree'
    <2>1. live' \subseteq live /\ (live \ live') \cap Watched = {} BY <1>1
    <2>2. failed' = failed \cup {} /\ \A c \in Conns : facts'[c] = facts[c] BY <1>1
    <2> QED BY <1>1, <2>1, <2>2, FaultsReported
  <1>13. RunEnded' BY <1>1 DEF BrokerInv, RunEnded
  <1> QED BY <1>5, <1>6, <1>7, <1>8, <1>9, <1>10, <1>11, <1>12, <1>13
          DEF BrokerInv, RecordsAgree, TypeOK

\* What has not exited by the end of the last wait was told to end.
LEMMA UnreapedKeeps ==
    ASSUME BrokerInv, AccountUnreaped PROVE BrokerInv'
  <1>1. /\ pc = "deadline" /\ pc' = "ended" /\ stop' = "Shutdown" /\ forcedTimer = 0
        /\ facts' = Report(live, "unknown") /\ routing' = routing \ live /\ live' = {}
        /\ LuaIdle \/ LuaRuns
        /\ UNCHANGED <<envVars, closing, failed, pendingExit, timer, killed, spawnFailed,
                       grace, shutTimer, forcedTimer, histVars>>
    BY DEF AccountUnreaped
  <1>2. /\ EnvTypeOK /\ RecTypeOK /\ AskTypeOK /\ WinTypeOK /\ CountsBounded
        /\ RoutedAreOpen /\ TerminatedOnlyWhenClosing
    BY BrokerTypes DEF BrokerInv, RecordsAgree
  <1>3. live \subseteq killed /\ killed \subseteq closing \cap Watched
    <2>1. forcedTimer # NoTimer BY <1>1 DEF NoTimer
    <2> QED BY <1>2, <2>1 DEF BrokerInv, DeadlinesArmed, TerminatedOnlyWhenClosing
  <1>4. RecordsGo BY <1>1, <1>2, <1>3 DEF RecordsGo, EnvTypeOK, envVars
  <1>5. /\ EnvTypeOK' /\ InboundGenuine' /\ HistTypeOK'
        /\ RoutedAreOpen' /\ ClosedForCause' /\ OpenLinesHeard'
    <2>1. routing' = live' \ closing' BY <1>1, <1>2 DEF RoutedAreOpen
    <2> QED BY <1>1, <1>4, <2>1, NothingClosed DEF envVars
  <1>6. /\ facts' \in [Conns -> Seq({"transport_failed"} \cup ProcessFacts)]
        /\ \A c \in Conns : facts'[c] = IF c \in live THEN Append(facts[c], "unknown") ELSE facts[c]
        /\ "unknown" \in ProcessFacts
    <2>1. "unknown" \in ProcessFacts BY DEF ProcessFacts
    <2> QED BY <1>1, <1>2, <2>1, ReportType
  <1>7. RecTypeOK' BY <1>1, <1>2, <1>6 DEF RecTypeOK
  <1>8. AskTypeOK' /\ CountsBounded' /\ WinTypeOK'
    BY <1>1, <1>2, LuaType DEF CountsBounded, WinTypeOK, envVars, Stages
  <1>9. TerminatedOnlyWhenClosing'
    BY <1>1, <1>2, <1>3 DEF TerminatedOnlyWhenClosing, BrokerInv, ExitsGenuine, envVars
  <1>10. ExitsGenuine' BY <1>1, <1>3 DEF BrokerInv, ExitsGenuine, envVars
  <1>11. DeadlinesArmed' BY <1>1 DEF BrokerInv, DeadlinesArmed
  <1>12. FactsAgree'
    <2>1. live \subseteq live \cap Watched /\ live' = live \ live BY <1>1, <1>3
    <2> QED BY <1>1, <1>6, <2>1, ProcessFactReported
  <1>13. RunEnded' BY <1>1 DEF RunEnded
  <1> QED BY <1>5, <1>7, <1>8, <1>9, <1>10, <1>11, <1>12, <1>13 DEF BrokerInv, RecordsAgree, TypeOK

\* A close on the exit of process c, or of everything at the start of the
\* shutdown window.
LEMMA ForceCloseKeeps ==
    ASSUME BrokerInv, NEW S, S \subseteq Conns, NEW cause \in {"exit", "shutdown"},
           ForceClose(S, cause), UNCHANGED <<proc, reader, writer, lines, inbound, notices>>,
           UNCHANGED <<interrupts, live, failed, killed, spawnFailed, facts, stop, heard, dropped>>,
           exits' \subseteq exits, pendingExit' \subseteq pendingExit \cup exits,
           pendingExit' \subseteq closing', AskTypeOK', CountsBounded',
           pc # "ended", pc' \in Stages, pc' # "ended",
           grace' \in {NoTimer} \cup Graces, shutTimer' \in Int, UNCHANGED forcedTimer,
           grace' = NoTimer => grace = NoTimer /\ shutTimer' = shutTimer,
           grace' # NoTimer => live \subseteq closing',
           cause = "exit" => \A c \in S : proc[c] = "down",
           cause = "shutdown" => grace = NoTimer /\ grace' # NoTimer
    PROVE  BrokerInv'
  <1> DEFINE fresh == (S \cap live) \ closing
  <1>1. /\ closing' = closing \cup fresh /\ timer' = Arm(fresh) /\ routing' = routing \ fresh
        /\ closedBy' = Blame(fresh, cause)
    BY DEF ForceClose
  <1>2. /\ EnvTypeOK /\ RecTypeOK /\ AskTypeOK /\ WinTypeOK /\ HistTypeOK /\ CountsBounded
        /\ RoutedAreOpen /\ ClosedForCause /\ TerminatedOnlyWhenClosing /\ OpenLinesHeard
    BY BrokerTypes DEF BrokerInv, RecordsAgree
  <1>3. fresh \subseteq (S \cap live) \ closing OBVIOUS
  <1> HIDE DEF fresh
  <1>4. /\ timer' \in [Conns -> {NoTimer} \cup 0..CloseGrace]
        /\ \A c \in Conns : timer'[c] = IF c \in fresh THEN CloseGrace ELSE timer[c]
    BY <1>1, <1>2, ArmType
  <1>5. /\ closedBy' \in [Conns -> Causes]
        /\ \A c \in Conns : closedBy'[c] = IF c \in fresh /\ closedBy[c] = "open" THEN cause
                                           ELSE closedBy[c]
    <2>1. cause \in Causes BY DEF Causes
    <2> QED BY <1>1, <1>2, <2>1, BlameType
  <1>6. RecordsGo BY <1>1, <1>2 DEF RecordsGo, EnvTypeOK
  <1>7. EnvTypeOK' /\ InboundGenuine'
    <2>1. notices' \subseteq Conns /\ exits' \subseteq Conns BY <1>2 DEF EnvTypeOK
    <2> QED BY <1>6, <2>1, RecordsGoKeeps
  <1>8. RecTypeOK'
    BY <1>1, <1>2, <1>3, <1>4 DEF RecTypeOK, EnvTypeOK
  <1>9. WinTypeOK' BY <1>2 DEF WinTypeOK
  <1>10. HistTypeOK' BY <1>2, <1>5 DEF HistTypeOK
  <1>11. RoutedAreOpen' BY <1>1, <1>2 DEF RoutedAreOpen
  <1>12. ClosedForCause'
    <2>1. \A c \in Conns : c \in fresh => c \in S /\ c \in live /\ closedBy[c] = "open"
      BY <1>2, <1>3 DEF ClosedForCause
    <2>2. \A c \in Conns : closedBy[c] = "shutdown" => grace' # NoTimer
      BY <1>2 DEF ClosedForCause
    <2>3. \A c \in Conns : c \in closing' <=> c \in closing \/ c \in fresh BY <1>1
    <2> QED BY <1>2, <1>5, <2>1, <2>2, <2>3 DEF ClosedForCause
  <1>13. TerminatedOnlyWhenClosing'
    BY <1>1, <1>2 DEF TerminatedOnlyWhenClosing
  <1>14. OpenLinesHeard' BY <1>2, <1>5 DEF OpenLinesHeard, HistTypeOK
  <1>15. ExitsGenuine' BY DEF BrokerInv, ExitsGenuine
  <1>16. DeadlinesArmed'
    <2>1. \A c \in Conns : timer'[c] # NoTimer => c \in closing'
      BY <1>1, <1>4 DEF BrokerInv, DeadlinesArmed
    <2> QED BY <2>1 DEF BrokerInv, DeadlinesArmed
  <1>17. FactsAgree' BY DEF BrokerInv, FactsAgree
  <1>18. RunEnded' BY DEF BrokerInv, RunEnded
  <1> QED BY <1>7, <1>8, <1>9, <1>10, <1>11, <1>12, <1>13, <1>14, <1>15, <1>16, <1>17, <1>18
          DEF BrokerInv, RecordsAgree, TypeOK
\* A step in which only Lua runs, or nothing but the turn goes on.
LEMMA OnlyLua ==
    ASSUME BrokerInv, LuaIdle \/ LuaRuns, UNCHANGED <<envVars, recVars, spawnFailed, facts>>,
           UNCHANGED <<winVars, histVars>>, pc # "ended", pc' \in Stages, pc' # "ended"
    PROVE  BrokerInv'
  <1>1. EnvTypeOK /\ WinTypeOK /\ AskTypeOK /\ CountsBounded BY BrokerTypes
  <1>2. AskTypeOK' /\ CountsBounded' BY <1>1, LuaType DEF CountsBounded, envVars
  <1>3. RunEnded' /\ TerminatedOnlyWhenClosing'
    BY DEF BrokerInv, RecordsAgree, RunEnded, TerminatedOnlyWhenClosing, envVars, recVars, winVars
  <1>4. /\ interrupts' \in [waiting : 0..MaxInterrupts, taken : 0..MaxInterrupts]
        /\ stop' \in {"running", "Shutdown", "AllPluginsGone"}
    BY <1>1 DEF EnvTypeOK, WinTypeOK, envVars, winVars
  <1> QED BY <1>2, <1>3, <1>4, LuaMoves DEF envVars, winVars

LEMMA TurnKeeps ==
    ASSUME BrokerInv, Turn PROVE BrokerInv'
  <1> USE DEF Stages
  <1>1. CASE CliDispatch BY <1>1, OnlyLua DEF CliDispatch
  <1>2. CASE PreInbound
    <2>1. CASE live \cap pendingExit = {} BY <1>2, <2>1, OnlyLua DEF PreInbound, LuaIdle
    <2>2. CASE live \cap pendingExit # {} BY <1>2, <2>2, InboundTickKeeps DEF PreInbound
    <2> QED BY <2>1, <2>2
  <1>3. CASE PreNotices
    <2>1. notices \subseteq Conns BY BrokerTypes DEF EnvTypeOK
    <2> QED BY <1>3, <2>1, TransportFailedKeeps DEF PreNotices
  <1>4. CASE NoDeadlineDue BY <1>4, OnlyLua DEF NoDeadlineDue, LuaIdle
  <1>5. CASE CheckReturn
    <2>1. /\ pc = "check" /\ pc' = IF stop' = "running" THEN "select" ELSE "ended"
          /\ LuaIdle \/ LuaRuns
          /\ stop' = "running" \/ (live = {} /\ stop' \in {"Shutdown", "AllPluginsGone"})
          /\ UNCHANGED <<envVars, recVars, spawnFailed, facts, grace, shutTimer, forcedTimer, histVars>>
      BY <1>5 DEF CheckReturn
    <2>2. EnvTypeOK /\ AskTypeOK /\ CountsBounded BY BrokerTypes
    <2>3. AskTypeOK' /\ CountsBounded' BY <2>1, <2>2, LuaType DEF CountsBounded, envVars
    <2>4. RunEnded' BY <2>1 DEF RunEnded
    <2>5. TerminatedOnlyWhenClosing'
      BY <2>1 DEF BrokerInv, RecordsAgree, TerminatedOnlyWhenClosing, ExitsGenuine, envVars, recVars
    <2>6. interrupts' \in [waiting : 0..MaxInterrupts, taken : 0..MaxInterrupts]
      BY <2>1, <2>2 DEF EnvTypeOK, envVars
    <2> QED BY <2>1, <2>3, <2>4, <2>5, <2>6, LuaMoves DEF envVars
  <1> QED BY <1>1, <1>2, <1>3, <1>4, <1>5, ObserveKeeps, AccountKeeps, DrainKeeps,
             ForceTerminateKeeps, UnreapedKeeps DEF Turn

LEMMA SelectKeeps ==
    ASSUME BrokerInv, Select PROVE BrokerInv'
  <1> USE DEF Stages
  <1>0. EnvTypeOK /\ RecTypeOK /\ AskTypeOK /\ WinTypeOK /\ HistTypeOK /\ CountsBounded
    BY BrokerTypes
  <1>1. CASE SelectInbound BY <1>1, InboundTickKeeps DEF SelectInbound
  <1>2. CASE SelectCallback BY <1>2, OnlyLua DEF SelectCallback
  <1>3. CASE SelectInterrupt
    <2>1. /\ interrupts.waiting > 0
          /\ interrupts' = [waiting |-> interrupts.waiting - 1, taken |-> interrupts.taken + 1]
          /\ LuaRuns /\ pc = "select" /\ pc' = "pre"
          /\ UNCHANGED <<proc, reader, writer, lines, inbound, notices, exits>>
          /\ UNCHANGED <<recVars, spawnFailed, facts, winVars, histVars>>
      BY <1>3 DEF SelectInterrupt
    <2>2. /\ interrupts.waiting \in 0..MaxInterrupts /\ interrupts.taken \in 0..MaxInterrupts
          /\ interrupts.waiting + interrupts.taken <= MaxInterrupts
      BY <1>0 DEF EnvTypeOK, CountsBounded
    <2>3. /\ interrupts.waiting - 1 \in 0..MaxInterrupts /\ interrupts.taken + 1 \in 0..MaxInterrupts
          /\ (interrupts.waiting - 1) + (interrupts.taken + 1) <= MaxInterrupts
      BY <2>1, <2>2, BoundAssumption
    <2>4. /\ interrupts' \in [waiting : 0..MaxInterrupts, taken : 0..MaxInterrupts]
          /\ interrupts'.waiting + interrupts'.taken <= MaxInterrupts
      BY <2>1, <2>3
    <2>5. AskTypeOK' /\ CountsBounded' BY <1>0, <2>1, <2>4, LuaType DEF CountsBounded
    <2>6. RunEnded' /\ TerminatedOnlyWhenClosing' /\ stop' \in {"running", "Shutdown", "AllPluginsGone"}
      BY <1>0, <2>1 DEF BrokerInv, RecordsAgree, RunEnded, TerminatedOnlyWhenClosing, WinTypeOK,
                        recVars, winVars
    <2> QED BY <2>1, <2>4, <2>5, <2>6, LuaMoves DEF winVars
  <1>4. CASE SelectShutdown
    <2>1. /\ pc = "select" /\ pc' = "pre" /\ shutdownQ # <<>> /\ grace = NoTimer
          /\ grace' = Head(shutdownQ).grace /\ shutTimer' = Head(shutdownQ).grace
          /\ shutdownQ' = Tail(shutdownQ) /\ ForceClose(live, "shutdown")
          /\ StartRuntime \/ UNCHANGED runtime
          /\ UNCHANGED <<envVars, live, failed, pendingExit, killed, spawnFailed, facts,
                         fired, code, forcedTimer, stop, heard, dropped>>
      BY <1>4 DEF SelectShutdown, BeginShutdown
    <2>2. shutdownQ \in Seq(Request) BY <1>0 DEF AskTypeOK
    <2>3. Head(shutdownQ) \in Request /\ Tail(shutdownQ) \in Seq(Request) BY <2>1, <2>2
    <2>4. Head(shutdownQ).grace \in Graces BY <2>3 DEF Request
    <2>5. grace' \in Graces /\ grace' # NoTimer /\ shutTimer' \in Int
      <3>1. Head(shutdownQ).grace \in Nat BY <2>4, GraceAssumption
      <3>2. \A n \in Nat : n # NoTimer /\ n \in Int BY DEF NoTimer
      <3> QED BY <2>1, <2>4, <3>1, <3>2
    <2>6. /\ runtime' \in [running : 0..MaxRuntime, started : 0..MaxRuntime]
          /\ runtime'.running <= runtime'.started
      BY <1>0, <2>1, StartType
    <2>7. AskTypeOK' /\ CountsBounded'
      BY <1>0, <2>1, <2>3, <2>6 DEF AskTypeOK, CountsBounded, envVars
    <2>8. live \subseteq Conns /\ routing \subseteq Conns BY <1>0 DEF RecTypeOK
    <2>9. live \subseteq closing' /\ pendingExit' \subseteq closing'
      BY <2>1 DEF ForceClose, BrokerInv, ExitsGenuine
    <2> QED BY <2>1, <2>5, <2>7, <2>8, <2>9, ForceCloseKeeps DEF envVars
  <1>5. CASE SelectSleep BY <1>5, OnlyLua DEF SelectSleep, LuaIdle
  <1>6. ASSUME NEW c \in Conns, SelectNotice(c) PROVE BrokerInv'
    <2>1. {c} \subseteq Conns /\ notices \subseteq Conns BY <1>0 DEF EnvTypeOK
    <2>2. notices' \subseteq Conns BY <1>6, <2>1 DEF SelectNotice
    <2> QED BY <1>6, <2>1, <2>2, TransportFailedKeeps DEF SelectNotice
  <1>7. ASSUME NEW c \in Conns, SelectExit(c) PROVE BrokerInv'
    <2>1. /\ pc = "select" /\ c \in exits /\ pc' = "pre" /\ exits' = exits \ {c}
          /\ pendingExit' = pendingExit \cup ({c} \cap live) /\ ForceClose({c}, "exit")
          /\ UNCHANGED <<proc, reader, writer, lines, inbound, notices, interrupts, live,
                         failed, killed, spawnFailed, facts, askVars, winVars, heard,
                         dropped>>
      BY <1>7 DEF SelectExit
    <2>2. proc[c] = "down" BY <2>1 DEF BrokerInv, ExitsGenuine
    <2>3. pendingExit' \subseteq closing' /\ closing \subseteq closing'
      BY <2>1 DEF ForceClose, BrokerInv, ExitsGenuine
    <2>4. AskTypeOK' /\ CountsBounded' BY <1>0, <2>1 DEF AskTypeOK, CountsBounded, askVars
    <2>5. /\ grace' \in {NoTimer} \cup Graces /\ shutTimer' \in Int
          /\ grace' = grace /\ shutTimer' = shutTimer /\ forcedTimer' = forcedTimer /\ stop' = stop
      BY <1>0, <2>1 DEF WinTypeOK, winVars
    <2>6. grace' # NoTimer => live \subseteq closing'
      BY <2>3, <2>5 DEF BrokerInv, DeadlinesArmed
    <2> QED BY <2>1, <2>2, <2>3, <2>4, <2>5, <2>6, ForceCloseKeeps
  <1> QED BY <1>1, <1>2, <1>3, <1>4, <1>5, <1>6, <1>7 DEF Select

-----------------------------------------------------------------------------
LEMMA BrokerInit == Init => BrokerInv
  <1> SUFFICES ASSUME Init PROVE BrokerInv OBVIOUS
  <1> USE DEF Init
  <1>1. Len(inbound) = 0 /\ inbound = <<>> /\ shutdownQ = <<>> OBVIOUS
  <1>2. EnvTypeOK BY WatchedAssumption, BoundAssumption DEF EnvTypeOK, TaskState
  <1>3. RecTypeOK
    <2>1. <<>> \in Seq({"transport_failed"} \cup ProcessFacts) OBVIOUS
    <2>2. facts \in [Conns -> Seq({"transport_failed"} \cup ProcessFacts)] BY <2>1, Zenon
    <2>3. timer \in [Conns -> {NoTimer} \cup 0..CloseGrace] OBVIOUS
    <2>4. spawnFailed \subseteq Conns /\ live \subseteq Conns /\ routing \subseteq Conns
      BY WatchedAssumption
    <2>5. closing = {} /\ failed = {} /\ pendingExit = {} /\ killed = {} OBVIOUS
    <2> HIDE DEF Init
    <2> QED BY <2>2, <2>3, <2>4, <2>5 DEF RecTypeOK
  <1>4. AskTypeOK
    <2>1. <<>> \in Seq(Request) OBVIOUS
    <2>2. runtime \in [running : 0..MaxRuntime, started : 0..MaxRuntime] BY BoundAssumption
    <2>3. fired = FALSE /\ code = 0 /\ shutdownQ = <<>> OBVIOUS
    <2> HIDE DEF Init
    <2> QED BY <2>1, <2>2, <2>3 DEF AskTypeOK
  <1>5. WinTypeOK BY DEF WinTypeOK, Stages, NoTimer
  <1>6. HistTypeOK BY DEF HistTypeOK, Causes
  <1>7. RoutedAreOpen /\ ClosedForCause /\ OpenLinesHeard
    BY DEF RoutedAreOpen, ClosedForCause, OpenLinesHeard
  <1>8. TerminatedOnlyWhenClosing BY DEF TerminatedOnlyWhenClosing
  <1>9. CountsBounded /\ InboundGenuine
    BY <1>1, BoundAssumption DEF CountsBounded, InboundGenuine
  <1>10. ExitsGenuine BY DEF ExitsGenuine
  <1>11. DeadlinesArmed BY DEF DeadlinesArmed
  <1>12. FactsAgree BY DEF FactsAgree
  <1>13. RunEnded BY DEF RunEnded
  <1> QED BY <1>2, <1>3, <1>4, <1>5, <1>6, <1>7, <1>8, <1>9, <1>10, <1>11, <1>12, <1>13
          DEF BrokerInv, RecordsAgree, TypeOK

LEMMA BrokerStep == BrokerInv /\ [Next]_vars => BrokerInv'
  <1> SUFFICES ASSUME BrokerInv, [Next]_vars PROVE BrokerInv' OBVIOUS
  <1>1. CASE stop = "running" /\ Environment BY <1>1, EnvironmentKeeps
  <1>2. CASE UNCHANGED vars
    <2>1. EnvTypeOK /\ WinTypeOK /\ AskTypeOK /\ CountsBounded /\ UNCHANGED <<envVars, recVars>>
      BY <1>2, BrokerTypes DEF vars
    <2>2. AskTypeOK' /\ CountsBounded' /\ RunEnded' /\ TerminatedOnlyWhenClosing'
      BY <1>2, <2>1 DEF AskTypeOK, CountsBounded, BrokerInv, RecordsAgree, RunEnded,
                        TerminatedOnlyWhenClosing, vars, envVars, recVars, askVars, winVars
    <2>3. /\ interrupts' \in [waiting : 0..MaxInterrupts, taken : 0..MaxInterrupts]
          /\ stop' \in {"running", "Shutdown", "AllPluginsGone"} /\ pc' \in Stages
      BY <1>2, <2>1 DEF EnvTypeOK, WinTypeOK, vars, envVars, winVars
    <2> QED BY <1>2, <2>2, <2>3, LuaMoves DEF vars, envVars, winVars
  <1> QED BY <1>1, <1>2, TurnKeeps, SelectKeeps DEF Next, Ended

\* In every order in which readers, writers, exit watchers, the clock, Lua
\* and the interrupts act, a plugin is routed to exactly while its record is
\* open, it was closed for a reason that holds, only what is being closed is
\* told to end, the run leaves no process behind that was not, and only
\* lines of closed connections are discarded.
THEOREM BrokerRecordsAgree == Spec => []RecordsAgree
  <1>1. BrokerInv => RecordsAgree BY DEF BrokerInv
  <1> QED BY <1>1, BrokerInit, BrokerStep, PTL DEF Spec

\* Lua is told of the end of every process once, and of a transport fault at
\* most once and never after it (finish_reaped_connection, transport_failed).
THEOREM BrokerReportsInOrder == Spec => []ReportsInOrder
  <1>1. BrokerInv => ReportsInOrder
    <2> SUFFICES ASSUME BrokerInv PROVE OneProcessFact /\ FaultFirst
      BY DEF BrokerInv, ReportsInOrder
    <2> DEFINE Told(c) == {k \in 1..Len(facts[c]) : facts[c][k] \in ProcessFacts}
    <2>1. ASSUME NEW c \in Conns
          PROVE  /\ c \in Watched /\ c \notin live \cup spawnFailed => \E k : Told(c) = {k}
                 /\ ~(c \in Watched /\ c \notin live \cup spawnFailed) => Told(c) = {}
                 /\ \A i \in 1..Len(facts[c]) : facts[c][i] = "transport_failed" => i = 1
      <3>0. "transport_failed" \notin ProcessFacts BY DEF ProcessFacts
      <3>1. CASE facts[c] = <<>>
        BY <3>1, Singles DEF BrokerInv, FactsAgree
      <3>2. CASE facts[c] = <<"transport_failed">>
        BY <3>0, <3>2, Singles DEF BrokerInv, FactsAgree
      <3>3. ASSUME NEW fact \in ProcessFacts, facts[c] = Append(<<>>, fact)
            PROVE  Told(c) = {1} /\ Len(facts[c]) = 1
        BY <3>3, Singles
      <3>4. ASSUME NEW fact \in ProcessFacts, facts[c] = Append(<<"transport_failed">>, fact)
            PROVE  Told(c) = {2} /\ Len(facts[c]) = 2 /\ facts[c][2] # "transport_failed"
        <4>1. Len(facts[c]) = 2 /\ facts[c][1] = "transport_failed" /\ facts[c][2] = fact
          BY <3>4, Singles
        <4> QED BY <3>0, <3>4, <4>1
      <3>5. CASE c \in Watched /\ c \notin live \cup spawnFailed
        <4>1. PICK fact \in ProcessFacts :
                facts[c] \in {Append(<<>>, fact), Append(<<"transport_failed">>, fact)}
          BY <3>5 DEF BrokerInv, FactsAgree
        <4> HIDE DEF Told
        <4>2. CASE facts[c] = Append(<<>>, fact) BY <3>3, <3>5, <4>2
        <4>3. CASE facts[c] = Append(<<"transport_failed">>, fact) BY <3>4, <3>5, <4>3
        <4> QED BY <4>1, <4>2, <4>3
      <3>6. CASE ~(c \in Watched /\ c \notin live \cup spawnFailed)
        <4>1. facts[c] \in {<<>>, <<"transport_failed">>} BY <3>6 DEF BrokerInv, FactsAgree
        <4> QED BY <3>1, <3>2, <4>1
      <3> QED BY <3>5, <3>6
    <2>2. FaultFirst BY <2>1 DEF FaultFirst
    <2>3. OneProcessFact
      <3>1. \A k : Cardinality({k}) = 1 BY FS_Singleton
      <3>2. Cardinality({}) = 0 BY FS_EmptySet
      <3> QED BY <2>1, <3>1, <3>2, Zenon DEF OneProcessFact, ProcessFactsOf
    <2> QED BY <2>2, <2>3
  <1> QED BY <1>1, BrokerInit, BrokerStep, PTL DEF Spec
=============================================================================
