------------------------------- MODULE MagRuns -------------------------------
(***************************************************************************)
(* The runs of the MAG plugin: plugins/mag/src/runtime.rs (the dispatch    *)
(* loop and its handlers), bridge.rs (provider requests in flight) and the *)
(* part of the Lua kernel the handlers drive (lua/mag-kernel/init.lua,     *)
(* routing.lua, correlation.lua, compaction-broker.lua).                   *)
(*                                                                         *)
(* A mag.execute request begins a run.  The actors of a run ask the rest   *)
(* of the system for things; each such capability has a fresh id.  A tool  *)
(* call, a provider completion and a context compaction are work that is   *)
(* cancelled when its actor dies.  A query (preparing a provider, reading  *)
(* the context, the commands about notices, waiting for the conversation   *)
(* manager to have recorded what was appended) is not: it is dropped       *)
(* ("detached") and whatever comes back is ignored.  A compaction is one   *)
(* capability up to the moment its actor has read its commit back: until   *)
(* then the kill of the actor still cancels it.  (An interrupt in that     *)
(* last stretch sends no cancellation; here it sends one more, for         *)
(* something the manager has finished.)                                    *)
(*                                                                         *)
(* The loop handles one inbound event at a time, but a handler is not      *)
(* atomic for what leaves the process: the kernel queues its emissions,    *)
(* the handler drains them one by one, and the output channel may refuse   *)
(* any of them (a frame that is too large), which changes what the rest of *)
(* the handler does.  The handler's remaining steps are therefore a        *)
(* program, "todo".  Short acknowledgements always fit and are left out,   *)
(* and with them mag.ping, mag.load, mag.build and mag.steer_run, which    *)
(* change nothing kept here.                                               *)
(***************************************************************************)
EXTENDS Integers, Sequences, FiniteSets, SequencesExt

CONSTANTS
    Runs,           \* run ids an execute may carry
    Sessions,       \* session ids
    Actors,         \* actor ids of a program
    NoRun,          \* "no context under this run id"
    MaxRequests,    \* bound on the mag.execute requests
    MaxCaps,        \* bound on the capabilities opened
    MaxRefusals     \* bound on the emissions the output channel refuses

ASSUME BoundsAssumption ==
    /\ MaxRequests \in Nat \ {0}
    /\ MaxCaps \in Nat
    /\ MaxRefusals \in Nat
    /\ IsFiniteSet(Runs) /\ IsFiniteSet(Actors)

VARIABLES
    runs,       \* the kernel's contexts: [Runs -> context or NoRun]
    caps,       \* every capability opened: its run's request, owner and class
    fate,       \* what the rest of the system was told of each capability
    emits,      \* the kernel's emission queue
    batch,      \* the emissions the current flush has drained and not yet sent
    active,     \* the execute each run id still owes a reply to, 0 for none
    pending,    \* the bridge's provider requests
    todo,       \* the remaining steps of the handler that is running
    requests,   \* number of mag.execute requests received
    replied,    \* the terminal replies each request was sent
    lost,       \* requests whose run had an emission withheld, or one other than
                \* an invocation refused (a refused invocation is answered to its
                \* actor as an error)
    refusals,   \* emissions refused so far
    process     \* "up"; "stopping" then "stopped" after a shutdown;
                \* "aborting" then "failed" after an error

kernel == <<runs, caps, emits>>
wire   == <<fate, batch, pending, lost, refusals>>
host   == <<active, todo, requests, replied, process>>
vars   == <<kernel, wire, host>>

Classes  == {"tool", "provider", "compaction", "query"}
Requests == 1..MaxRequests

\* A run's context: its session and execute, the actors it spawned and killed,
\* the capabilities they wait for, and what it has come to.
Contexts ==
    [session : Sessions, request : Requests, alive : SUBSET Actors,
     dead : SUBSET Actors, open : SUBSET (1..MaxCaps),
     outputFailed : BOOLEAN, signal : {"none", "complete", "failed"}]

ASSUME NoRunAssumption == NoRun \notin Contexts

Idle     == process = "up" /\ todo = <<>>
Live     == {r \in Runs : runs[r] # NoRun}

Context(s, q) ==
    [session |-> s, request |-> q, alive |-> {}, dead |-> {}, open |-> {},
     outputFailed |-> FALSE, signal |-> "none"]

Init ==
    /\ runs = [r \in Runs |-> NoRun]
    /\ caps = <<>>
    /\ fate = [c \in 1..MaxCaps |-> "unsent"]
    /\ emits = <<>> /\ batch = <<>>
    /\ active = [r \in Runs |-> 0]
    /\ pending = {}
    /\ todo = <<>>
    /\ requests = 0
    /\ replied = [q \in Requests |-> <<>>]
    /\ lost = {}
    /\ refusals = 0
    /\ process = "up"

-----------------------------------------------------------------------------
(* The kernel.  Emissions carry the run they belong to. *)

Emission(kind, r, c) == [kind |-> kind, run |-> r, id |-> c]
Event(r)             == Emission("event", r, 0)

\* An actor's request leaves as tool.invoke, or as a command of the broker.
InvokeOf(r, c, class) ==
    Emission(CASE class = "compaction" -> "compact"
               [] class = "query"      -> "query"
               [] OTHER                -> "invoke", r, c)

CancelOf(r, c, class) ==
    Emission(IF class = "compaction" THEN "compactCancel" ELSE "cancel", r, c)

\* Capability ids in the order the kernel takes them in.  It sorts the wire ids,
\* which are strings: up to nine of a run this is the order they were given out
\* in, and no property or proof depends on which order it is.
Ascending(ids) ==
    CHOOSE order \in SetToSeqs(ids) :
        \A i, j \in DOMAIN order : i < j => order[i] < order[j]

\* Work is cancelled; a query is only detached.
Cancellable(ids, table) == {c \in ids : table[c].class # "query"}

\* The cancellations for capabilities "ids" of run r; "table" is caps, or what
\* caps is becoming.
Cancels(r, ids, table) ==
    LET order == Ascending(Cancellable(ids, table))
    IN  [i \in DOMAIN order |-> CancelOf(r, order[i], table[order[i]].class)]

\* What the live actors of a run may ask for when they are activated, the
\* context being x.
Openings(x, table) ==
    SeqOf([request : {x.request}, actor : x.alive, class : Classes],
          MaxCaps - Len(table))

\* Completion and failure of a run.  A completion counts whether a failure was
\* signalled before it or after, but a failed operation withdraws it.
Signals(x) ==
    IF x.signal = "none" THEN {"none", "complete", "failed"} ELSE {"complete", "failed"}

\* Actors publish events, open capabilities, and complete or fail the run.
Reaction(r, x, table, o, s) ==
    [caps |-> table \o o,
     context |-> [x EXCEPT !.open = @ \cup {Len(table) + i : i \in DOMAIN o},
                           !.signal = s],
     emits |-> <<Event(r)>>
               \o [i \in DOMAIN o |-> InvokeOf(r, Len(table) + i, o[i].class)]]

Reactions(r, x, table) ==
    {Reaction(r, x, table, o, s) : o \in Openings(x, table), s \in Signals(x)}

\* A delta: actors are spawned, then killed.  What a dying actor has open is
\* cancelled or detached.
Delta(r, x, table, new, killed) ==
    LET dying == {c \in x.open : table[c].actor \in killed}
    IN  [context |-> [x EXCEPT !.alive = (@ \cup new) \ killed,
                               !.dead = @ \cup killed, !.open = @ \ dying],
         emits |-> Cancels(r, dying, table)
                   \o (IF killed = {} THEN <<>> ELSE <<Emission("killed", r, 0)>>)]

Deltas(r, x, table) ==
    UNION {{Delta(r, x, table, new, killed) : killed \in SUBSET (x.alive \cup new)} :
               new \in SUBSET (Actors \ (x.alive \cup x.dead))}

\* One activation in run r, whose context is x: actors act, what they produced
\* may be an operation's delta (at most one is modelled), and the actors that
\* live then act on its messages.
Activate(r, x) ==
    \E first \in Reactions(r, x, caps) :
    \E delta \in Deltas(r, first.context, first.caps) :
    \E last \in Reactions(r, delta.context, first.caps) :
        /\ runs' = [runs EXCEPT ![r] = last.context]
        /\ caps' = last.caps
        /\ emits' = emits \o (first.emits \o (delta.emits \o last.emits))

\* f of every run of an order.  The code sorts run ids; run ids are abstract
\* here, so the order may be any.
Each(f(_), order) == [i \in DOMAIN order |-> f(order[i])]

\* Mutant: cancel everything the run ever asked for.
TeardownOfAllAsked(r) ==
    IF runs[r].alive = {} THEN <<>>
    ELSE Cancels(r, {c \in DOMAIN caps : caps[c].request = runs[r].request}, caps)
         \o <<Emission("killed", r, 0), Event(r)>>

\* Killing every live actor of run r: its work is cancelled, its queries are
\* detached (dispatch_kill, detach_owner), then the observer reports the kills
\* and the modification.  Nobody alive, no emission.
TeardownOf(r) ==
    IF runs[r].alive = {} THEN <<>>
    ELSE Cancels(r, runs[r].open, caps) \o <<Emission("killed", r, 0), Event(r)>>

\* Tearing run contexts down drops them.
EndRuns(rs) ==
    /\ \E order \in SetToSeqs(rs) :
           emits' = emits \o FlattenSeq(Each(TeardownOf, order))
    /\ runs' = [r \in Runs |-> IF r \in rs THEN NoRun ELSE runs[r]]
    /\ UNCHANGED caps

-----------------------------------------------------------------------------
(* The steps a handler is made of. *)

Flush              == [op |-> "flush"]
Settle(r)          == [op |-> "settle", run |-> r]
Decide(r)          == [op |-> "decide", run |-> r]
Start(r)           == [op |-> "start", run |-> r]
End(r, status)     == [op |-> "end", run |-> r, status |-> status]
Reaped(r)          == [op |-> "reaped", run |-> r]
Deliver(r, c)      == [op |-> "deliver", run |-> r, id |-> c]
Mark(r)            == [op |-> "mark", run |-> r]
Reply(q, status)   == [op |-> "reply", request |-> q, status |-> status]

At(op) == /\ process \notin {"stopped", "failed"}
          /\ todo # <<>>
          /\ Head(todo).op = op

Then(steps) == todo' = steps \o Tail(todo)

-----------------------------------------------------------------------------
(* flush_emits: drain, then send one emission after the other until a drain *)
(* finds nothing. *)

IsCancel(e) == e.kind \in {"cancel", "compactCancel"}

\* Once a run's output failed, only cancellations and kills still leave.
Withheld(e) ==
    /\ runs[e.run] # NoRun
    /\ runs[e.run].outputFailed
    /\ ~IsCancel(e)
    /\ e.kind # "killed"

Drain ==
    /\ At("flush") /\ batch = <<>> /\ emits # <<>>
    /\ batch' = emits
    /\ emits' = <<>>
    /\ UNCHANGED <<runs, caps, fate, pending, lost, refusals, host>>

\* The last flush of a stopping process is followed by bridge.clear.
Drained ==
    /\ At("flush") /\ batch = <<>> /\ emits = <<>>
    /\ Then(<<>>)
    /\ process' = CASE process = "stopping" -> "stopped"
                    [] process = "aborting" -> "failed"
                    [] OTHER -> process
    /\ pending' = IF process = "up" THEN pending ELSE {}
    /\ UNCHANGED <<kernel, fate, batch, lost, refusals, active, requests, replied>>

Withhold ==
    /\ At("flush") /\ batch # <<>>
    /\ Withheld(Head(batch))
    /\ batch' = Tail(batch)
    /\ lost' = lost \cup {runs[Head(batch).run].request}
    /\ UNCHANGED <<kernel, fate, pending, refusals, host>>

\* The bridge registers a provider invocation and forgets it with its cancel.
Translated(e) ==
    CASE e.kind = "invoke" /\ caps[e.id].class = "provider" -> pending \cup {e.id}
      [] e.kind = "cancel" -> pending \ {e.id}
      [] OTHER -> pending

Told(e) ==
    CASE e.kind \in {"invoke", "compact", "query"} -> [fate EXCEPT ![e.id] = "sent"]
      [] IsCancel(e) -> [fate EXCEPT ![e.id] = "cancelled"]
      [] OTHER -> fate

Send ==
    /\ At("flush") /\ batch # <<>>
    /\ ~Withheld(Head(batch))
    /\ batch' = Tail(batch)
    /\ pending' = Translated(Head(batch))
    /\ fate' = Told(Head(batch))
    /\ UNCHANGED <<kernel, lost, refusals, host>>

Refusing ==
    /\ At("flush") /\ batch # <<>>
    /\ ~Withheld(Head(batch))
    /\ refusals < MaxRefusals
    /\ refusals' = refusals + 1

\* The run that still waits for capability c, if any.
Waiting(c) == {r \in Live : c \in runs[r].open}

Closed(r, c) == [runs[r] EXCEPT !.open = @ \ {c}]

\* A refused tool.invoke is answered to its actor as an error.
RefuseInvoke ==
    /\ Refusing
    /\ Head(batch).kind = "invoke"
    /\ pending' = pending \ {Head(batch).id}
    /\ \E r \in Waiting(Head(batch).id) :
           Activate(r, Closed(r, Head(batch).id))
    /\ batch' = Tail(batch)
    /\ UNCHANGED <<fate, lost, host>>

\* Any other refused emission of a live run fails the run's output.
RefuseEvent ==
    /\ Refusing
    /\ Head(batch).kind \notin {"invoke", "cancel", "compactCancel"}
    /\ Head(batch).run \in Live
    /\ runs' = [runs EXCEPT ![Head(batch).run].outputFailed = TRUE]
    /\ lost' = lost \cup {runs[Head(batch).run].request}
    /\ batch' = Tail(batch)
    /\ UNCHANGED <<caps, emits, fate, pending, host>>

\* Nobody to blame: a cancellation, or an emission whose run or request has
\* ended.  The loop returns the error: the rest of the batch is dropped with
\* it, every run is ended and no execute is answered; the process stops.
Unrecoverable(e) ==
    \/ IsCancel(e)
    \/ e.kind = "invoke" /\ Waiting(e.id) = {}
    \/ e.kind \notin {"invoke", "cancel", "compactCancel"} /\ e.run \notin Live

\* Ending the process: every run is torn down, no execute is answered, and
\* what the teardown emits is flushed.
Ending(how) ==
    /\ EndRuns(Live)
    /\ active' = [r \in Runs |-> 0]
    /\ todo' = <<Flush>>
    /\ process' = how
    /\ UNCHANGED <<requests, replied>>

Abort ==
    /\ Refusing
    /\ Unrecoverable(Head(batch))
    /\ batch' = <<>>
    /\ pending' = pending \ {Head(batch).id}
    /\ \/ process = "up" /\ Ending("aborting")
       \/ /\ process # "up"
          /\ process' = "failed" /\ todo' = <<>>
          /\ UNCHANGED <<kernel, active, requests, replied>>
    /\ UNCHANGED <<fate, lost>>

-----------------------------------------------------------------------------
(* settle_run: flush, then reply if the run completed, failed or lost output. *)

SettleRun ==
    /\ At("settle")
    /\ Then(IF active[Head(todo).run] = 0 THEN <<>>
            ELSE <<Flush, Decide(Head(todo).run)>>)
    /\ UNCHANGED <<kernel, wire, active, requests, replied, process>>

\* Mutant: a completion counts whether or not it could be published.
VerdictCompletionFirst(x) ==
    CASE x.signal = "complete" -> "completed"
      [] x.outputFailed \/ x.signal = "failed" -> "failed"
      [] OTHER -> "none"

Verdict(x) ==
    CASE x.signal = "complete" /\ ~x.outputFailed -> "completed"
      [] x.outputFailed \/ x.signal = "failed"    -> "failed"
      [] OTHER                                    -> "none"

Undecided ==
    /\ At("decide")
    /\ Verdict(runs[Head(todo).run]) = "none"
    /\ Then(<<>>)
    /\ UNCHANGED <<kernel, wire, active, requests, replied, process>>

\* Mutants: the execute stays owed a reply; the reply leaves first.
FinishStillActive(r, status) ==
    /\ EndRuns({r})
    /\ Then(<<Flush, Reply(active[r], status)>>)
    /\ UNCHANGED <<wire, active, requests, replied, process>>

FinishReplyFirst(r, status) ==
    /\ EndRuns({r})
    /\ active' = [active EXCEPT ![r] = 0]
    /\ Then(<<Reply(active[r], status), Flush>>)
    /\ UNCHANGED <<wire, requests, replied, process>>

\* The context ends, and its cancellations leave, before the reply.
Finish(r, status) ==
    /\ EndRuns({r})
    /\ active' = [active EXCEPT ![r] = 0]
    /\ Then(<<Flush, Reply(active[r], status)>>)
    /\ UNCHANGED <<wire, requests, replied, process>>

Decided ==
    /\ At("decide")
    /\ Verdict(runs[Head(todo).run]) # "none"
    /\ Finish(Head(todo).run, Verdict(runs[Head(todo).run]))

\* One kill, or one terminating interrupt.
EndRun ==
    /\ At("end")
    /\ Finish(Head(todo).run, Head(todo).status)

\* A refused terminal reply is replaced by the delivery failure.
SendReply ==
    /\ At("reply")
    /\ Then(<<>>)
    /\ \/ /\ replied' = [replied EXCEPT ![Head(todo).request] = Append(@, Head(todo).status)]
          /\ UNCHANGED refusals
       \/ /\ Head(todo).status = "completed" /\ refusals < MaxRefusals
          /\ refusals' = refusals + 1
          /\ replied' = [replied EXCEPT ![Head(todo).request] = Append(@, "failed")]
    /\ UNCHANGED <<kernel, fate, batch, pending, lost, active, requests, process>>

\* The pending execute of a run that a new session's run displaced.
SettleReaped ==
    /\ At("reaped")
    /\ active' = [active EXCEPT ![Head(todo).run] = 0]
    /\ Then(IF active[Head(todo).run] = 0 THEN <<>>
            ELSE <<Reply(active[Head(todo).run], "failed")>>)
    /\ UNCHANGED <<kernel, wire, requests, replied, process>>

-----------------------------------------------------------------------------
(* The handlers. *)

\* A request whose program, session or principal is refused before a run exists.
RejectExecute ==
    /\ Idle /\ requests < MaxRequests
    /\ requests' = requests + 1
    /\ replied' = [replied EXCEPT ![requests'] = <<"rejected">>]
    /\ UNCHANGED <<kernel, wire, active, todo, process>>

\* A run id that is live refuses the request; the live run is untouched.
ExecuteDuplicate(r) ==
    /\ Idle /\ requests < MaxRequests
    /\ r \in Live
    /\ requests' = requests + 1
    /\ todo' = <<Reply(requests', "failed")>>
    /\ UNCHANGED <<kernel, wire, active, replied, process>>

Stale(s) == {r \in Live : runs[r].session # s}

\* Beginning a run reaps the contexts of every other session.
Execute(r, s) ==
    /\ Idle /\ requests < MaxRequests
    /\ r \notin Live
    /\ requests' = requests + 1
    /\ runs' = [x \in Runs |-> CASE x = r -> Context(s, requests')
                              [] x \in Stale(s) -> NoRun
                              [] OTHER -> runs[x]]
    /\ \E stale \in SetToSeqs(Stale(s)) :
           /\ emits' = emits \o FlattenSeq(Each(TeardownOf, stale)) \o <<Event(r)>>
           /\ todo' = (IF stale = <<>> THEN <<>> ELSE <<Flush>> \o Each(Reaped, stale))
                      \o <<Start(r)>>
    /\ active' = [active EXCEPT ![r] = requests']
    /\ UNCHANGED <<caps, wire, replied, process>>

\* Start the program, unless mag.run_started itself was refused.
StartProgram ==
    /\ At("start")
    /\ ~runs[Head(todo).run].outputFailed
    /\ \E as \in SUBSET Actors \ {{}} :
           Activate(Head(todo).run, [runs[Head(todo).run] EXCEPT !.alive = as])
    /\ Then(<<Settle(Head(todo).run)>>)
    /\ UNCHANGED <<wire, active, requests, replied, process>>

StartWithoutOutput ==
    /\ At("start")
    /\ runs[Head(todo).run].outputFailed
    /\ Then(<<Settle(Head(todo).run)>>)
    /\ UNCHANGED <<kernel, wire, active, requests, replied, process>>

StartFails ==
    /\ At("start")
    /\ ~runs[Head(todo).run].outputFailed
    /\ Finish(Head(todo).run, "failed")

\* mag.apply: approvals are delivered, the delta spawns and kills, and its
\* messages are delivered last; a rejected delta only reports itself.
Apply(r) ==
    /\ Idle /\ active[r] # 0
    /\ Activate(r, runs[r])
    /\ todo' = <<Flush, Settle(r)>>
    /\ UNCHANGED <<wire, active, requests, replied, process>>

ApplyRejected(r) ==
    /\ Idle /\ active[r] # 0
    /\ emits' = Append(emits, Event(r))
    /\ todo' = <<Flush, Settle(r)>>
    /\ UNCHANGED <<runs, caps, wire, active, requests, replied, process>>

ResumeActor(r) ==
    /\ Idle /\ active[r] # 0
    /\ runs[r].alive # {}
    /\ Activate(r, runs[r])
    /\ todo' = <<Flush, Settle(r)>>
    /\ UNCHANGED <<wire, active, requests, replied, process>>

KillRun(r) ==
    /\ Idle /\ active[r] # 0
    /\ todo' = <<End(r, "killed")>>
    /\ UNCHANGED <<kernel, wire, active, requests, replied, process>>

KillAllRuns ==
    /\ Idle
    /\ LET Kill(r) == End(r, "killed")
       IN  \E order \in SetToSeqs({r \in Runs : active[r] # 0}) : todo' = Each(Kill, order)
    /\ UNCHANGED <<kernel, wire, active, requests, replied, process>>

TerminateRun(r) ==
    /\ Idle /\ active[r] # 0
    /\ todo' = <<End(r, "failed")>>
    /\ UNCHANGED <<kernel, wire, active, requests, replied, process>>

\* A graceful interrupt cancels what is open at that moment, then answers each
\* of those capabilities "interrupted"; what the actors open in turn stays.
InterruptRun(r) ==
    /\ Idle /\ active[r] # 0
    /\ LET OpenOf(ks) == {c \in runs[r].open : caps[c].class \in ks}
           commands == OpenOf({"compaction", "query"})
           calls == OpenOf({"tool", "provider"})
           Interrupted(c) == Deliver(r, c)
       IN  /\ emits' = emits \o Cancels(r, commands, caps) \o Cancels(r, calls, caps)
           /\ todo' = Each(Interrupted, Ascending(calls)) \o <<Mark(r)>>
                      \o Each(Interrupted, Ascending(commands))
                      \o <<Flush, Settle(r)>>
    /\ UNCHANGED <<runs, caps, wire, active, requests, replied, process>>

DeliverInterrupted ==
    /\ At("deliver")
    /\ Activate(Head(todo).run, Closed(Head(todo).run, Head(todo).id))
    /\ Then(<<>>)
    /\ UNCHANGED <<wire, active, requests, replied, process>>

MarkInterrupted ==
    /\ At("mark")
    /\ emits' = Append(emits, Event(Head(todo).run))
    /\ Then(<<>>)
    /\ UNCHANGED <<runs, caps, wire, active, requests, replied, process>>

\* An answer may come for anything that was ever sent: once, twice, or after a
\* cancellation.  It counts while the kernel (and the bridge) still know it.
Known(c) ==
    /\ Waiting(c) # {}
    /\ caps[c].class = "provider" => c \in pending

Answer(c) ==
    /\ Idle
    /\ c \in DOMAIN caps /\ fate[c] # "unsent"
    /\ Known(c)
    /\ pending' = pending \ {c}
    /\ fate' = [fate EXCEPT ![c] = "answered"]
    /\ \E r \in Waiting(c) :
           /\ Activate(r, Closed(r, c))
           /\ todo' = <<Flush, Settle(r)>>
    /\ UNCHANGED <<batch, lost, refusals, active, requests, replied, process>>

\* A delta, an inclusion report or tool output: the actor may publish a fact,
\* a provider's actor may send commands about notices (handle_observation), and
\* the handler only flushes.
Observe(c) ==
    /\ Idle
    /\ c \in DOMAIN caps /\ fate[c] # "unsent"
    /\ caps[c].class \in {"tool", "provider"}
    /\ Known(c)
    /\ \E r \in Waiting(c) :
       \E o \in Openings(runs[r], caps) :
           /\ \A i \in DOMAIN o : /\ caps[c].class = "provider"
                                  /\ o[i].class = "query" /\ o[i].actor = caps[c].actor
           /\ LET noted == Reaction(r, runs[r], caps, o, runs[r].signal)
              IN  /\ runs' = [runs EXCEPT ![r] = noted.context]
                  /\ caps' = noted.caps
                  /\ emits' = emits \o noted.emits
    /\ todo' = <<Flush>>
    /\ UNCHANGED <<wire, active, requests, replied, process>>

\* A compaction is reported done, and its actor reads the commit back.
Compacted(c) ==
    /\ Idle
    /\ c \in DOMAIN caps /\ fate[c] # "unsent"
    /\ caps[c].class = "compaction"
    /\ \E r \in Waiting(c) :
           /\ emits' = Append(emits, Event(r))
           /\ todo' = <<Flush, Settle(r)>>
    /\ UNCHANGED <<runs, caps, wire, active, requests, replied, process>>

\* system.shutdown, a closed stdin, or ctrl-c.
Shutdown ==
    /\ Idle
    /\ Ending("stopping")
    /\ UNCHANGED wire

\* The writer is gone: nothing can be flushed.
WriterClosed ==
    /\ process \notin {"stopped", "failed"}
    /\ process' = "failed"
    /\ runs' = [r \in Runs |-> NoRun]
    /\ emits' = <<>> /\ batch' = <<>> /\ todo' = <<>> /\ pending' = {}
    /\ active' = [r \in Runs |-> 0]
    /\ UNCHANGED <<caps, fate, lost, refusals, requests, replied>>

Handler ==
    \/ RejectExecute \/ KillAllRuns \/ Shutdown
    \/ \E r \in Runs :
        \/ ExecuteDuplicate(r) \/ \E s \in Sessions : Execute(r, s)
        \/ Apply(r) \/ ApplyRejected(r) \/ ResumeActor(r)
        \/ KillRun(r) \/ TerminateRun(r) \/ InterruptRun(r)
    \/ \E c \in 1..MaxCaps : Answer(c) \/ Observe(c) \/ Compacted(c)

Step ==
    \/ Drain \/ Drained \/ Withhold \/ Send
    \/ RefuseInvoke \/ RefuseEvent \/ Abort
    \/ SettleRun \/ Undecided \/ Decided \/ EndRun
    \/ SendReply \/ SettleReaped
    \/ StartProgram \/ StartWithoutOutput \/ StartFails
    \/ DeliverInterrupted \/ MarkInterrupted

Next == Handler \/ Step \/ WriterClosed

Spec == Init /\ [][Next]_vars

-----------------------------------------------------------------------------
(* Properties. *)

Steplike ==
    [op : {"flush"}]
        \cup [op : {"settle", "decide", "start", "reaped", "mark"}, run : Runs]
        \cup [op : {"end"}, run : Runs, status : {"killed", "failed"}]
        \cup [op : {"deliver"}, run : Runs, id : 1..MaxCaps]
        \cup [op : {"reply"}, request : Requests, status : {"completed", "failed", "killed"}]

Emissions ==
    [kind : {"event", "killed"}, run : Runs, id : {0}]
        \cup [kind : {"invoke", "compact", "query", "cancel", "compactCancel"}, run : Runs,
              id : 1..MaxCaps]

Statuses == {"completed", "failed", "killed", "rejected"}

Capabilities == [request : Requests, actor : Actors, class : Classes]

KernelTyped ==
    /\ runs \in [Runs -> Contexts \cup {NoRun}]
    /\ caps \in Seq(Capabilities) /\ Len(caps) <= MaxCaps
    /\ emits \in Seq(Emissions)

WireTyped ==
    /\ fate \in [1..MaxCaps -> {"unsent", "sent", "answered", "cancelled"}]
    /\ batch \in Seq(Emissions)
    /\ pending \subseteq 1..MaxCaps
    /\ lost \subseteq Requests
    /\ refusals \in 0..MaxRefusals

HostTyped ==
    /\ active \in [Runs -> 0..MaxRequests]
    /\ todo \in Seq(Steplike)
    /\ requests \in 0..MaxRequests
    /\ replied \in [Requests -> Seq(Statuses)]
    /\ process \in {"up", "stopping", "stopped", "aborting", "failed"}

\* A context's open capabilities were opened by its own live actors.
OpenByAlive ==
    \A r \in Live :
        /\ runs[r].alive \cap runs[r].dead = {}
        /\ \A c \in runs[r].open : /\ c \in DOMAIN caps
                                  /\ caps[c].request = runs[r].request
                                  /\ caps[c].actor \in runs[r].alive

\* The type of every variable.
TypeOK == KernelTyped /\ WireTyped /\ HostTyped /\ OpenByAlive

\* Between two events the kernel's contexts and the executes that are owed a
\* reply are the same runs, a request is owed a reply exactly until it had one,
\* and it never gets a second: whichever of completion, failure, kill,
\* interrupt, session boundary or refused output ends it.
OneReplyPerExecute ==
    /\ \A q \in Requests : Len(replied[q]) <= 1
    /\ Idle =>
         /\ Live = {r \in Runs : active[r] # 0}
         /\ \A r \in Live : runs[r].request = active[r]
         /\ \A q \in 1..requests : replied[q] = <<>> <=> \E r \in Runs : active[r] = q

\* Capability c is work outside; a query is not, it may be detached.
IsWork(c) == caps[c].class # "query"

\* No work outlives its run: when the reply to an execute is out, every tool
\* call, provider completion and compaction its actors had asked for has been
\* answered or cancelled (settle_run, handle_kill_run: "flushed BEFORE the
\* terminal reply").  Queries are detached without a word, and are the only
\* thing that may still be under way for a run that is over.
NothingOutlivesItsRun ==
    \A c \in DOMAIN caps :
        IsWork(c) /\ replied[caps[c].request] # <<>> => fate[c] # "sent"

\* Between two events, work that is being done outside is work an actor still
\* waits for; and no actor waits for an answer to anything, query or work, that
\* was never sent, except in a run whose output failed.
WorkHasAWaiter ==
    Idle =>
        /\ \A c \in DOMAIN caps : IsWork(c) /\ fate[c] = "sent" => Waiting(c) # {}
        /\ \A r \in Live : ~runs[r].outputFailed =>
               \A c \in runs[r].open : fate[c] = "sent"

\* Between two events the bridge knows exactly the provider requests that are
\* being worked on: its table neither leaks nor loses one.
BridgeAgrees ==
    Idle => pending = {c \in DOMAIN caps : caps[c].class = "provider" /\ fate[c] = "sent"}

\* A run one of whose events, commands or queries was refused, or anything of
\* whose output was withheld after that, is never reported completed.  A refused
\* tool.invoke is not such a loss: it is answered to its actor as an error, and
\* the run may go on and complete (WorkHasAWaiter says nobody waits for it).
NoSuccessAfterLoss ==
    \A q \in lost : replied[q] \in {<<>>, <<"failed">>, <<"killed">>}

\* A run whose output failed but which has not been settled still waits for an
\* answer that will settle it; and no signal waits to be noticed.
FailureIsNoticed ==
    Idle => \A r \in Live :
        /\ runs[r].signal = "none"
        /\ runs[r].outputFailed => \E c \in runs[r].open : fate[c] = "sent"

\* Live runs belong to one session: beginning a run in another one reaps them.
OneSession ==
    Idle => \A r, x \in Live : runs[r].session = runs[x].session

\* An orderly stop leaves no work running outside.
StopCancels ==
    process = "stopped" => \A c \in DOMAIN caps : IsWork(c) => fate[c] # "sent"

\* The plugin's executes and the kernel's runs agree: each is owed one reply,
\* and all belong to the session that is current.
RunsAccounted == TypeOK /\ OneReplyPerExecute /\ OneSession

\* Gates, providers and the conversation manager work for a live run only, and
\* each tool call, completion and compaction they work on is one somebody waits
\* for.  Queries are the exception: a dead actor's are detached.
WorkAccounted ==
    /\ NothingOutlivesItsRun
    /\ WorkHasAWaiter
    /\ BridgeAgrees
    /\ StopCancels

\* Output the wire refused is never papered over: a run that lost any emission
\* other than an invocation is not reported completed, and is still going to be
\* reported.
LossReported == NoSuccessAfterLoss /\ FailureIsNoticed

\* A capability is cancelled or answered once: what was cancelled is never
\* also delivered to an actor, and what was answered (a compaction: read back)
\* is never cancelled.
SettledOnce ==
    [][\A c \in DOMAIN fate :
           fate[c] \in {"answered", "cancelled"} => fate'[c] = fate[c]]_vars

-----------------------------------------------------------------------------
(***************************************************************************)
(* Why they hold.  The handler that runs is a program, and its remaining   *)
(* steps say what is still owed: which run will be settled, which reply    *)
(* will be sent, which cancelled capability will be closed.  What has been *)
(* emitted and not yet sent is one queue, whichever side of a drain it is. *)
(***************************************************************************)
Queue == batch \o emits

Steps     == ToSet(todo)
Emitted   == ToSet(Queue)
IsAsk(e)  == e.kind \in {"invoke", "compact", "query"}
Quiet     == {"decide", "end", "reaped", "reply"}
OfRun     == {"settle", "decide", "start", "end", "deliver", "mark"}

\* What step a of a handler allows to come after it.  A run that is settled,
\* started or ended has no later step; a step that emits is followed by no
\* step that counts on an empty queue; interrupts are delivered first.
Ordered(a, b) ==
    /\ (a.op \in {"settle", "decide", "start", "end", "reaped"}
            /\ b.op \notin {"flush", "reply"}) => a.run # b.run
    /\ (a.op = "reply" /\ b.op = "reply") => a.request # b.request
    /\ a.op \in {"deliver", "mark", "start", "settle"} => b.op \notin Quiet
    /\ a.op \notin {"deliver", "mark"} => b.op \notin {"deliver", "mark"}

ProgramOrdered ==
    \A j, k \in 1..Len(todo) : j < k => Ordered(todo[j], todo[k])

\* A flush is under way exactly while something drained is unsent; a step that
\* counts on an empty queue, or the end of the handler, finds one.
QueueWatched ==
    /\ batch # <<>> => todo # <<>> /\ Head(todo) = Flush
    /\ batch # <<>> \/ emits # <<>> => todo # <<>> /\ Head(todo).op \notin Quiet

\* The run a handler's step is about is there, and started from nothing; a
\* reply is owed to nobody else.
StepSound(t) ==
    /\ t.op \in OfRun => t.run \in Live
    /\ t.op = "start" => /\ runs[t.run].alive = {} /\ runs[t.run].dead = {}
                         /\ runs[t.run].open = {}
    /\ t.op = "reaped" => t.run \notin Live /\ active[t.run] # 0
    /\ t.op \in {"deliver", "mark"} => Settle(t.run) \in Steps
    /\ t.op = "reply" => /\ t.request <= requests
                         /\ replied[t.request] = <<>>
                         /\ \A r \in Runs : active[r] # t.request

StepsSound == \A t \in Steps : StepSound(t)

\* An execute is owed its reply by the run it began, then by a step.
RepliesOwed ==
    /\ \A r \in Live : active[r] = runs[r].request
    /\ \A r \in Runs : active[r] # 0 =>
           /\ active[r] <= requests /\ replied[active[r]] = <<>>
           /\ r \notin Live => Reaped(r) \in Steps
    /\ \A r, x \in Runs : active[r] = active[x] /\ active[r] # 0 => r = x
    /\ \A q \in Requests :
           /\ Len(replied[q]) <= 1
           /\ q > requests => replied[q] = <<>>
           /\ (process = "up" /\ q <= requests /\ replied[q] = <<>>) =>
                  \/ \E r \in Runs : active[r] = q
                  \/ \E t \in Steps : t.op = "reply" /\ t.request = q

\* Once the process ends there are no runs, and only the flush is left.
EndedIsOver ==
    process # "up" => /\ Live = {} /\ \A r \in Runs : active[r] = 0
                      /\ todo \in {<<>>, <<Flush>>}
                      /\ process \in {"stopped", "failed"} => todo = <<>>
                      /\ batch # <<>> => emits = <<>>

SameSession == \A r, x \in Live : runs[r].session = runs[x].session

RunsInv ==
    /\ TypeOK /\ ProgramOrdered /\ QueueWatched /\ StepsSound /\ RepliesOwed
    /\ EndedIsOver /\ SameSession

-----------------------------------------------------------------------------
\* Run r is going to be settled.
Settling(r) == Settle(r) \in Steps \/ Decide(r) \in Steps

\* A capability is cancelled at most after it was asked for.
Follows(a, b) == IsAsk(b) => ~(a.id = b.id /\ (IsAsk(a) \/ IsCancel(a)))

AsksFirst ==
    \A j, k \in 1..Len(Queue) : j < k => Follows(Queue[j], Queue[k])

\* An emission is about a capability of its kind.
Fits(e, table) ==
    (IsAsk(e) \/ IsCancel(e)) =>
        /\ e.id \in DOMAIN table
        /\ (e.kind \in {"compact", "compactCancel"}) <=> table[e.id].class = "compaction"
        /\ e.kind = "query" <=> table[e.id].class = "query"

EmissionsFit == \A e \in Emitted : Fits(e, caps)

\* A request that has not left is unknown outside, an actor of its run made it,
\* its execute has had no reply and, but for a query, the run is going to be
\* settled.
AsksPending ==
    \A e \in Emitted : IsAsk(e) =>
        /\ fate[e.id] = "unsent"
        /\ replied[caps[e.id].request] = <<>>
        /\ process # "stopping"
        /\ process = "up" => /\ e.run \in Live /\ (e.kind # "query" => Settling(e.run))
                             /\ caps[e.id].request = runs[e.run].request
                             /\ caps[e.id].actor \in runs[e.run].alive \cup runs[e.run].dead

\* Capability c is worked on outside, or its request is about to leave.
Wanted(c)    == fate[c] = "sent" \/ \E e \in Emitted : IsAsk(e) /\ e.id = c
Withdrawn(c) == \E e \in Emitted : IsCancel(e) /\ e.id = c

\* A cancellation that has not left is of something unanswered, which an actor
\* waits for only if the answer "interrupted" is about to be given to it.
CancelsPending ==
    /\ \A e \in Emitted : IsCancel(e) =>
           /\ fate[e.id] # "answered"
           /\ \A r \in Live : e.id \in runs[r].open => Deliver(r, e.id) \in Steps
    /\ \A t \in Steps : t.op = "deliver" =>
           Withdrawn(t.id) \/ (t.id \in DOMAIN caps /\ ~IsWork(t.id))

\* What is open was asked for, or is about to be.
OpenIsAsked ==
    \A r \in Live : \A c \in runs[r].open :
        /\ fate[c] \in {"unsent", "sent"}
        /\ ~runs[r].outputFailed => Wanted(c)

\* Wanted work is open, or its cancellation is about to leave.
WantedIsOpen ==
    /\ \A c \in 1..MaxCaps : c \notin DOMAIN caps => fate[c] = "unsent"
    /\ \A c \in DOMAIN caps :
           /\ caps[c].request <= requests
           /\ IsWork(c) /\ Wanted(c) /\ process \in {"up", "stopping", "stopped"} =>
                  Waiting(c) # {} \/ Withdrawn(c)

BridgeExact ==
    process = "up" =>
        pending = {c \in DOMAIN caps : caps[c].class = "provider" /\ fate[c] = "sent"}

WorkInv ==
    /\ AsksFirst /\ EmissionsFit /\ AsksPending /\ CancelsPending /\ OpenIsAsked
    /\ WantedIsOpen /\ BridgeExact /\ NothingOutlivesItsRun

-----------------------------------------------------------------------------
\* Run r is going to be settled, or waits for an answer that will settle it.
Attended(r) ==
    \/ Settling(r) \/ Start(r) \in Steps
    \/ \E c \in runs[r].open : fate[c] = "sent"

\* A lost emission stays on record until the run it belonged to is reported.
LossInv ==
    /\ \A q \in lost : q <= requests
    /\ NoSuccessAfterLoss
    /\ \A t \in Steps : t.op = "reply" /\ t.status = "completed" => t.request \notin lost
    /\ \A r \in Live :
           /\ runs[r].request \in lost => runs[r].outputFailed
           /\ runs[r].signal # "none" => Settling(r)
           /\ runs[r].outputFailed => Attended(r)
    /\ \A e \in Emitted : e.run \in Live => Attended(e.run)
=============================================================================
