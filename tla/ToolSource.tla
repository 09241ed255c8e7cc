----------------------------- MODULE ToolSource -----------------------------
(***************************************************************************)
(* A tool source built with libs.tool (src/lua/libs/tool/init.lua): it     *)
(* keeps the calls the gate opened with `tool.prepare` or `tool.invoke` in *)
(* `pending`, each in a phase, and answers `tool.prepared`, `tool.stream`  *)
(* and `tool.result`.                                                      *)
(*                                                                         *)
(* What a tool's own functions do is the environment's choice: a decision  *)
(* may be given at once or deferred, `execute` may settle in its own call  *)
(* or later.  SourceMay names what the library permits a tool and only     *)
(* some tools do:                                                          *)
(*   "stream early"    call.stream before execute (init.lua has no guard)  *)
(*   "end prepared"    call.err after the decision was answered            *)
(*   "leave undecided" an answer the gate cannot use; only a source that   *)
(*                     is not built with libs.tool sends one               *)
(***************************************************************************)
EXTENDS ToolWire

CONSTANTS
    SourceMay,   \* subset of the three behaviours above
    MaxStreams   \* bound: `tool.stream` messages in one behaviour

ASSUME SourceMayAssumption ==
    SourceMay \subseteq {"stream early", "end prepared", "leave undecided"}

VARIABLES
    phase,       \* per source and id: the phase of pending[id], or "none"
    assessed,    \* history: per id, what its source answered
    ran,         \* history: ids whose tool's execute was called
    streams,     \* number of streams so far
    cut          \* history: ids their source ended after answering

sourceVars == <<phase, assessed, ran, streams, cut>>

Phases == {"none", "prepare", "prepared", "execute"}

SourceTypeOK ==
    /\ phase \in [Sources -> [Inner -> Phases]]
    /\ assessed \in [Inner -> Answers \cup {"none"}]
    /\ ran \subseteq Inner
    /\ streams \in Nat
    /\ cut \subseteq Inner

SourceInit ==
    /\ phase = [s \in Sources |-> [i \in Inner |-> "none"]]
    /\ assessed = [i \in Inner |-> "none"]
    /\ ran = {}
    /\ streams = 0
    /\ cut = {}

SourceAnswers ==
    {"safe", "unsure", "denied"} \cup
        IF "leave undecided" \in SourceMay THEN {"undecided", "unexplained"} ELSE {}

Enter(s, i, p) == phase' = [phase EXCEPT ![s][i] = p]

Emit(s, m) == fromSource' = [fromSource EXCEPT ![s] = Append(@, m)]

Take(s) == toSource' = [toSource EXCEPT ![s] = Tail(@)]

Addressed(s, kind) == toSource[s] # <<>> /\ Head(toSource[s]).kind = kind

-----------------------------------------------------------------------------
\* source.result: forget the call and publish its result.
Settle(s, i, how) ==
    /\ Enter(s, i, "none")
    /\ Emit(s, Result(i, how))

\* call.decided: publish the decision of a call that is being prepared.
Answer(s, i, a) ==
    /\ Enter(s, i, "prepared")
    /\ assessed' = [assessed EXCEPT ![i] = a]
    /\ Emit(s, Prepared(i, a))

\* source.prepare: the arguments are refused or `prepare` or the decision
\* fails; or the tool decides; or it defers the decision.
ReceivePrepare(s) ==
    /\ Addressed(s, "prepare")
    /\ Take(s)
    /\ LET i == Head(toSource[s]).id IN
        \/ Settle(s, i, "refused") /\ UNCHANGED assessed
        \/ \E a \in SourceAnswers : Answer(s, i, a)
        \/ Enter(s, i, "prepare") /\ UNCHANGED <<assessed, fromSource>>
    /\ UNCHANGED <<ran, streams, cut>>

\* The deferred decision of a call still being prepared.
DecideLater(s, i) ==
    /\ phase[s][i] = "prepare"
    /\ \E a \in SourceAnswers : Answer(s, i, a)
    /\ UNCHANGED <<toSource, ran, streams, cut>>

\* source.invoke: the arguments are refused; or `execute` runs, on the
\* prepared call when there is one and on a new call otherwise, and settles
\* the call before it returns or leaves it running.
ReceiveInvoke(s) ==
    /\ Addressed(s, "invoke")
    /\ Take(s)
    /\ LET i == Head(toSource[s]).id IN
        \/ Settle(s, i, "refused") /\ UNCHANGED ran
        \/ Settle(s, i, "ended") /\ ran' = ran \cup {i}
        \/ Enter(s, i, "execute") /\ ran' = ran \cup {i} /\ UNCHANGED fromSource
    /\ UNCHANGED <<assessed, streams, cut>>

\* source.cancel: forget the call, stopping it when it is executing.
ReceiveCancel(s) ==
    /\ Addressed(s, "cancel")
    /\ Take(s)
    /\ Enter(s, Head(toSource[s]).id, "none")
    /\ UNCHANGED <<fromSource, assessed, ran, streams, cut>>

\* call.ok and call.err outside the handlers: the end of an execution, a
\* failure while preparing, or (call.err only) the end of a prepared call.
EndCall(s, i) ==
    /\ \/ phase[s][i] = "execute" /\ Settle(s, i, "ended") /\ UNCHANGED cut
       \/ phase[s][i] = "prepare" /\ Settle(s, i, "refused") /\ UNCHANGED cut
       \/ /\ phase[s][i] = "prepared"
          /\ "end prepared" \in SourceMay
          /\ Settle(s, i, "refused")
          /\ cut' = cut \cup {i}
    /\ UNCHANGED <<toSource, assessed, ran, streams>>

\* call.stream.
EmitStream(s, i) ==
    /\ streams < MaxStreams
    /\ \/ phase[s][i] = "execute"
       \/ phase[s][i] \in {"prepare", "prepared"} /\ "stream early" \in SourceMay
    /\ streams' = streams + 1
    /\ Emit(s, Stream(i))
    /\ UNCHANGED <<toSource, phase, assessed, ran, cut>>

SourceReceives(s) == ReceivePrepare(s) \/ ReceiveInvoke(s) \/ ReceiveCancel(s)

SourceActs(s) ==
    \E i \in Inner : DecideLater(s, i) \/ EndCall(s, i) \/ EmitStream(s, i)
=============================================================================
