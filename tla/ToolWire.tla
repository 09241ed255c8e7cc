------------------------------ MODULE ToolWire ------------------------------
(***************************************************************************)
(* The two directions of the bus between the tool-gate plugin and the tool *)
(* sources it forwards to.  Each source hears the gate's messages in the   *)
(* order the gate sent them and the gate hears one source's messages in    *)
(* the order that source sent them; messages of different sources and of   *)
(* callers and users interleave freely.                                    *)
(*                                                                         *)
(* A call is known on this wire by the inner id the gate mints for it.     *)
(* Arguments and outputs are left out.                                     *)
(***************************************************************************)
EXTENDS Naturals, Sequences

CONSTANTS
    Sources,     \* plugins that advertise tools
    MaxCalls     \* bound: inner ids the gate mints in one behaviour

ASSUME MaxCallsAssumption == MaxCalls \in Nat \ {0}

VARIABLES
    toSource,    \* per source, requests of the gate not yet received
    fromSource   \* per source, messages the gate has not yet dispatched

wire == <<toSource, fromSource>>

Inner == 1..MaxCalls

\* What a source says a call means: its decision, none at all ("undecided":
\* missing or unknown), or one that is not safe and has no reason.
Answers == {"safe", "unsure", "denied", "undecided", "unexplained"}

Requests == [kind : {"prepare", "invoke", "cancel"}, id : Inner]

\* "refused" is an error of a call that never reached its tool's execute,
\* "ended" the output or error of one that did.
Reports == [kind : {"prepared"}, id : Inner, answer : Answers]
           \cup [kind : {"stream"}, id : Inner]
           \cup [kind : {"result"}, id : Inner, how : {"refused", "ended"}]

Request(kind, i) == [kind |-> kind, id |-> i]
Prepared(i, a)   == [kind |-> "prepared", id |-> i, answer |-> a]
Stream(i)        == [kind |-> "stream", id |-> i]
Result(i, h)     == [kind |-> "result", id |-> i, how |-> h]

WireTypeOK ==
    /\ toSource \in [Sources -> Seq(Requests)]
    /\ fromSource \in [Sources -> Seq(Reports)]

WireInit ==
    /\ toSource = [s \in Sources |-> <<>>]
    /\ fromSource = [s \in Sources |-> <<>>]
=============================================================================
