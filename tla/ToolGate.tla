------------------------------ MODULE ToolGate ------------------------------
(***************************************************************************)
(* The tool-gate plugin (src/plugins/tool-gate/src): it owns the registry  *)
(* of advertised tools, decides whether a call runs, and relates a         *)
(* caller's outer id to the inner id a source knows the call by.           *)
(*                                                                         *)
(* GateState is kept as follows.  The value of `pending`, `preparing` and  *)
(* `awaiting_approval` under a key is fixed when the inner id is minted    *)
(* (outer id, source, tool and policy), so it is kept once, in `call`, and *)
(* the maps are the sets of inner ids they hold; awaiting_approval is      *)
(* keyed by the outer id and can hold one call for each.  The owner map is *)
(* rebuilt from `advertised` after every change, so it is an operator.     *)
(*                                                                         *)
(* Messages may be too large to be admitted to the wire: where a body      *)
(* carries arguments, output or reasons the model chooses whether it fits. *)
(***************************************************************************)
EXTENDS ToolWire, FiniteSets, SequencesExt

CONSTANTS
    Outer,       \* ids callers give their calls
    Tools,       \* tool names
    Denied,      \* tools denied with --deny
    ModesSet,    \* bound: modes the operator sets
    Offers,      \* bound: what an advertisement may say of a tool
    MaxUses      \* bound: invocations that carry one outer id

ASSUME DeniedAssumption == Denied \subseteq Tools

ASSUME InputsAssumption ==
    /\ ModesSet \subseteq {"safe", "auto", "yolo"}
    /\ Offers \subseteq {"absent", "routed", "native"}

ASSUME MaxUsesAssumption == MaxUses \in Nat

VARIABLES
    mode,              \* permission mode
    advertised,        \* per source, how each tool is advertised
    call,              \* per minted inner id, the call it stands for
    pending,           \* inner ids whose result the gate will relay
    preparing,         \* inner ids whose source has been asked to prepare
    awaiting,          \* per outer id, the inner id the user is asked about, or 0
    gate,              \* "running", or how the plugin ended
    \* History, read by the properties only:
    asked,             \* per outer id, invocations received
    told,              \* per outer id, the results the caller was sent
    ruledIn,           \* per inner id, the mode its decision was taken in
    approved,          \* inner ids the user approved
    forwarded          \* inner ids whose source was asked to invoke

gateState == <<mode, advertised, call, pending, preparing, awaiting, gate>>
gateHistory == <<asked, told, ruledIn, approved, forwarded>>
gateVars == <<gateState, gateHistory>>

\* Ids are minted from 1, one for each entry of `call`.
inner_id_counter == Len(call)

Modes == {"safe", "auto", "yolo"}

\* The caller's approval policy, or "workflow" for a workflow node's call.
Policies == {"ReadOnly", "Default", "workflow"}

Executions == {"absent", "routed", "native"}

Calls == [outer : Outer, source : Sources, name : Tools, policy : Policies]

\* How a caller's call was settled: the gate's own error or denial, a request
\* or a stream the wire rejected, a cancellation before or after the call was
\* forwarded, or the source's result before or after its tool executed.
Settlements == {"denied", "rejected", "aborted", "withdrawn", "canceled", "refused", "ended"}

GateTypeOK ==
    /\ mode \in Modes
    /\ advertised \in [Sources -> [Tools -> Executions]]
    /\ call \in Seq(Calls)
    /\ inner_id_counter <= MaxCalls
    /\ pending \subseteq Inner
    /\ preparing \subseteq Inner
    /\ awaiting \in [Outer -> 0..MaxCalls]
    /\ gate \in {"running", "stopped", "failed"}
    /\ asked \in [Outer -> 0..MaxUses]
    /\ told \in [Outer -> Seq(Settlements)]
    /\ ruledIn \in [Inner -> Modes \cup {"none"}]
    /\ approved \subseteq Inner
    /\ forwarded \subseteq Inner

GateInit ==
    /\ mode = "safe"
    /\ advertised = [s \in Sources |-> [t \in Tools |-> "absent"]]
    /\ call = <<>>
    /\ pending = {}
    /\ preparing = {}
    /\ awaiting = [o \in Outer |-> 0]
    /\ gate = "running"
    /\ asked = [o \in Outer |-> 0]
    /\ told = [o \in Outer |-> <<>>]
    /\ ruledIn = [i \in Inner |-> "none"]
    /\ approved = {}
    /\ forwarded = {}

-----------------------------------------------------------------------------
\* Mutant of Verdict: the mode is consulted before the policy.
VerdictModeFirst(policy, m, assessment) ==
    CASE assessment = "safe" \/ m = "yolo" -> "run"
      [] assessment = "unsure" /\ m = "auto" -> "run"
      [] assessment = "unsure" /\ m = "safe" -> IF policy = "ReadOnly" THEN "deny" ELSE "ask"
      [] assessment = "denied" /\ m # "yolo" -> "deny"

\* The decision table of policy.rs: policy first, mode second.
Verdict(policy, m, assessment) ==
    CASE assessment = "safe" -> "run"
      [] assessment # "safe" /\ policy = "ReadOnly" -> "deny"
      [] assessment = "unsure" /\ policy = "Default" -> IF m = "safe" THEN "ask" ELSE "run"
      [] assessment = "denied" /\ policy = "Default" -> IF m = "yolo" THEN "run" ELSE "deny"

\* A denied tool is assessed as denied whatever its source's decision was;
\* any other decision that is not safe needs a reason.
Assessment(name, answer) ==
    CASE answer = "undecided" -> "undecided"
      [] answer # "undecided" /\ name \in Denied -> "denied"
      [] answer = "unexplained" /\ name \notin Denied -> "undecided"
      [] OTHER -> answer

\* What becomes of a prepared call; a call that cannot be decided fails.
Ruling(c, answer) ==
    LET a == Assessment(c.name, answer)
    IN  IF a = "undecided" THEN "deny" ELSE Verdict(c.policy, mode, a)

\* rebuild_owner_map: the sources a tool is advertised by.
Owners(name) == {s \in Sources : advertised[s][name] # "absent"}

-----------------------------------------------------------------------------
Running == gate = "running"

Tell(o, how) == told' = [told EXCEPT ![o] = Append(@, how)]

Post(i, kind) ==
    toSource' = [toSource EXCEPT ![call[i].source] = Append(@, Request(kind, i))]

\* Cancel requests for a set of calls: a cancellation sorts them by id, the
\* exit of the plugin walks a hash map.
PostCancels(ids, sorted) ==
    LET own(s) == {i \in ids : call[i].source = s}
    IN  \E order \in [Sources -> UNION {SetToSeqs(own(s)) : s \in Sources}] :
            /\ \A s \in Sources :
                /\ order[s] \in SetToSeqs(own(s))
                /\ sorted => \A j, k \in DOMAIN order[s] : j < k => order[s][j] < order[s][k]
            /\ toSource' = [s \in Sources |->
                    toSource[s] \o [k \in DOMAIN order[s] |-> Request("cancel", order[s][k])]]

NextReport(s, kind) ==
    /\ Running
    /\ fromSource[s] # <<>>
    /\ Head(fromSource[s]).kind = kind
    /\ fromSource' = [fromSource EXCEPT ![s] = Tail(@)]

-----------------------------------------------------------------------------
\* Mutant of Exit: the plugin leaves without cancelling what is pending.
ExitSilently(status) ==
    /\ gate' = status
    /\ pending' = {}
    /\ preparing' = {}
    /\ awaiting' = [o \in Outer |-> 0]
    /\ UNCHANGED toSource

\* run_dispatch_loop returned: tell the sources to drop what is pending,
\* clear the maps and exit; only a return without error says goodbye.
Exit(status) ==
    /\ gate' = status
    /\ PostCancels(pending, FALSE)
    /\ pending' = {}
    /\ preparing' = {}
    /\ awaiting' = [o \in Outer |-> 0]

\* A shutdown envelope, the end of stdin or ctrl-c; or a fault of the reader.
Stop ==
    /\ Running
    /\ \E status \in {"stopped", "failed"} : Exit(status)
    /\ UNCHANGED <<fromSource, mode, advertised, call, gateHistory>>

\* The writer closed: nothing can be sent any more, cancels included.
WriterClosed ==
    /\ Running
    /\ gate' = "failed"
    /\ pending' = {}
    /\ preparing' = {}
    /\ awaiting' = [o \in Outer |-> 0]
    /\ UNCHANGED <<wire, mode, advertised, call, gateHistory>>

SetMode(m) ==
    /\ Running
    /\ mode' = m
    /\ UNCHANGED <<wire, advertised, call, pending, preparing,
                   awaiting, gate, gateHistory>>

\* Mutant of ToolsAdvertise: no look at what other sources advertise.
ToolsAdvertiseUnchecked(s, catalog) ==
    /\ Running
    /\ advertised' = [advertised EXCEPT ![s] = catalog]
    /\ UNCHANGED <<wire, mode, call, pending, preparing, awaiting, gate, gateHistory>>

\* handle_tools_advertise: a list that names a tool of another source is
\* rejected whole; an accepted one replaces what its source advertised.
ToolsAdvertise(s, catalog) ==
    /\ Running
    /\ \A t \in Tools : catalog[t] # "absent" => Owners(t) \subseteq {s}
    /\ advertised' = [advertised EXCEPT ![s] = catalog]
    /\ UNCHANGED <<wire, mode, call, pending, preparing,
                   awaiting, gate, gateHistory>>

-----------------------------------------------------------------------------
\* execute: the call is pending and its source is asked to invoke it; when
\* the request does not fit, the correlation is dropped and the caller told.
Execute(i, c, fits) ==
    IF fits
    THEN /\ pending' = pending \cup {i}
         /\ toSource' = [toSource EXCEPT ![c.source] = Append(@, Request("invoke", i))]
         /\ forwarded' = forwarded \cup {i}
         /\ UNCHANGED told
    ELSE /\ pending' = pending \ {i}
         /\ Tell(c.outer, "rejected")
         /\ UNCHANGED <<toSource, forwarded>>

\* prepare: the same for a prepare request.
Prepare(i, c, fits) ==
    IF fits
    THEN /\ pending' = pending \cup {i}
         /\ preparing' = preparing \cup {i}
         /\ toSource' = [toSource EXCEPT ![c.source] = Append(@, Request("prepare", i))]
         /\ UNCHANGED told
    ELSE /\ Tell(c.outer, "rejected")
         /\ UNCHANGED <<pending, preparing, toSource>>

\* Mutants of Deny: the correlation is kept, or the source is sent the wrong
\* request.
DenyKeepsPending(i) == Tell(call[i].outer, "denied") /\ Post(i, "cancel") /\ UNCHANGED pending
DenyInvokes(i) ==
    pending' = pending \ {i} /\ Tell(call[i].outer, "denied") /\ Post(i, "invoke")

\* deny and fail: the caller learns why the tool was not run and the source
\* drops what it prepared.
Deny(i) ==
    /\ pending' = pending \ {i}
    /\ Tell(call[i].outer, "denied")
    /\ Post(i, "cancel")

\* handle_tool_invoke.  `allowed` is whether the invocation's allowlist, if
\* any, names the tool; policy "invalid" stands for a missing or unknown
\* policy and for a malformed or contradictory workflow marker.
ToolInvoke(o, name, allowed, policy, fits) ==
    /\ Running
    /\ asked[o] < MaxUses
    /\ inner_id_counter < MaxCalls
    /\ asked' = [asked EXCEPT ![o] = @ + 1]
    /\ LET callable == {s \in Owners(name) : allowed /\ advertised[s][name] = "routed"}
           deniedAtOnce == /\ policy \in {"ReadOnly", "Default"}
                           /\ name \in Denied
                           /\ Verdict(policy, mode, "denied") = "deny"
           i == inner_id_counter + 1
       IN  \/ /\ callable = {} \/ policy = "invalid" \/ deniedAtOnce
              /\ Tell(o, "denied")
              /\ UNCHANGED <<toSource, call, pending, preparing, forwarded>>
           \/ /\ policy # "invalid" /\ ~deniedAtOnce
              /\ \E s \in callable :
                    LET c == [outer |-> o, source |-> s, name |-> name, policy |-> policy]
                    IN  /\ call' = Append(call, c)
                        /\ \/ policy = "workflow" /\ Execute(i, c, fits) /\ UNCHANGED preparing
                           \/ policy # "workflow" /\ Prepare(i, c, fits) /\ UNCHANGED forwarded
    /\ UNCHANGED <<fromSource, mode, advertised, awaiting, gate, ruledIn, approved>>

\* handle_tool_prepared.  An invoke carries the fields its prepare carried,
\* which fitted; a permission request that does not fit ends the plugin.
ToolPrepared(s) ==
    /\ NextReport(s, "prepared")
    /\ LET i == Head(fromSource[s]).id
           ruling == Ruling(call[i], Head(fromSource[s]).answer)
       IN  \/ /\ i \notin preparing
              /\ UNCHANGED <<toSource, pending, preparing, awaiting, gate, told, ruledIn, forwarded>>
           \/ /\ i \in preparing
              /\ ruledIn' = [ruledIn EXCEPT ![i] = mode]
              /\ \/ /\ ruling = "run"
                    /\ preparing' = preparing \ {i}
                    /\ Execute(i, call[i], TRUE)
                    /\ UNCHANGED <<awaiting, gate>>
                 \/ /\ ruling = "deny"
                    /\ preparing' = preparing \ {i}
                    /\ Deny(i)
                    /\ UNCHANGED <<awaiting, gate, forwarded>>
                 \/ /\ ruling = "ask"
                    /\ preparing' = preparing \ {i}
                    /\ awaiting' = [awaiting EXCEPT ![call[i].outer] = i]
                    /\ UNCHANGED <<toSource, pending, gate, told, forwarded>>
                 \/ /\ ruling = "ask"
                    /\ Exit("failed")
                    /\ UNCHANGED <<told, forwarded>>
    /\ UNCHANGED <<mode, advertised, call, asked, approved>>

\* handle_permission_response for an outer id the user was asked about; an
\* approval may replace the arguments, so its request may not fit.
PermissionResponse(o, approve, fits) ==
    /\ Running
    /\ awaiting[o] # 0
    /\ awaiting' = [awaiting EXCEPT ![o] = 0]
    /\ LET i == awaiting[o] IN
        \/ approve /\ Execute(i, call[i], fits) /\ approved' = approved \cup {i}
        \/ ~approve /\ Deny(i) /\ UNCHANGED <<approved, forwarded>>
    /\ UNCHANGED <<fromSource, mode, advertised, call, preparing,
                   gate, asked, ruledIn>>

\* Mutants of ToolCancel: preparations survive, or only one of several calls
\* under the id is released.
CancelMutant(o, forwards, kept) ==
    /\ Running
    /\ awaiting[o] # 0 \/ forwards # {}
    /\ awaiting' = [awaiting EXCEPT ![o] = 0]
    /\ pending' = pending \ forwards
    /\ preparing' = preparing \ (forwards \ kept)
    /\ PostCancels(forwards, TRUE)
    /\ Tell(o, IF forwards \cap forwarded = {} THEN "withdrawn" ELSE "canceled")
    /\ UNCHANGED <<fromSource, mode, advertised, call, gate, asked, ruledIn, approved, forwarded>>
CancelKeepsPreparing(o) == CancelMutant(o, {i \in pending : call[i].outer = o}, Inner)
CancelFirstOnly(o) ==
    LET forwards == {i \in pending : call[i].outer = o}
    IN  CancelMutant(o, {i \in forwards : \A j \in forwards : i <= j}, {})

\* handle_tool_cancel for an outer id with something to cancel.
ToolCancel(o) ==
    LET forwards == {i \in pending : call[i].outer = o}
    IN  /\ Running
        /\ awaiting[o] # 0 \/ forwards # {}
        /\ awaiting' = [awaiting EXCEPT ![o] = 0]
        /\ pending' = pending \ forwards
        /\ preparing' = preparing \ forwards
        /\ PostCancels(forwards, TRUE)
        /\ Tell(o, IF forwards \cap forwarded = {} THEN "withdrawn" ELSE "canceled")
        /\ UNCHANGED <<fromSource, mode, advertised, call, gate,
                       asked, ruledIn, approved, forwarded>>

\* handle_tool_stream: progress the wire rejects cancels the invocation and
\* settles its caller; `preparing` and `awaiting_approval` are left alone.
ToolStream(s, fits) ==
    /\ NextReport(s, "stream")
    /\ LET i == Head(fromSource[s]).id
       IN  \/ /\ i \notin pending \/ fits
              /\ UNCHANGED <<toSource, pending, told>>
           \/ /\ i \in pending /\ ~fits
              /\ pending' = pending \ {i}
              /\ Post(i, "cancel")
              /\ Tell(call[i].outer, "aborted")
    /\ UNCHANGED <<mode, advertised, call, preparing, awaiting, gate,
                   asked, ruledIn, approved, forwarded>>

\* Mutant of ToolResult: the question to the user survives the result.
ToolResultKeepsAwaiting(s) ==
    /\ NextReport(s, "result")
    /\ LET i == Head(fromSource[s]).id
       IN  \/ i \notin pending /\ UNCHANGED <<pending, preparing, told>>
           \/ /\ i \in pending
              /\ pending' = pending \ {i}
              /\ preparing' = preparing \ {i}
              /\ Tell(call[i].outer, Head(fromSource[s]).how)
    /\ UNCHANGED <<toSource, mode, advertised, call, awaiting, gate,
                   asked, ruledIn, approved, forwarded>>

\* handle_tool_result: a result of a pending call is relayed under the outer
\* id (as an error of its own when it does not fit); any other is dropped.
ToolResult(s) ==
    /\ NextReport(s, "result")
    /\ LET i == Head(fromSource[s]).id
       IN  \/ /\ i \notin pending
              /\ UNCHANGED <<pending, preparing, awaiting, told>>
           \/ /\ i \in pending
              /\ pending' = pending \ {i}
              /\ preparing' = preparing \ {i}
              /\ awaiting' = [o \in Outer |-> IF awaiting[o] = i THEN 0 ELSE awaiting[o]]
              /\ Tell(call[i].outer, Head(fromSource[s]).how)
    /\ UNCHANGED <<toSource, mode, advertised, call, gate,
                   asked, ruledIn, approved, forwarded>>
=============================================================================
