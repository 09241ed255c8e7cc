----------------------------- MODULE ToolCalls ------------------------------
(***************************************************************************)
(* A tool call from end to end: callers, the user and the operator drive   *)
(* the gate, the gate drives the tool sources, and the sources answer it,  *)
(* all of them interleaved.                                                *)
(***************************************************************************)
EXTENDS ToolGate, ToolSource

vars == <<wire, gateVars, sourceVars>>

TypeOK == WireTypeOK /\ GateTypeOK /\ SourceTypeOK

Init == WireInit /\ GateInit /\ SourceInit

\* Messages to the gate that do not come from a source.
Requested ==
    \/ \E o \in Outer, t \in Tools, allowed, fits \in BOOLEAN,
          policy \in Policies \cup {"invalid"} : ToolInvoke(o, t, allowed, policy, fits)
    \/ \E o \in Outer : ToolCancel(o)
    \/ \E o \in Outer, approve, fits \in BOOLEAN : PermissionResponse(o, approve, fits)
    \/ \E m \in ModesSet : SetMode(m)
    \/ \E s \in Sources, catalog \in [Tools -> Offers] : ToolsAdvertise(s, catalog)

Reported(s) ==
    \/ ToolPrepared(s)
    \/ \E fits \in BOOLEAN : ToolStream(s, fits)
    \/ ToolResult(s)

Next ==
    \/ (Requested \/ Stop \/ WriterClosed) /\ UNCHANGED sourceVars
    \/ \E s \in Sources : Reported(s) /\ UNCHANGED sourceVars
    \/ \E s \in Sources : (SourceReceives(s) \/ SourceActs(s)) /\ UNCHANGED gateVars

\* The bus delivers what the gate sent; nobody is obliged to anything else.
Fairness == \A s \in Sources : WF_vars(SourceReceives(s) /\ UNCHANGED gateVars)

Spec == Init /\ [][Next]_vars /\ Fairness

-----------------------------------------------------------------------------
\* A source has been sent, and has not yet taken, a request.
Asking(s, i, kind) == \E k \in 1..Len(toSource[s]) : toSource[s][k] = Request(kind, i)

Sent(i, kind) == \E s \in Sources : Asking(s, i, kind)

Heard(i, kind) ==
    \E s \in Sources : \E k \in 1..Len(fromSource[s]) :
        fromSource[s][k].kind = kind /\ fromSource[s][k].id = i

InPhase(i, p) == \E s \in Sources : phase[s][i] = p

\* A tool is advertised by at most one source, so the owner map does not
\* depend on the order rebuild_owner_map visits the sources in.
OneOwner == \A t \in Tools : \A r, s \in Owners(t) : r = s

\* Every invocation is settled at most once: whatever order decisions,
\* approvals, cancellations, rejected streams and results arrive in, a
\* caller is sent no more results than it made calls.
SettledAtMostOnce == \A o \in Outer : Len(told[o]) <= asked[o]

\* While the gate runs, a call whose caller was sent nothing is still held:
\* no handler loses a caller (one invocation for each outer id).
UnsettledIsHeld ==
    Running => \A o \in Outer :
        Len(told[o]) < asked[o] => \E i \in pending : call[i].outer = o

\* Every held call waits for somebody who can end it: its source has the
\* prepare request, is preparing, or has answered; or the user is being
\* asked; or its source has the invoke request, is executing, or has
\* answered (one invocation for each outer id).
NothingStranded ==
    Running => \A i \in pending :
        \/ i \in preparing /\ (Sent(i, "prepare") \/ InPhase(i, "prepare")
                                 \/ Heard(i, "prepared") \/ Heard(i, "result"))
        \/ awaiting[call[i].outer] = i
        \/ i \in forwarded /\ (Sent(i, "invoke") \/ InPhase(i, "execute")
                                 \/ Heard(i, "result"))

\* What the decision table and the user allow: the call is a workflow
\* node's; or its source assessed it as safe; or its caller has the Default
\* policy and the user approved it, or the mode the decision was taken in
\* runs what is unsure (auto) or everything (yolo).
Allowed(i) ==
    LET c == call[i]
        assessedAs(a) == assessed[i] = a /\ c.name \notin Denied
    IN  \/ c.policy = "workflow"
        \/ assessedAs("safe")
        \/ /\ c.policy = "Default"
           /\ \/ assessedAs("unsure") /\ (i \in approved \/ ruledIn[i] = "auto")
              \/ ruledIn[i] = "yolo"

\* A tool executes only if the decision table or the user allowed it, under
\* every order of answers, approvals, mode changes and cancellations.
RunsOnlyWhenAllowed == \A i \in ran : Allowed(i)

\* The source ended the call after it had answered the prepare request, and
\* the gate forwarded it before it heard of that: the invoke on the wire
\* opens the call anew at the source, which executes it for nobody.
Revived(i) == i \in cut /\ i \in forwarded

\* A caller that was told its tool was not run, because the gate or the user
\* denied the call or because it withdrew the call before it was forwarded,
\* was told the truth: the tool does not execute, then or later.  What the
\* source itself says in this way is true as well, unless it had prepared
\* the call and ended it while the gate's invoke was under way (one
\* invocation for each outer id).
NotRunMeansNotRun ==
    \A i \in ran :
        /\ Range(told[call[i].outer]) \cap {"denied", "withdrawn"} = {}
        /\ "refused" \in Range(told[call[i].outer]) => Revived(i)

\* A source is asked to invoke a call at most once, and never after the
\* call's caller was sent a result: an approval, a late answer or a mode
\* change cannot revive a settled call.
ForwardedOnceAndUnsettled ==
    [][/\ forwarded \subseteq forwarded'
       /\ \A i \in Inner :
            (\E s \in Sources : toSource'[s] = Append(toSource[s], Request("invoke", i)))
                => /\ i \notin forwarded
                   /\ told[call'[i].outer] = <<>>]_vars

\* A cancellation leaves nothing of the outer id behind, an accidental
\* second call under the same id included: no correlation, no preparation
\* and no question to the user that a later message could act on.
CancelReleases ==
    [][\A o \in Outer :
        (Len(told'[o]) > Len(told[o]) /\ told'[o][Len(told'[o])] \in {"withdrawn", "canceled"})
            => /\ awaiting'[o] = 0
               /\ \A i \in pending' \cup preparing' : call[i].outer # o]_vars

\* Calls whose request was rejected by the wire: the gate forgets them without
\* a cancel, also one that its source has prepared.
Abandoned(i) == i \in DOMAIN call /\ "rejected" \in Range(told[call[i].outer])

\* A source holds no call the gate has forgotten without telling it: the
\* call is held, or a cancel is under way, or its invoke was rejected by the
\* wire, or its source had ended it and was asked to invoke it nevertheless,
\* or the gate died with its writer (one invocation for each outer id).
SourceWorkTracked ==
    \A i \in Inner :
        (\E s \in Sources : phase[s][i] # "none") =>
            i \in pending \/ Sent(i, "cancel") \/ Abandoned(i) \/ Revived(i) \/ gate = "failed"

\* Gate, caller and source agree on a call: it is held until its caller is
\* told, somebody who holds it can end it, and no source keeps one the gate
\* has forgotten.
CallsHeld == UnsettledIsHeld /\ NothingStranded /\ SourceWorkTracked

\* When the gate stops in order, every source eventually drops every call it
\* held for it, except one the gate had forgotten before: an invoke the wire
\* rejected, a call its source had ended and was asked to invoke nevertheless.
StopReleasesSources ==
    gate = "stopped" ~> \A s \in Sources, i \in Inner :
                            phase[s][i] = "none" \/ Abandoned(i) \/ Revived(i)

-----------------------------------------------------------------------------
(* Why RunsOnlyWhenAllowed holds: the parts of an inductive invariant.      *)

\* Only minted ids are held, and an id has been answered only if minted.
IdsMinted ==
    /\ pending \cup preparing \cup forwarded \subseteq DOMAIN call
    /\ \A i \in Inner \ DOMAIN call : assessed[i] = "none"

\* A request on the wire is for a minted id; an invoke was forwarded; a
\* prepare is at its call's source, there once, and not yet answered.
RequestsJustified ==
    \A s \in Sources : \A k \in 1..Len(toSource[s]) :
        /\ toSource[s][k].id \in DOMAIN call
        /\ toSource[s][k].kind = "invoke" => toSource[s][k].id \in forwarded
        /\ toSource[s][k].kind = "prepare" =>
             /\ assessed[toSource[s][k].id] = "none"
             /\ call[toSource[s][k].id].source = s
             /\ \A j \in 1..Len(toSource[s]) :
                  toSource[s][j] = toSource[s][k] => j = k

\* A call being prepared is at its source, its request is gone, and it is
\* not yet answered.
PreparationsJustified ==
    \A s \in Sources, i \in Inner : phase[s][i] = "prepare" =>
        /\ i \in DOMAIN call
        /\ call[i].source = s
        /\ assessed[i] = "none"
        /\ \A k \in 1..Len(toSource[s]) : toSource[s][k] # Request("prepare", i)

\* An answer on its way to the gate is the answer its source gave.
AnswersGenuine ==
    \A s \in Sources : \A k \in 1..Len(fromSource[s]) :
        fromSource[s][k].kind = "prepared" =>
            /\ fromSource[s][k].id \in DOMAIN call
            /\ assessed[fromSource[s][k].id] = fromSource[s][k].answer

\* A call being prepared has a policy and has not been forwarded.
PreparingUndecided ==
    \A i \in preparing : i \notin forwarded /\ call[i].policy # "workflow"

\* The user is asked only about an unsure call of a Default caller.
AskedRightly ==
    \A o \in Outer : awaiting[o] # 0 =>
        /\ awaiting[o] \in DOMAIN call
        /\ awaiting[o] \notin preparing
        /\ call[awaiting[o]].policy = "Default"
        /\ call[awaiting[o]].name \notin Denied
        /\ assessed[awaiting[o]] = "unsure"

\* What was forwarded was allowed, and only what was forwarded runs.
ForwardedAllowed == ran \subseteq forwarded /\ \A i \in forwarded : Allowed(i)

DecisionInv ==
    /\ IdsMinted
    /\ RequestsJustified
    /\ PreparationsJustified
    /\ AnswersGenuine
    /\ PreparingUndecided
    /\ AskedRightly
    /\ ForwardedAllowed
-----------------------------------------------------------------------------
(* Why SettledAtMostOnce and CancelReleases hold when no tool streams        *)
(* before it executes: the parts of an inductive invariant.                  *)

\* The calls the gate holds for a caller's id.
HeldFor(o) == {i \in pending : call[i].outer = o}

\* What is being prepared, and what the user is asked about, is held; a
\* question is about its own outer id's call and not yet forwarded.
HoldingsAgree ==
    /\ preparing \subseteq pending
    /\ \A o \in Outer : awaiting[o] # 0 =>
          awaiting[o] \in pending \ forwarded /\ call[awaiting[o]].outer = o

\* Only a call that was forwarded executes or streams.
StreamsForwarded ==
    /\ \A s \in Sources, i \in Inner : phase[s][i] = "execute" => i \in forwarded
    /\ \A s \in Sources : \A k \in 1..Len(fromSource[s]) :
          fromSource[s][k].kind = "stream" => fromSource[s][k].id \in forwarded

\* Results sent and calls held are together no more than the calls made.
HeldOrSettled == \A o \in Outer : Len(told[o]) + Cardinality(HeldFor(o)) <= asked[o]

HoldInv == HoldingsAgree /\ StreamsForwarded /\ HeldOrSettled
-----------------------------------------------------------------------------
(* Why NotRunMeansNotRun and CallsHeld hold when moreover an outer id is     *)
(* used once: the further parts.                                             *)

\* A call is only ever at its own source.
AtHome ==
    \A s \in Sources :
        /\ \A i \in Inner : phase[s][i] # "none" => i \in DOMAIN call /\ call[i].source = s
        /\ \A k \in 1..Len(toSource[s]) : call[toSource[s][k].id].source = s

\* A forwarded call is a workflow node's or was answered, so it is not being
\* prepared any more.
AnsweredFirst ==
    /\ \A i \in forwarded : assessed[i] # "none" \/ call[i].policy = "workflow"
    /\ \A s \in Sources, i \in Inner :
          phase[s][i] = "prepare" \/ Asking(s, i, "prepare") => call[i].policy # "workflow"

\* An invoke is requested once, and its call has not run before it is taken.
InvokedOnce ==
    \A s \in Sources :
        /\ \A i \in Inner : phase[s][i] = "execute" => i \in ran
        /\ \A k \in 1..Len(toSource[s]) : toSource[s][k].kind = "invoke" =>
              /\ toSource[s][k].id \notin ran
              /\ \A j \in 1..Len(toSource[s]) : toSource[s][j] = toSource[s][k] => j = k

\* A cancel is of a call the gate has forgotten, and nothing follows it.
CancelIsLast ==
    \A s \in Sources : \A k \in 1..Len(toSource[s]) : toSource[s][k].kind = "cancel" =>
        /\ toSource[s][k].id \notin pending
        /\ \A j \in 1..Len(toSource[s]) :
              toSource[s][j].id = toSource[s][k].id /\ toSource[s][j].kind # "cancel" => j < k

\* A prepared call was answered; one that was then ended is not prepared
\* again.
CutIsAnswered ==
    /\ \A s \in Sources, i \in Inner : phase[s][i] = "prepared" => assessed[i] # "none"
    /\ \A i \in cut : assessed[i] # "none" /\ \A s \in Sources : phase[s][i] # "prepared"

\* Nothing of a call is left at a source that has sent its result, unless
\* the call was ended after it had been prepared.
ResultIsFinal(i, how) ==
    /\ i \in DOMAIN call
    /\ i \notin cut =>
          /\ assessed[i] = "none" \/ i \in forwarded
          /\ how = "refused" => i \notin ran
          /\ \A s \in Sources :
                phase[s][i] = "none" /\ ~Asking(s, i, "prepare") /\ ~Asking(s, i, "invoke")

ResultsFinal ==
    \A s \in Sources : \A k \in 1..Len(fromSource[s]) :
        fromSource[s][k].kind = "result" => ResultIsFinal(fromSource[s][k].id, fromSource[s][k].how)

\* What a source holds or will hold, the gate holds or has dropped knowingly.
WorkTracked ==
    \A s \in Sources, i \in Inner :
        phase[s][i] # "none" \/ Asking(s, i, "prepare") \/ Asking(s, i, "invoke") =>
            i \in pending \/ Asking(s, i, "cancel") \/ Abandoned(i) \/ Revived(i) \/ gate = "failed"

\* An outer id stands for one call, made by one invocation.
OneEach ==
    /\ \A i, j \in DOMAIN call : call[i].outer = call[j].outer => i = j
    /\ \A i \in DOMAIN call : asked[call[i].outer] # 0

\* What a caller was told of its call is true of it.
ToldTruly ==
    \A i \in DOMAIN call :
        /\ i \in forwarded => Range(told[call[i].outer]) \cap {"denied", "withdrawn"} = {}
        /\ "refused" \in Range(told[call[i].outer]) /\ i \notin cut =>
              i \notin ran /\ \A s \in Sources : ~Asking(s, i, "invoke")

LifeInv ==
    /\ AtHome
    /\ AnsweredFirst
    /\ InvokedOnce
    /\ CancelIsLast
    /\ CutIsAnswered
    /\ ResultsFinal
    /\ WorkTracked
    /\ OneEach
    /\ ToldTruly
    /\ UnsettledIsHeld
    /\ NothingStranded
=============================================================================
