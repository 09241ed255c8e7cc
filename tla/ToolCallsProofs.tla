--------------------------- MODULE ToolCallsProofs --------------------------
(***************************************************************************)
(* What ToolCalls guarantees for any number of sources, tools, callers and *)
(* calls: type correctness, one owner for each tool, and that a tool       *)
(* executes only if the decision table allowed it, for every behaviour of  *)
(* a source; and, of sources that stream only what they execute, that a    *)
(* caller is sent no more results than it made calls, that a cancellation  *)
(* releases every call of its id, and, for ids used once, that a call is   *)
(* forwarded once and never after its caller was settled, that a call said *)
(* not to have run did not run, and that every call is held until it is    *)
(* settled.  Sources may end what they have prepared; what the last two    *)
(* cannot promise then is named in them (Revived).                         *)
(***************************************************************************)
EXTENDS ToolCalls, FiniteSetTheorems, TLAPS

\* The sequence facts the proofs use.
LEMMA EmptySeq == ASSUME NEW S PROVE <<>> \in Seq(S)
  OBVIOUS

LEMMA AppendFacts ==
    ASSUME NEW S, NEW q \in Seq(S), NEW e \in S
    PROVE  /\ Append(q, e) \in Seq(S)
           /\ Len(Append(q, e)) = Len(q) + 1
           /\ \A k \in 1..Len(q) : Append(q, e)[k] = q[k]
           /\ Append(q, e)[Len(q) + 1] = e
  OBVIOUS

LEMMA TailFacts ==
    ASSUME NEW S, NEW q \in Seq(S), q # <<>>
    PROVE  /\ Head(q) \in S
           /\ Head(q) = q[1]
           /\ Len(q) >= 1
           /\ Tail(q) \in Seq(S)
           /\ Len(Tail(q)) = Len(q) - 1
           /\ \A k \in 1..Len(Tail(q)) : Tail(q)[k] = q[k + 1]
  OBVIOUS

LEMMA ShiftIndex ==
    ASSUME NEW a \in Nat, NEW b \in Nat, NEW k \in 1..(a + b), k > a
    PROVE  k - a \in 1..b /\ a + (k - a) = k
  OBVIOUS

\* Cancelling a set of calls appends cancel requests of those calls only.
LEMMA CancelsAppended ==
    ASSUME WireTypeOK, NEW ids \in SUBSET Inner, NEW sorted \in BOOLEAN,
           PostCancels(ids, sorted)
    PROVE  /\ toSource' \in [Sources -> Seq(Requests)]
           /\ \A s \in Sources :
                /\ Len(toSource'[s]) >= Len(toSource[s])
                /\ \A k \in 1..Len(toSource'[s]) :
                     \/ k <= Len(toSource[s]) /\ toSource'[s][k] = toSource[s][k]
                     \/ /\ k > Len(toSource[s])
                        /\ toSource'[s][k].kind = "cancel"
                        /\ toSource'[s][k].id \in ids
  <1> DEFINE own(s) == {i \in ids : call[i].source = s}
             tail(f) == [k \in DOMAIN f |-> Request("cancel", f[k])]
  <1>1. PICK order :
            /\ \A s \in Sources : order[s] \in SetToSeqs(own(s))
            /\ toSource' = [s \in Sources |-> toSource[s] \o tail(order[s])]
    BY DEF PostCancels
  <1>2. ASSUME NEW s \in Sources
        PROVE  /\ tail(order[s]) \in Seq(Requests)
               /\ \A k \in 1..Len(tail(order[s])) :
                    tail(order[s])[k].kind = "cancel" /\ tail(order[s])[k].id \in ids
    <2>1. IsFiniteSet(own(s))
      <3>1. IsFiniteSet(Inner) BY MaxCallsAssumption, FS_Interval DEF Inner
      <3> QED BY <3>1, FS_Subset
    <2>2. Cardinality(own(s)) \in Nat BY <2>1, FS_CardinalityType
    <2>3. order[s] \in [1..Cardinality(own(s)) -> own(s)]
      BY <1>1 DEF SetToSeqs
    <2> HIDE DEF own
    <2>4. own(s) \subseteq ids BY DEF own
    <2> DEFINE n == Cardinality(own(s))
    <2>5. tail(order[s]) = [k \in 1..n |-> [kind |-> "cancel", id |-> order[s][k]]]
      BY <2>3 DEF Request
    <2>6. \A k \in 1..n : order[s][k] \in ids /\ order[s][k] \in Inner
      BY <2>3, <2>4
    <2> HIDE DEF n, tail
    <2>7. n \in Nat BY <2>2 DEF n
    <2>8. tail(order[s]) \in [1..n -> Requests] BY <2>5, <2>6 DEF Requests
    <2>9. tail(order[s]) \in Seq(Requests) /\ Len(tail(order[s])) = n BY <2>7, <2>8
    <2>10. ASSUME NEW k \in 1..n
           PROVE  tail(order[s])[k].kind = "cancel" /\ tail(order[s])[k].id \in ids
      BY <2>5, <2>6
    <2> QED BY <2>9, <2>10, Zenon
  <1> HIDE DEF tail, own
  <1>3. ASSUME NEW s \in Sources
        PROVE  /\ toSource'[s] \in Seq(Requests)
               /\ Len(toSource'[s]) >= Len(toSource[s])
               /\ \A k \in 1..Len(toSource'[s]) :
                     \/ k <= Len(toSource[s]) /\ toSource'[s][k] = toSource[s][k]
                     \/ /\ k > Len(toSource[s])
                        /\ toSource'[s][k].kind = "cancel"
                        /\ toSource'[s][k].id \in ids
    <2>1. toSource'[s] = toSource[s] \o tail(order[s]) BY <1>1
    <2>2. toSource[s] \in Seq(Requests) BY DEF WireTypeOK
    <2>3. tail(order[s]) \in Seq(Requests) BY <1>2
    <2>4. /\ toSource'[s] \in Seq(Requests)
          /\ Len(toSource'[s]) = Len(toSource[s]) + Len(tail(order[s]))
          /\ \A k \in 1..Len(toSource[s]) : toSource'[s][k] = toSource[s][k]
          /\ \A k \in 1..Len(tail(order[s])) :
                toSource'[s][Len(toSource[s]) + k] = tail(order[s])[k]
      <3> DEFINE q == toSource[s]
                 r == tail(order[s])
      <3>1. q \in Seq(Requests) /\ r \in Seq(Requests) BY <2>2, <2>3
      <3>2. toSource'[s] = q \o r BY <2>1
      <3> HIDE DEF q, r
      <3>3. /\ q \o r \in Seq(Requests)
            /\ Len(q \o r) = Len(q) + Len(r)
            /\ \A k \in 1..Len(q) : (q \o r)[k] = q[k]
            /\ \A k \in 1..Len(r) : (q \o r)[Len(q) + k] = r[k]
        BY <3>1
      <3>4. /\ toSource'[s] \in Seq(Requests)
            /\ Len(toSource'[s]) = Len(q) + Len(r)
            /\ \A k \in 1..Len(q) : toSource'[s][k] = q[k]
            /\ \A k \in 1..Len(r) : toSource'[s][Len(q) + k] = r[k]
        BY <3>2, <3>3, Zenon
      <3> QED BY <3>4, Zenon DEF q, r
    <2>5. Len(toSource[s]) \in Nat /\ Len(tail(order[s])) \in Nat BY <2>2, <2>3
    <2>6. ASSUME NEW k \in 1..Len(toSource'[s]), k > Len(toSource[s])
          PROVE  toSource'[s][k].kind = "cancel" /\ toSource'[s][k].id \in ids
      <3> DEFINE a == Len(toSource[s])
                 b == Len(tail(order[s]))
      <3>1. a \in Nat /\ b \in Nat /\ k \in 1..(a + b) /\ k > a
        BY <2>4, <2>5, <2>6, Zenon
      <3> HIDE DEF a, b
      <3>2. k - a \in 1..b /\ a + (k - a) = k BY <3>1, ShiftIndex
      <3>3. toSource'[s][a + (k - a)] = tail(order[s])[k - a]
        BY <2>4, <3>2, Zenon DEF a, b
      <3>4. tail(order[s])[k - a].kind = "cancel" /\ tail(order[s])[k - a].id \in ids
        BY <1>2, <3>2, Zenon DEF b
      <3> QED BY <3>2, <3>3, <3>4, Zenon
    <2>7. ASSUME NEW k \in 1..Len(toSource'[s]), ~(k > Len(toSource[s]))
          PROVE  k <= Len(toSource[s]) /\ toSource'[s][k] = toSource[s][k]
      BY <2>4, <2>5, <2>7
    <2>8. Len(toSource'[s]) >= Len(toSource[s])
      <3>1. \A a, b \in Nat : a + b >= a OBVIOUS
      <3>2. Len(toSource[s]) + Len(tail(order[s])) >= Len(toSource[s]) BY <2>5, <3>1, Zenon
      <3> QED BY <2>4, <3>2, Zenon
    <2> QED BY <2>4, <2>6, <2>7, <2>8, Zenon
  <1>4. toSource' \in [Sources -> Seq(Requests)]
    BY <1>1, <1>3
  <1> QED BY <1>3, <1>4

-----------------------------------------------------------------------------
\* One message more at the end of a source's request queue.
LEMMA RequestAppended ==
    ASSUME WireTypeOK, NEW s, NEW kind \in {"prepare", "invoke", "cancel"}, NEW i \in Inner,
           toSource' = [toSource EXCEPT ![s] = Append(@, Request(kind, i))]
    PROVE  toSource' \in [Sources -> Seq(Requests)]
  <1>1. Request(kind, i) \in Requests BY DEF Request, Requests
  <1>2. ASSUME s \in Sources PROVE Append(toSource[s], Request(kind, i)) \in Seq(Requests)
    <2>1. toSource[s] \in Seq(Requests) BY <1>2 DEF WireTypeOK
    <2> QED BY <1>1, <2>1
  <1> QED BY <1>2 DEF WireTypeOK

LEMMA ReportAppended ==
    ASSUME WireTypeOK, NEW s \in Sources, NEW m \in Reports, Emit(s, m)
    PROVE  fromSource' \in [Sources -> Seq(Reports)]
  <1>1. fromSource[s] \in Seq(Reports) BY DEF WireTypeOK
  <1>2. Append(fromSource[s], m) \in Seq(Reports) BY <1>1
  <1> QED BY <1>2 DEF WireTypeOK, Emit

\* The message at the head of a queue is well formed, and taking it leaves a
\* well formed queue.
LEMMA RequestTaken ==
    ASSUME WireTypeOK, NEW s \in Sources, toSource[s] # <<>>, Take(s)
    PROVE  Head(toSource[s]) \in Requests /\ toSource' \in [Sources -> Seq(Requests)]
  <1>1. toSource[s] \in Seq(Requests) BY DEF WireTypeOK
  <1>2. Head(toSource[s]) \in Requests /\ Tail(toSource[s]) \in Seq(Requests) BY <1>1
  <1> QED BY <1>2 DEF WireTypeOK, Take

LEMMA ReportTaken ==
    ASSUME WireTypeOK, NEW s \in Sources, NEW kind, NextReport(s, kind)
    PROVE  /\ Head(fromSource[s]) \in Reports
           /\ Head(fromSource[s]).kind = kind
           /\ Head(fromSource[s]).id \in Inner
           /\ fromSource' \in [Sources -> Seq(Reports)]
  <1>1. fromSource[s] \in Seq(Reports) BY DEF WireTypeOK
  <1>2. Head(fromSource[s]) \in Reports /\ Tail(fromSource[s]) \in Seq(Reports)
    BY <1>1 DEF NextReport
  <1>3. Head(fromSource[s]).id \in Inner BY <1>2 DEF Reports
  <1> QED BY <1>2, <1>3 DEF WireTypeOK, NextReport

\* A settlement is recorded.
LEMMA ToldType ==
    ASSUME GateTypeOK, NEW o, NEW how \in Settlements, Tell(o, how)
    PROVE  told' \in [Outer -> Seq(Settlements)]
  <1>1. ASSUME o \in Outer PROVE Append(told[o], how) \in Seq(Settlements)
    BY <1>1 DEF GateTypeOK
  <1> QED BY <1>1 DEF GateTypeOK, Tell

LEMMA TypeInit == Init => TypeOK
  <1> SUFFICES ASSUME Init PROVE TypeOK OBVIOUS
  <1>1. WireTypeOK
    BY EmptySeq DEF Init, WireInit, WireTypeOK
  <1>2. GateTypeOK
    <2>1. /\ mode \in Modes
          /\ gate \in {"running", "stopped", "failed"}
          /\ pending \subseteq Inner /\ preparing \subseteq Inner
          /\ approved \subseteq Inner /\ forwarded \subseteq Inner
      BY DEF Init, GateInit, Modes
    <2>2. advertised \in [Sources -> [Tools -> Executions]]
      BY DEF Init, GateInit, Executions
    <2>3. call \in Seq(Calls) /\ inner_id_counter <= MaxCalls
      BY MaxCallsAssumption DEF Init, GateInit, inner_id_counter
    <2>4. awaiting \in [Outer -> 0..MaxCalls] /\ asked \in [Outer -> 0..MaxUses]
      BY MaxCallsAssumption, MaxUsesAssumption DEF Init, GateInit
    <2>5. told \in [Outer -> Seq(Settlements)]
      BY EmptySeq DEF Init, GateInit
    <2>6. ruledIn \in [Inner -> Modes \cup {"none"}]
      BY DEF Init, GateInit
    <2> QED BY <2>1, <2>2, <2>3, <2>4, <2>5, <2>6 DEF GateTypeOK
  <1>3. SourceTypeOK
    BY DEF Init, SourceInit, SourceTypeOK, Phases
  <1> QED BY <1>1, <1>2, <1>3 DEF TypeOK

\* execute and deny keep the types of what they write.
LEMMA ExecuteType ==
    ASSUME TypeOK, NEW i \in Inner, NEW c, NEW fits \in BOOLEAN, Execute(i, c, fits)
    PROVE  /\ toSource' \in [Sources -> Seq(Requests)]
           /\ pending' \subseteq Inner
           /\ forwarded' \subseteq Inner
           /\ told' \in [Outer -> Seq(Settlements)]
  <1>1. CASE fits
    <2>1. toSource' \in [Sources -> Seq(Requests)]
      BY <1>1, RequestAppended DEF Execute, TypeOK
    <2> QED BY <1>1, <2>1 DEF Execute, TypeOK, GateTypeOK
  <1>2. CASE ~fits
    <2>1. told' \in [Outer -> Seq(Settlements)]
      BY <1>2, ToldType DEF Execute, TypeOK, Settlements
    <2> QED BY <1>2, <2>1 DEF Execute, TypeOK, GateTypeOK, WireTypeOK
  <1> QED BY <1>1, <1>2

LEMMA PrepareType ==
    ASSUME TypeOK, NEW i \in Inner, NEW c, NEW fits \in BOOLEAN, Prepare(i, c, fits)
    PROVE  /\ toSource' \in [Sources -> Seq(Requests)]
           /\ pending' \subseteq Inner
           /\ preparing' \subseteq Inner
           /\ told' \in [Outer -> Seq(Settlements)]
  <1>1. CASE fits
    <2>1. toSource' \in [Sources -> Seq(Requests)]
      BY <1>1, RequestAppended DEF Prepare, TypeOK
    <2> QED BY <1>1, <2>1 DEF Prepare, TypeOK, GateTypeOK
  <1>2. CASE ~fits
    <2>1. told' \in [Outer -> Seq(Settlements)]
      BY <1>2, ToldType DEF Prepare, TypeOK, Settlements
    <2> QED BY <1>2, <2>1 DEF Prepare, TypeOK, GateTypeOK, WireTypeOK
  <1> QED BY <1>1, <1>2

LEMMA DenyType ==
    ASSUME TypeOK, NEW i \in Inner, Deny(i)
    PROVE  /\ toSource' \in [Sources -> Seq(Requests)]
           /\ pending' \subseteq Inner
           /\ told' \in [Outer -> Seq(Settlements)]
  <1>1. toSource' \in [Sources -> Seq(Requests)]
    BY RequestAppended DEF Deny, Post, TypeOK
  <1>2. told' \in [Outer -> Seq(Settlements)]
    BY ToldType DEF Deny, TypeOK, Settlements
  <1> QED BY <1>1, <1>2 DEF Deny, TypeOK, GateTypeOK

LEMMA ExitType ==
    ASSUME TypeOK, NEW status \in {"stopped", "failed"}, Exit(status)
    PROVE  /\ toSource' \in [Sources -> Seq(Requests)]
           /\ gate' \in {"running", "stopped", "failed"}
           /\ pending' \subseteq Inner
           /\ preparing' \subseteq Inner
           /\ awaiting' \in [Outer -> 0..MaxCalls]
  <1>1. toSource' \in [Sources -> Seq(Requests)]
    <2>1. WireTypeOK /\ pending \in SUBSET Inner BY DEF TypeOK, GateTypeOK
    <2>2. PostCancels(pending, FALSE) BY DEF Exit
    <2> QED BY <2>1, <2>2, CancelsAppended, Zenon
  <1>2. awaiting' \in [Outer -> 0..MaxCalls] BY MaxCallsAssumption DEF Exit
  <1>3. gate' \in {"running", "stopped", "failed"} /\ pending' = {} /\ preparing' = {}
    BY DEF Exit
  <1> QED BY <1>1, <1>2, <1>3

\* What the environment sends is a mode and a catalog.
LEMMA InputsTyped == ModesSet \subseteq Modes /\ [Tools -> Offers] \subseteq [Tools -> Executions]
  <1>1. ModesSet \subseteq Modes BY InputsAssumption DEF Modes
  <1>2. Offers \subseteq Executions BY InputsAssumption DEF Executions
  <1> QED BY <1>1, <1>2

\* Every handler of the gate keeps its types.
LEMMA GateStepType ==
    ASSUME TypeOK, Requested \/ Stop \/ WriterClosed \/ \E s \in Sources : Reported(s)
    PROVE  WireTypeOK' /\ GateTypeOK'
  <1> USE DEF inner_id_counter
  <1>1. ASSUME NEW o \in Outer, NEW t \in Tools, NEW allowed \in BOOLEAN, NEW fits \in BOOLEAN,
               NEW policy \in Policies \cup {"invalid"}, ToolInvoke(o, t, allowed, policy, fits)
        PROVE  WireTypeOK' /\ GateTypeOK'
    <2> DEFINE i == Len(call) + 1
    <2>1. asked' \in [Outer -> 0..MaxUses]
      BY <1>1, MaxUsesAssumption DEF ToolInvoke, TypeOK, GateTypeOK
    <2>2. i \in Inner
      BY <1>1, MaxCallsAssumption DEF ToolInvoke, TypeOK, GateTypeOK, Inner
    <2>3. CASE /\ Tell(o, "denied")
               /\ UNCHANGED <<toSource, call, pending, preparing, forwarded>>
      <3>1. told' \in [Outer -> Seq(Settlements)] BY <2>3, ToldType DEF TypeOK, Settlements
      <3> QED BY <1>1, <2>1, <2>3, <3>1 DEF ToolInvoke, TypeOK, GateTypeOK, WireTypeOK
    <2> DEFINE new(s) == [outer |-> o, source |-> s, name |-> t, policy |-> policy]
    <2>4. ASSUME NEW s \in Sources,
                 policy # "invalid",
                 call' = Append(call, new(s)),
                 \/ policy = "workflow" /\ Execute(i, new(s), fits) /\ UNCHANGED preparing
                 \/ policy # "workflow" /\ Prepare(i, new(s), fits) /\ UNCHANGED forwarded
          PROVE  WireTypeOK' /\ GateTypeOK'
      <3> DEFINE c == new(s)
      <3>1. c \in Calls BY <2>4 DEF Calls
      <3>2. call' \in Seq(Calls) /\ Len(call') = Len(call) + 1
        BY <2>4, <3>1 DEF TypeOK, GateTypeOK
      <3>3. Len(call') <= MaxCalls
        BY <1>1, <3>2, MaxCallsAssumption DEF ToolInvoke, TypeOK, GateTypeOK
      <3> HIDE DEF i, c
      <3>4. /\ toSource' \in [Sources -> Seq(Requests)]
            /\ pending' \subseteq Inner
            /\ preparing' \subseteq Inner
            /\ forwarded' \subseteq Inner
            /\ told' \in [Outer -> Seq(Settlements)]
        <4>1. CASE policy = "workflow" /\ Execute(i, c, fits) /\ UNCHANGED preparing
          BY <2>2, <4>1, ExecuteType DEF TypeOK, GateTypeOK
        <4>2. CASE policy # "workflow" /\ Prepare(i, c, fits) /\ UNCHANGED forwarded
          BY <2>2, <4>2, PrepareType DEF TypeOK, GateTypeOK
        <4> QED BY <2>4, <4>1, <4>2 DEF c
      <3> QED BY <1>1, <2>1, <3>2, <3>3, <3>4 DEF ToolInvoke, TypeOK, GateTypeOK, WireTypeOK
    <2>5. \/ /\ Tell(o, "denied")
             /\ UNCHANGED <<toSource, call, pending, preparing, forwarded>>
          \/ \E s \in Sources :
                /\ policy # "invalid"
                /\ call' = Append(call, new(s))
                /\ \/ policy = "workflow" /\ Execute(i, new(s), fits) /\ UNCHANGED preparing
                   \/ policy # "workflow" /\ Prepare(i, new(s), fits) /\ UNCHANGED forwarded
      BY <1>1, Zenon DEF ToolInvoke, Owners
    <2> HIDE DEF new, i
    <2> QED BY <2>3, <2>4, <2>5, Zenon
  <1>2. ASSUME NEW o \in Outer, ToolCancel(o) PROVE WireTypeOK' /\ GateTypeOK'
    <2> DEFINE forwards == {i \in pending : call[i].outer = o}
    <2>1. forwards \in SUBSET Inner /\ PostCancels(forwards, TRUE) /\ WireTypeOK
      BY <1>2 DEF ToolCancel, TypeOK, GateTypeOK
    <2> HIDE DEF forwards
    <2>2. toSource' \in [Sources -> Seq(Requests)] BY <2>1, CancelsAppended, Zenon
    <2>3. told' \in [Outer -> Seq(Settlements)]
      <3>1. \E how \in Settlements : Tell(o, how) BY <1>2 DEF ToolCancel, Settlements
      <3> QED BY <3>1, ToldType DEF TypeOK
    <2>4. awaiting' \in [Outer -> 0..MaxCalls]
      BY <1>2, MaxCallsAssumption DEF ToolCancel, TypeOK, GateTypeOK
    <2> QED BY <1>2, <2>2, <2>3, <2>4 DEF ToolCancel, TypeOK, GateTypeOK, WireTypeOK
  <1>3. ASSUME NEW o \in Outer, NEW approve \in BOOLEAN, NEW fits \in BOOLEAN,
               PermissionResponse(o, approve, fits)
        PROVE  WireTypeOK' /\ GateTypeOK'
    <2>1. awaiting[o] \in Inner
      BY <1>3, MaxCallsAssumption DEF PermissionResponse, TypeOK, GateTypeOK, Inner
    <2>2. awaiting' \in [Outer -> 0..MaxCalls]
      BY <1>3, MaxCallsAssumption DEF PermissionResponse, TypeOK, GateTypeOK
    <2>3. CASE Execute(awaiting[o], call[awaiting[o]], fits) /\ approved' = approved \cup {awaiting[o]}
      <3>1. /\ toSource' \in [Sources -> Seq(Requests)]
            /\ pending' \subseteq Inner
            /\ forwarded' \subseteq Inner
            /\ told' \in [Outer -> Seq(Settlements)]
        BY <2>1, <2>3, ExecuteType
      <3> QED BY <1>3, <2>1, <2>2, <2>3, <3>1 DEF PermissionResponse, TypeOK, GateTypeOK, WireTypeOK
    <2>4. CASE Deny(awaiting[o]) /\ UNCHANGED <<approved, forwarded>>
      <3>1. /\ toSource' \in [Sources -> Seq(Requests)]
            /\ pending' \subseteq Inner
            /\ told' \in [Outer -> Seq(Settlements)]
        BY <2>1, <2>4, DenyType
      <3> QED BY <1>3, <2>2, <2>4, <3>1 DEF PermissionResponse, TypeOK, GateTypeOK, WireTypeOK
    <2> QED BY <1>3, <2>3, <2>4 DEF PermissionResponse
  <1>4. ASSUME NEW m \in Modes, SetMode(m) PROVE WireTypeOK' /\ GateTypeOK'
    BY <1>4 DEF SetMode, TypeOK, GateTypeOK, WireTypeOK, wire, gateHistory
  <1>5. ASSUME NEW s \in Sources, NEW catalog \in [Tools -> Executions], ToolsAdvertise(s, catalog)
        PROVE  WireTypeOK' /\ GateTypeOK'
    BY <1>5 DEF ToolsAdvertise, TypeOK, GateTypeOK, WireTypeOK, wire, gateHistory
  <1>6. ASSUME Stop PROVE WireTypeOK' /\ GateTypeOK'
    <2>1. \E status \in {"stopped", "failed"} : Exit(status) BY <1>6 DEF Stop
    <2>2. /\ toSource' \in [Sources -> Seq(Requests)]
          /\ gate' \in {"running", "stopped", "failed"}
          /\ pending' \subseteq Inner
          /\ preparing' \subseteq Inner
          /\ awaiting' \in [Outer -> 0..MaxCalls]
      BY <2>1, ExitType, Zenon
    <2> QED BY <1>6, <2>2 DEF Stop, TypeOK, GateTypeOK, WireTypeOK, gateHistory
  <1>7. ASSUME WriterClosed PROVE WireTypeOK' /\ GateTypeOK'
    BY <1>7, MaxCallsAssumption DEF WriterClosed, TypeOK, GateTypeOK, WireTypeOK, wire, gateHistory
  <1>8. ASSUME NEW s \in Sources, ToolPrepared(s) PROVE WireTypeOK' /\ GateTypeOK'
    <2> DEFINE i == Head(fromSource[s]).id
    <2>1. NextReport(s, "prepared") BY <1>8 DEF ToolPrepared
    <2>2. i \in Inner /\ fromSource' \in [Sources -> Seq(Reports)]
      BY <2>1, ReportTaken DEF TypeOK
    <2> HIDE DEF i
    <2>3. CASE i \notin preparing
      BY <1>8, <2>2, <2>3 DEF ToolPrepared, TypeOK, GateTypeOK, WireTypeOK, i
    <2>4. CASE i \in preparing
      <3>0. ruledIn' = [ruledIn EXCEPT ![i] = mode] BY <1>8, <2>4 DEF ToolPrepared, i
      <3>1. ruledIn' \in [Inner -> Modes \cup {"none"}] BY <3>0 DEF TypeOK, GateTypeOK
      <3>2. CASE preparing' = preparing \ {i} /\ Execute(i, call[i], TRUE) /\ UNCHANGED <<awaiting, gate>>
        <4>1. /\ toSource' \in [Sources -> Seq(Requests)]
              /\ pending' \subseteq Inner
              /\ forwarded' \subseteq Inner
              /\ told' \in [Outer -> Seq(Settlements)]
          BY <2>2, <3>2, ExecuteType
        <4> QED BY <1>8, <2>2, <3>1, <3>2, <4>1 DEF ToolPrepared, TypeOK, GateTypeOK, WireTypeOK
      <3>3. CASE preparing' = preparing \ {i} /\ Deny(i) /\ UNCHANGED <<awaiting, gate, forwarded>>
        <4>1. /\ toSource' \in [Sources -> Seq(Requests)]
              /\ pending' \subseteq Inner
              /\ told' \in [Outer -> Seq(Settlements)]
          BY <2>2, <3>3, DenyType
        <4> QED BY <1>8, <2>2, <3>1, <3>3, <4>1 DEF ToolPrepared, TypeOK, GateTypeOK, WireTypeOK
      <3>4. CASE /\ preparing' = preparing \ {i}
                 /\ awaiting' = [awaiting EXCEPT ![call[i].outer] = i]
                 /\ UNCHANGED <<toSource, pending, gate, told, forwarded>>
        <4>0. i \in 0..MaxCalls BY <2>2, MaxCallsAssumption DEF Inner
        <4>1. awaiting' \in [Outer -> 0..MaxCalls]
          BY <3>4, <4>0, Zenon DEF TypeOK, GateTypeOK
        <4> QED BY <1>8, <2>2, <3>1, <3>4, <4>1 DEF ToolPrepared, TypeOK, GateTypeOK, WireTypeOK
      <3>5. CASE Exit("failed") /\ UNCHANGED <<told, forwarded>>
        <4>1. /\ toSource' \in [Sources -> Seq(Requests)]
              /\ gate' \in {"running", "stopped", "failed"}
              /\ pending' \subseteq Inner
              /\ preparing' \subseteq Inner
              /\ awaiting' \in [Outer -> 0..MaxCalls]
          BY <3>5, ExitType
        <4> QED BY <1>8, <2>2, <3>1, <3>5, <4>1 DEF ToolPrepared, TypeOK, GateTypeOK, WireTypeOK
      <3> QED BY <1>8, <2>4, <3>2, <3>3, <3>4, <3>5, Zenon DEF ToolPrepared, i
    <2> QED BY <2>3, <2>4
  <1>9. ASSUME NEW s \in Sources, NEW fits \in BOOLEAN, ToolStream(s, fits)
        PROVE  WireTypeOK' /\ GateTypeOK'
    <2> DEFINE i == Head(fromSource[s]).id
    <2>1. NextReport(s, "stream") BY <1>9 DEF ToolStream
    <2>2. i \in Inner /\ fromSource' \in [Sources -> Seq(Reports)]
      BY <2>1, ReportTaken DEF TypeOK
    <2> HIDE DEF i
    <2>3. CASE UNCHANGED <<toSource, pending, told>>
      BY <1>9, <2>2, <2>3 DEF ToolStream, TypeOK, GateTypeOK, WireTypeOK
    <2>4. CASE pending' = pending \ {i} /\ Post(i, "cancel") /\ Tell(call[i].outer, "aborted")
      <3>1. toSource' \in [Sources -> Seq(Requests)]
        BY <2>2, <2>4, RequestAppended DEF Post, TypeOK
      <3>2. told' \in [Outer -> Seq(Settlements)]
        BY <2>4, ToldType DEF TypeOK, Settlements
      <3> QED BY <1>9, <2>2, <2>4, <3>1, <3>2 DEF ToolStream, TypeOK, GateTypeOK, WireTypeOK
    <2> QED BY <1>9, <2>3, <2>4 DEF ToolStream, i
  <1>10. ASSUME NEW s \in Sources, ToolResult(s) PROVE WireTypeOK' /\ GateTypeOK'
    <2> DEFINE m == Head(fromSource[s])
    <2>1. NextReport(s, "result") BY <1>10 DEF ToolResult
    <2>2. /\ m \in Reports /\ m.kind = "result" /\ m.id \in Inner
          /\ fromSource' \in [Sources -> Seq(Reports)]
      BY <2>1, ReportTaken DEF TypeOK
    <2> HIDE DEF m
    <2>3. m.how \in Settlements BY <2>2 DEF Reports, Settlements
    <2>4. CASE UNCHANGED <<pending, preparing, awaiting, told>>
      BY <1>10, <2>2, <2>4 DEF ToolResult, TypeOK, GateTypeOK, WireTypeOK
    <2>5. CASE /\ pending' = pending \ {m.id}
               /\ preparing' = preparing \ {m.id}
               /\ awaiting' = [o \in Outer |-> IF awaiting[o] = m.id THEN 0 ELSE awaiting[o]]
               /\ Tell(call[m.id].outer, m.how)
      <3>1. told' \in [Outer -> Seq(Settlements)] BY <2>3, <2>5, ToldType DEF TypeOK
      <3>2. awaiting' \in [Outer -> 0..MaxCalls]
        BY <2>5, MaxCallsAssumption DEF TypeOK, GateTypeOK
      <3> QED BY <1>10, <2>2, <2>5, <3>1, <3>2 DEF ToolResult, TypeOK, GateTypeOK, WireTypeOK
    <2> QED BY <1>10, <2>4, <2>5 DEF ToolResult, m
  <1>11. ASSUME Requested PROVE WireTypeOK' /\ GateTypeOK'
    BY <1>1, <1>2, <1>3, <1>4, <1>5, <1>11, InputsTyped, Zenon DEF Requested
  <1>12. ASSUME NEW s \in Sources, Reported(s) PROVE WireTypeOK' /\ GateTypeOK'
    BY <1>8, <1>9, <1>10, <1>12, Zenon DEF Reported
  <1> QED BY <1>6, <1>7, <1>11, <1>12, Zenon

\* The same of a source's handlers and of what its tools do later.
LEMMA SettleType ==
    ASSUME TypeOK, NEW s \in Sources, NEW i \in Inner, NEW how \in {"refused", "ended"},
           Settle(s, i, how)
    PROVE  /\ phase' \in [Sources -> [Inner -> Phases]]
           /\ fromSource' \in [Sources -> Seq(Reports)]
  <1>1. Result(i, how) \in Reports BY DEF Result, Reports
  <1>2. fromSource' \in [Sources -> Seq(Reports)]
    BY <1>1, ReportAppended DEF Settle, TypeOK
  <1>3. phase' \in [Sources -> [Inner -> Phases]]
    BY DEF Settle, Enter, TypeOK, SourceTypeOK, Phases
  <1> QED BY <1>2, <1>3

LEMMA AnswerType ==
    ASSUME TypeOK, NEW s \in Sources, NEW i \in Inner, NEW a \in SourceAnswers, Answer(s, i, a)
    PROVE  /\ phase' \in [Sources -> [Inner -> Phases]]
           /\ assessed' \in [Inner -> Answers \cup {"none"}]
           /\ fromSource' \in [Sources -> Seq(Reports)]
           /\ a \in Answers
  <1>1. a \in Answers BY DEF SourceAnswers, Answers
  <1>2. Prepared(i, a) \in Reports BY <1>1 DEF Prepared, Reports
  <1>3. fromSource' \in [Sources -> Seq(Reports)]
    BY <1>2, ReportAppended DEF Answer, TypeOK
  <1>4. phase' \in [Sources -> [Inner -> Phases]]
    BY DEF Answer, Enter, TypeOK, SourceTypeOK, Phases
  <1>5. assessed' \in [Inner -> Answers \cup {"none"}]
    BY <1>1 DEF Answer, TypeOK, SourceTypeOK
  <1> QED BY <1>1, <1>3, <1>4, <1>5

LEMMA SourceStepType ==
    ASSUME TypeOK, NEW s \in Sources, SourceReceives(s) \/ SourceActs(s)
    PROVE  WireTypeOK' /\ SourceTypeOK'
  <1> DEFINE h == Head(toSource[s]).id
  <1>1. ASSUME ReceivePrepare(s) PROVE WireTypeOK' /\ SourceTypeOK'
    <2>1. Head(toSource[s]) \in Requests /\ toSource' \in [Sources -> Seq(Requests)]
      BY <1>1, RequestTaken DEF ReceivePrepare, Addressed, TypeOK
    <2>2. h \in Inner BY <2>1 DEF Requests
    <2> HIDE DEF h
    <2>3. CASE Settle(s, h, "refused") /\ UNCHANGED assessed
      BY <1>1, <2>1, <2>2, <2>3, SettleType DEF ReceivePrepare, TypeOK, WireTypeOK, SourceTypeOK
    <2>4. ASSUME NEW a \in SourceAnswers, Answer(s, h, a) PROVE WireTypeOK' /\ SourceTypeOK'
      BY <1>1, <2>1, <2>2, <2>4, AnswerType DEF ReceivePrepare, TypeOK, WireTypeOK, SourceTypeOK
    <2>5. CASE Enter(s, h, "prepare") /\ UNCHANGED <<assessed, fromSource>>
      BY <1>1, <2>1, <2>2, <2>5
      DEF ReceivePrepare, Enter, TypeOK, WireTypeOK, SourceTypeOK, Phases
    <2> QED BY <1>1, <2>3, <2>4, <2>5 DEF ReceivePrepare, h
  <1>2. ASSUME ReceiveInvoke(s) PROVE WireTypeOK' /\ SourceTypeOK'
    <2>1. Head(toSource[s]) \in Requests /\ toSource' \in [Sources -> Seq(Requests)]
      BY <1>2, RequestTaken DEF ReceiveInvoke, Addressed, TypeOK
    <2>2. h \in Inner BY <2>1 DEF Requests
    <2> HIDE DEF h
    <2>3. CASE Settle(s, h, "refused") /\ UNCHANGED ran
      BY <1>2, <2>1, <2>2, <2>3, SettleType DEF ReceiveInvoke, TypeOK, WireTypeOK, SourceTypeOK
    <2>4. CASE Settle(s, h, "ended") /\ ran' = ran \cup {h}
      BY <1>2, <2>1, <2>2, <2>4, SettleType DEF ReceiveInvoke, TypeOK, WireTypeOK, SourceTypeOK
    <2>5. CASE Enter(s, h, "execute") /\ ran' = ran \cup {h} /\ UNCHANGED fromSource
      BY <1>2, <2>1, <2>2, <2>5
      DEF ReceiveInvoke, Enter, TypeOK, WireTypeOK, SourceTypeOK, Phases
    <2> QED BY <1>2, <2>3, <2>4, <2>5 DEF ReceiveInvoke, h
  <1>3. ASSUME ReceiveCancel(s) PROVE WireTypeOK' /\ SourceTypeOK'
    <2>1. Head(toSource[s]) \in Requests /\ toSource' \in [Sources -> Seq(Requests)]
      BY <1>3, RequestTaken DEF ReceiveCancel, Addressed, TypeOK
    <2>2. h \in Inner BY <2>1 DEF Requests
    <2> QED BY <1>3, <2>1, <2>2
        DEF ReceiveCancel, Enter, TypeOK, WireTypeOK, SourceTypeOK, Phases
  <1>4. ASSUME NEW i \in Inner, DecideLater(s, i) PROVE WireTypeOK' /\ SourceTypeOK'
    <2>1. PICK a \in SourceAnswers : Answer(s, i, a) BY <1>4 DEF DecideLater
    <2> QED BY <1>4, <2>1, AnswerType DEF DecideLater, TypeOK, WireTypeOK, SourceTypeOK
  <1>5. ASSUME NEW i \in Inner, EndCall(s, i) PROVE WireTypeOK' /\ SourceTypeOK'
    <2>1. PICK how \in {"refused", "ended"} : Settle(s, i, how) BY <1>5 DEF EndCall
    <2> QED BY <1>5, <2>1, SettleType DEF EndCall, TypeOK, WireTypeOK, SourceTypeOK
  <1>6. ASSUME NEW i \in Inner, EmitStream(s, i) PROVE WireTypeOK' /\ SourceTypeOK'
    <2>1. Stream(i) \in Reports BY DEF Stream, Reports
    <2>2. fromSource' \in [Sources -> Seq(Reports)]
      BY <1>6, <2>1, ReportAppended DEF EmitStream, TypeOK
    <2>3. streams' \in Nat
      <3>1. streams' = streams + 1 BY <1>6 DEF EmitStream
      <3>2. streams \in Nat BY DEF TypeOK, SourceTypeOK
      <3> QED BY <3>1, <3>2
    <2> QED BY <1>6, <2>2, <2>3 DEF EmitStream, TypeOK, WireTypeOK, SourceTypeOK
  <1> HIDE DEF h
  <1> QED BY <1>1, <1>2, <1>3, <1>4, <1>5, <1>6, Zenon DEF SourceReceives, SourceActs

LEMMA TypeStep == TypeOK /\ [Next]_vars => TypeOK'
  <1> SUFFICES ASSUME TypeOK, [Next]_vars PROVE TypeOK' OBVIOUS
  <1>1. CASE /\ Requested \/ Stop \/ WriterClosed \/ \E s \in Sources : Reported(s)
             /\ UNCHANGED sourceVars
    <2>1. WireTypeOK' /\ GateTypeOK' BY <1>1, GateStepType
    <2> QED BY <1>1, <2>1 DEF TypeOK, SourceTypeOK, sourceVars
  <1>2. ASSUME NEW s \in Sources, SourceReceives(s) \/ SourceActs(s), UNCHANGED gateVars
        PROVE  TypeOK'
    <2>1. WireTypeOK' /\ SourceTypeOK' BY <1>2, SourceStepType
    <2> QED BY <1>2, <2>1
        DEF TypeOK, GateTypeOK, gateVars, gateState, gateHistory, inner_id_counter
  <1>3. CASE UNCHANGED vars
    BY <1>3 DEF vars, wire, gateVars, gateState, gateHistory, sourceVars, inner_id_counter,
                TypeOK, WireTypeOK, GateTypeOK, SourceTypeOK
  <1> QED BY <1>1, <1>2, <1>3, Zenon DEF Next

\* Every variable of the gate, of the sources and of the wire between them
\* keeps its type, for any number of sources, tools, callers and calls.
THEOREM ToolCallsTypeCorrect == Spec => []TypeOK
  BY TypeInit, TypeStep, PTL DEF Spec

\* handle_tools_advertise never leaves a tool with two owners, so rebuilding
\* the owner map has one outcome whatever order it visits the sources in.
THEOREM RegistryHasOneOwner == Spec => []OneOwner
  <1>1. Init => OneOwner
    <2> SUFFICES ASSUME Init PROVE OneOwner OBVIOUS
    <2>1. advertised = [s \in Sources |-> [t \in Tools |-> "absent"]] BY DEF Init, GateInit
    <2>2. \A s \in Sources, t \in Tools : advertised[s][t] = "absent" BY <2>1
    <2> QED BY <2>2 DEF OneOwner, Owners
  <1>2. TypeOK /\ OneOwner /\ [Next]_vars => OneOwner'
    <2> SUFFICES ASSUME TypeOK, OneOwner, [Next]_vars PROVE OneOwner' OBVIOUS
    <2>1. CASE UNCHANGED advertised
      BY <2>1 DEF OneOwner, Owners
    <2>2. ASSUME NEW s \in Sources, NEW catalog \in [Tools -> Executions],
                 ToolsAdvertise(s, catalog)
          PROVE  OneOwner'
      BY <2>2 DEF ToolsAdvertise, OneOwner, Owners, TypeOK, GateTypeOK
    <2>3. CASE Requested
      <3>1. CASE \E o \in Outer, t \in Tools, allowed, fits \in BOOLEAN,
                    policy \in Policies \cup {"invalid"} : ToolInvoke(o, t, allowed, policy, fits)
        <4>1. UNCHANGED advertised BY <3>1 DEF ToolInvoke
        <4> QED BY <2>1, <4>1
      <3>2. CASE \E o \in Outer : ToolCancel(o)
        BY <2>1, <3>2 DEF ToolCancel
      <3>3. CASE \E o \in Outer, approve, fits \in BOOLEAN : PermissionResponse(o, approve, fits)
        BY <2>1, <3>3 DEF PermissionResponse
      <3>4. CASE \E m \in Modes : SetMode(m)
        BY <2>1, <3>4 DEF SetMode
      <3> QED BY <2>2, <2>3, <3>1, <3>2, <3>3, <3>4, InputsTyped, Zenon DEF Requested
    <2>4. CASE Stop \/ WriterClosed
      BY <2>1, <2>4 DEF Stop, WriterClosed
    <2>5. ASSUME NEW s \in Sources, Reported(s) PROVE OneOwner'
      BY <2>1, <2>5, Zenon DEF Reported, ToolPrepared, ToolStream, ToolResult
    <2>6. CASE UNCHANGED gateVars
      BY <2>1, <2>6 DEF gateVars, gateState
    <2>7. CASE UNCHANGED vars
      BY <2>6, <2>7 DEF vars
    <2> QED BY <2>3, <2>4, <2>5, <2>6, <2>7, Zenon DEF Next
  <1> QED BY <1>1, <1>2, ToolCallsTypeCorrect, PTL DEF Spec

-----------------------------------------------------------------------------
(* RunsOnlyWhenAllowed: DecisionInv is inductive.                           *)

\* A request is its kind and its id.
LEMMA RequestEq ==
    ASSUME NEW m \in Requests PROVE m = Request(m.kind, m.id) /\ m.id \in Inner
  BY DEF Requests, Request

\* The ids minted so far.
LEMMA Minted ==
    ASSUME TypeOK
    PROVE  /\ DOMAIN call = 1..Len(call)
           /\ Len(call) \in Nat
           /\ DOMAIN call \subseteq Inner
           /\ Len(call) + 1 \notin DOMAIN call
           /\ \A i \in DOMAIN call : call[i] \in Calls
  <1>1. call \in Seq(Calls) /\ Len(call) <= MaxCalls BY DEF TypeOK, GateTypeOK, inner_id_counter
  <1>2. DOMAIN call = 1..Len(call) /\ Len(call) \in Nat BY <1>1
  <1>3. \A i \in 1..Len(call) : call[i] \in Calls BY <1>1
  <1>4. 1..Len(call) \subseteq Inner BY <1>1, <1>2, MaxCallsAssumption DEF Inner
  <1>5. Len(call) + 1 \notin 1..Len(call) BY <1>2
  <1> QED BY <1>2, <1>3, <1>4, <1>5, Zenon

\* What the decision table lets run, and what it asks the user about.
LEMMA RulingSound ==
    ASSUME NEW c \in Calls, c.policy # "workflow", NEW answer \in Answers, mode \in Modes
    PROVE  /\ Ruling(c, answer) = "run" =>
                \/ answer = "safe" /\ c.name \notin Denied
                \/ /\ c.policy = "Default"
                   /\ \/ answer = "unsure" /\ c.name \notin Denied /\ mode = "auto"
                      \/ mode = "yolo"
           /\ Ruling(c, answer) = "ask" =>
                answer = "unsure" /\ c.name \notin Denied /\ c.policy = "Default"
  <1> DEFINE a == Assessment(c.name, answer)
  <1>1. c.policy \in {"ReadOnly", "Default"} BY DEF Calls, Policies
  <1>2. /\ a \in {"safe", "unsure", "denied", "undecided"}
        /\ a \in {"safe", "unsure"} => answer = a /\ c.name \notin Denied
    BY DEF Assessment, Answers
  <1> HIDE DEF a
  <1>3. CASE a = "undecided"
    BY <1>3 DEF Ruling, a
  <1>4. CASE a = "safe"
    BY <1>2, <1>4 DEF Ruling, Verdict, a
  <1>5. CASE a = "unsure"
    BY <1>1, <1>2, <1>5 DEF Ruling, Verdict, Modes, a
  <1>6. CASE a = "denied"
    BY <1>1, <1>6 DEF Ruling, Verdict, Modes, a
  <1> QED BY <1>2, <1>3, <1>4, <1>5, <1>6

\* Calls already minted stay what they are.
CallsKept ==
    DOMAIN call \subseteq DOMAIN call' /\ \A i \in DOMAIN call : call'[i] = call[i]

\* The gate only adds requests: cancels of minted calls, invokes of calls it
\* has forwarded, and the prepare of a call it has just minted.
RequestsAdded ==
    \A s \in Sources : \A k \in 1..Len(toSource'[s]) :
        \/ k \in 1..Len(toSource[s]) /\ toSource'[s][k] = toSource[s][k]
        \/ toSource'[s][k].kind = "cancel" /\ toSource'[s][k].id \in DOMAIN call'
        \/ /\ toSource'[s][k].kind = "invoke"
           /\ toSource'[s][k].id \in DOMAIN call'
           /\ toSource'[s][k].id \in forwarded'
        \/ /\ toSource'[s][k].kind = "prepare"
           /\ toSource'[s][k].id \in DOMAIN call' \ DOMAIN call
           /\ call'[toSource'[s][k].id].source = s
           /\ \A j \in 1..Len(toSource'[s]) : toSource'[s][j] = toSource'[s][k] => j = k

\* The gate only takes reports.
ReportsTaken ==
    \A s \in Sources : \A k \in 1..Len(fromSource'[s]) :
        \E j \in 1..Len(fromSource[s]) : fromSource'[s][k] = fromSource[s][j]

\* What the gate may do to the ids it holds.
HoldingsSound ==
    /\ pending' \cup preparing' \cup forwarded' \subseteq DOMAIN call'
    /\ forwarded \subseteq forwarded' /\ approved \subseteq approved'
    /\ \A i \in forwarded : ruledIn'[i] = ruledIn[i]
    /\ \A i \in preparing' :
          i \notin forwarded' /\ (i \in preparing \/ (i \notin DOMAIN call /\ call'[i].policy # "workflow"))
    /\ \A o \in Outer : awaiting'[o] # 0 =>
          \/ awaiting'[o] = awaiting[o]
          \/ /\ awaiting'[o] \in preparing \ preparing'
             /\ call[awaiting'[o]].policy = "Default"
             /\ call[awaiting'[o]].name \notin Denied
             /\ assessed[awaiting'[o]] = "unsure"
    /\ \A i \in forwarded' \ forwarded : Allowed(i)'

\* A step of the gate of that form keeps the invariant.
LEMMA GateKeepsDecision ==
    ASSUME TypeOK, TypeOK', DecisionInv, UNCHANGED sourceVars,
           CallsKept, RequestsAdded, ReportsTaken, HoldingsSound
    PROVE  DecisionInv'
  <1>0. phase' = phase /\ assessed' = assessed /\ ran' = ran BY DEF sourceVars
  <1>1. IdsMinted'
    BY <1>0 DEF DecisionInv, IdsMinted, CallsKept, HoldingsSound
  <1>2. RequestsJustified'
    <2> SUFFICES ASSUME NEW s \in Sources, NEW k \in 1..Len(toSource'[s])
                 PROVE  /\ toSource'[s][k].id \in DOMAIN call'
                        /\ toSource'[s][k].kind = "invoke" => toSource'[s][k].id \in forwarded'
                        /\ toSource'[s][k].kind = "prepare" =>
                             /\ assessed'[toSource'[s][k].id] = "none"
                             /\ call'[toSource'[s][k].id].source = s
                             /\ \A j \in 1..Len(toSource'[s]) :
                                  toSource'[s][j] = toSource'[s][k] => j = k
      BY DEF RequestsJustified
    <2>1. toSource'[s][k].id \in Inner
      <3>1. toSource'[s] \in Seq(Requests) BY DEF TypeOK, WireTypeOK
      <3>2. toSource'[s][k] \in Requests BY <3>1
      <3> QED BY <3>2 DEF Requests
    <2>2. CASE k \in 1..Len(toSource[s]) /\ toSource'[s][k] = toSource[s][k]
      <3> DEFINE m == toSource[s][k]
      <3>1. /\ m.id \in DOMAIN call
            /\ m.kind = "invoke" => m.id \in forwarded
            /\ m.kind = "prepare" =>
                 /\ assessed[m.id] = "none"
                 /\ call[m.id].source = s
                 /\ \A j \in 1..Len(toSource[s]) : toSource[s][j] = m => j = k
        BY <2>2, Zenon DEF DecisionInv, RequestsJustified
      <3>2. toSource'[s][k] = m BY <2>2
      <3> HIDE DEF m
      <3>3. ASSUME m.kind = "prepare", NEW j \in 1..Len(toSource'[s]), toSource'[s][j] = m
            PROVE  j = k
        BY <3>1, <3>3 DEF RequestsAdded
      <3> QED BY <1>0, <3>1, <3>2, <3>3 DEF CallsKept, HoldingsSound
    <2>3. CASE /\ toSource'[s][k].kind = "prepare"
               /\ toSource'[s][k].id \in DOMAIN call' \ DOMAIN call
               /\ call'[toSource'[s][k].id].source = s
               /\ \A j \in 1..Len(toSource'[s]) : toSource'[s][j] = toSource'[s][k] => j = k
      BY <1>0, <2>1, <2>3 DEF DecisionInv, IdsMinted
    <2>4. CASE toSource'[s][k].kind = "cancel" /\ toSource'[s][k].id \in DOMAIN call'
      BY <2>4
    <2>5. CASE /\ toSource'[s][k].kind = "invoke"
               /\ toSource'[s][k].id \in DOMAIN call'
               /\ toSource'[s][k].id \in forwarded'
      BY <2>5
    <2> QED BY <2>2, <2>3, <2>4, <2>5, Zenon DEF RequestsAdded
  <1>3. PreparationsJustified'
    <2> SUFFICES ASSUME NEW s \in Sources, NEW i \in Inner, phase[s][i] = "prepare"
                 PROVE  /\ i \in DOMAIN call'
                        /\ call'[i].source = s
                        /\ assessed[i] = "none"
                        /\ \A k \in 1..Len(toSource'[s]) : toSource'[s][k] # Request("prepare", i)
      BY <1>0 DEF PreparationsJustified
    <2>1. /\ i \in DOMAIN call /\ call[i].source = s /\ assessed[i] = "none"
          /\ \A k \in 1..Len(toSource[s]) : toSource[s][k] # Request("prepare", i)
      BY DEF DecisionInv, PreparationsJustified
    <2>2. ASSUME NEW k \in 1..Len(toSource'[s]), toSource'[s][k] = Request("prepare", i)
          PROVE  FALSE
      <3>1. toSource'[s][k].kind = "prepare" /\ toSource'[s][k].id = i
        BY <2>2 DEF Request
      <3> QED BY <2>1, <2>2, <3>1 DEF RequestsAdded
    <2> QED BY <2>1, <2>2 DEF CallsKept
  <1>4. AnswersGenuine'
    BY <1>0 DEF DecisionInv, AnswersGenuine, ReportsTaken, CallsKept
  <1>5. PreparingUndecided'
    BY DEF DecisionInv, PreparingUndecided, HoldingsSound, IdsMinted, CallsKept
  <1>6. AskedRightly'
    <2> SUFFICES ASSUME NEW o \in Outer, awaiting'[o] # 0
                 PROVE  /\ awaiting'[o] \in DOMAIN call'
                        /\ awaiting'[o] \notin preparing'
                        /\ call'[awaiting'[o]].policy = "Default"
                        /\ call'[awaiting'[o]].name \notin Denied
                        /\ assessed'[awaiting'[o]] = "unsure"
      BY DEF AskedRightly
    <2>1. CASE awaiting'[o] = awaiting[o]
      BY <1>0, <2>1 DEF DecisionInv, AskedRightly, CallsKept, HoldingsSound
    <2>2. CASE awaiting'[o] # awaiting[o]
      BY <1>0, <2>2 DEF DecisionInv, IdsMinted, CallsKept, HoldingsSound
    <2> QED BY <2>1, <2>2
  <1>7. ForwardedAllowed'
    <2>1. ASSUME NEW i \in forwarded PROVE Allowed(i)'
      BY <1>0 DEF DecisionInv, ForwardedAllowed, IdsMinted, CallsKept, HoldingsSound, Allowed
    <2> QED BY <1>0, <2>1 DEF DecisionInv, ForwardedAllowed, HoldingsSound
  <1> QED BY <1>1, <1>2, <1>3, <1>4, <1>5, <1>6, <1>7 DEF DecisionInv

\* A source takes requests from the head of its queue, if any.
RequestsDropped ==
    \A s \in Sources : \E d \in {0, 1} :
        /\ Len(toSource'[s]) = Len(toSource[s]) - d
        /\ \A k \in 1..Len(toSource'[s]) : toSource'[s][k] = toSource[s][k + d]

\* The reports it adds tell its answers.
ReportsAdded ==
    \A s \in Sources : \A k \in 1..Len(fromSource'[s]) :
        \/ \E j \in 1..Len(fromSource[s]) : fromSource'[s][k] = fromSource[s][j]
        \/ fromSource'[s][k].kind = "prepared" =>
              /\ fromSource'[s][k].id \in DOMAIN call
              /\ assessed'[fromSource'[s][k].id] = fromSource'[s][k].answer

\* No prepare request for i is left at s.
NotRequested(s, i) ==
    \A k \in 1..Len(toSource'[s]) : toSource'[s][k] # Request("prepare", i)

\* It answers a call once, when no other preparation of it is left.
AnswersOnce ==
    /\ \A i \in Inner : assessed'[i] # assessed[i] =>
          /\ assessed[i] = "none" /\ i \in DOMAIN call
          /\ \A s \in Sources : phase'[s][i] # "prepare" /\ NotRequested(s, i)
    /\ \A s \in Sources, i \in Inner :
          phase'[s][i] = "prepare" /\ phase[s][i] # "prepare" =>
              /\ i \in DOMAIN call /\ call[i].source = s
              /\ assessed'[i] = "none" /\ NotRequested(s, i)

\* A step of a source of that form keeps the invariant.
LEMMA SourceKeepsDecision ==
    ASSUME TypeOK, TypeOK', DecisionInv, UNCHANGED gateVars,
           RequestsDropped, ReportsAdded, AnswersOnce, ran' \subseteq forwarded
    PROVE  DecisionInv'
  <1>0. /\ call' = call /\ pending' = pending /\ preparing' = preparing
        /\ forwarded' = forwarded /\ awaiting' = awaiting
        /\ approved' = approved /\ ruledIn' = ruledIn
    BY DEF gateVars, gateState, gateHistory
  <1>1. IdsMinted'
    BY <1>0 DEF DecisionInv, IdsMinted, AnswersOnce
  <1>a. ASSUME NEW s \in Sources, NEW d \in {0, 1}, NEW k \in 1..Len(toSource'[s]),
               Len(toSource'[s]) = Len(toSource[s]) - d
        PROVE  k + d \in 1..Len(toSource[s])
    <2>1. toSource[s] \in Seq(Requests) /\ toSource'[s] \in Seq(Requests)
      BY DEF TypeOK, WireTypeOK
    <2>2. Len(toSource[s]) \in Nat BY <2>1
    <2> QED BY <1>a, <2>2
  <1>2. RequestsJustified'
    <2> SUFFICES ASSUME NEW s \in Sources, NEW k \in 1..Len(toSource'[s])
                 PROVE  /\ toSource'[s][k].id \in DOMAIN call
                        /\ toSource'[s][k].kind = "invoke" => toSource'[s][k].id \in forwarded
                        /\ toSource'[s][k].kind = "prepare" =>
                             /\ assessed'[toSource'[s][k].id] = "none"
                             /\ call[toSource'[s][k].id].source = s
                             /\ \A j \in 1..Len(toSource'[s]) :
                                  toSource'[s][j] = toSource'[s][k] => j = k
      BY <1>0 DEF RequestsJustified
    <2> DEFINE m == toSource'[s][k]
    <2>1. PICK d \in {0, 1} :
            /\ Len(toSource'[s]) = Len(toSource[s]) - d
            /\ \A j \in 1..Len(toSource'[s]) : toSource'[s][j] = toSource[s][j + d]
      BY DEF RequestsDropped
    <2>2. k + d \in 1..Len(toSource[s]) /\ m = toSource[s][k + d]
      BY <1>a, <2>1
    <2> HIDE DEF m
    <2>3. /\ m.id \in DOMAIN call
          /\ m.kind = "invoke" => m.id \in forwarded
          /\ m.kind = "prepare" =>
               /\ assessed[m.id] = "none"
               /\ call[m.id].source = s
               /\ \A j \in 1..Len(toSource[s]) : toSource[s][j] = m => j = k + d
      BY <2>2, Zenon DEF DecisionInv, RequestsJustified
    <2>4. m \in Requests
      <3>1. toSource'[s] \in Seq(Requests) BY DEF TypeOK, WireTypeOK
      <3> QED BY <3>1 DEF m
    <2>5. ASSUME m.kind = "prepare" PROVE assessed'[m.id] = "none"
      <3>1. m = Request("prepare", m.id) /\ m.id \in Inner BY <2>4, <2>5, RequestEq
      <3>2. ~NotRequested(s, m.id) BY <3>1 DEF NotRequested, m
      <3>3. assessed'[m.id] = assessed[m.id] BY <3>1, <3>2 DEF AnswersOnce
      <3> QED BY <2>3, <2>5, <3>3
    <2>6. ASSUME m.kind = "prepare", NEW j \in 1..Len(toSource'[s]), toSource'[s][j] = m
          PROVE  j = k
      <3>1. j + d \in 1..Len(toSource[s]) /\ toSource'[s][j] = toSource[s][j + d]
        BY <1>a, <2>1
      <3>2. j + d = k + d BY <2>3, <2>6, <3>1
      <3> QED BY <3>2
    <2> QED BY <2>3, <2>5, <2>6 DEF m
  <1>3. PreparationsJustified'
    <2> SUFFICES ASSUME NEW s \in Sources, NEW i \in Inner, phase'[s][i] = "prepare"
                 PROVE  /\ i \in DOMAIN call
                        /\ call[i].source = s
                        /\ assessed'[i] = "none"
                        /\ NotRequested(s, i)
      BY <1>0 DEF PreparationsJustified, NotRequested
    <2>1. CASE phase[s][i] = "prepare"
      <3>1. /\ i \in DOMAIN call /\ call[i].source = s /\ assessed[i] = "none"
            /\ \A k \in 1..Len(toSource[s]) : toSource[s][k] # Request("prepare", i)
        BY <2>1 DEF DecisionInv, PreparationsJustified
      <3>2. NotRequested(s, i)
        <4> SUFFICES ASSUME NEW k \in 1..Len(toSource'[s])
                     PROVE  toSource'[s][k] # Request("prepare", i)
          BY DEF NotRequested
        <4>1. PICK d \in {0, 1} :
                /\ Len(toSource'[s]) = Len(toSource[s]) - d
                /\ \A j \in 1..Len(toSource'[s]) : toSource'[s][j] = toSource[s][j + d]
          BY DEF RequestsDropped
        <4>2. k + d \in 1..Len(toSource[s]) BY <1>a, <4>1
        <4> QED BY <3>1, <4>1, <4>2
      <3>3. assessed'[i] = assessed[i] BY DEF AnswersOnce
      <3> QED BY <3>1, <3>2, <3>3
    <2>2. CASE phase[s][i] # "prepare"
      BY <2>2 DEF AnswersOnce
    <2> QED BY <2>1, <2>2
  <1>b. ASSUME NEW i \in Inner, assessed[i] # "none" PROVE assessed'[i] = assessed[i]
    BY <1>b DEF AnswersOnce
  <1>4. AnswersGenuine'
    <2> SUFFICES ASSUME NEW s \in Sources, NEW k \in 1..Len(fromSource'[s]),
                        fromSource'[s][k].kind = "prepared"
                 PROVE  /\ fromSource'[s][k].id \in DOMAIN call
                        /\ assessed'[fromSource'[s][k].id] = fromSource'[s][k].answer
      BY <1>0 DEF AnswersGenuine
    <2>1. ASSUME NEW j \in 1..Len(fromSource[s]), fromSource'[s][k] = fromSource[s][j]
          PROVE  /\ fromSource[s][j].id \in DOMAIN call
                 /\ assessed'[fromSource[s][j].id] = fromSource[s][j].answer
      <3> DEFINE m == fromSource[s][j]
      <3>1. m.id \in DOMAIN call /\ assessed[m.id] = m.answer
        BY <2>1 DEF DecisionInv, AnswersGenuine
      <3>2. m \in Reports /\ m.kind = "prepared"
        <4>1. fromSource[s] \in Seq(Reports) BY DEF TypeOK, WireTypeOK
        <4> QED BY <2>1, <4>1
      <3> HIDE DEF m
      <3>3. m.id \in Inner /\ m.answer \in Answers BY <3>2 DEF Reports
      <3>4. m.answer # "none" BY <3>3 DEF Answers
      <3> QED BY <1>b, <3>1, <3>3, <3>4 DEF m
    <2> QED BY <2>1 DEF ReportsAdded
  <1>5. PreparingUndecided'
    BY <1>0 DEF DecisionInv, PreparingUndecided
  <1>6. AskedRightly'
    <2> SUFFICES ASSUME NEW o \in Outer, awaiting[o] # 0
                 PROVE  assessed'[awaiting[o]] = "unsure"
      BY <1>0 DEF AskedRightly, DecisionInv
    <2>1. awaiting[o] \in Inner /\ assessed[awaiting[o]] = "unsure"
      BY Minted DEF DecisionInv, AskedRightly
    <2> QED BY <1>b, <2>1
  <1>7. ForwardedAllowed'
    <2>1. ASSUME NEW i \in forwarded PROVE Allowed(i)'
      <3>1. i \in Inner /\ Allowed(i)
        BY DEF TypeOK, GateTypeOK, DecisionInv, ForwardedAllowed
      <3>2. CASE assessed'[i] = assessed[i] BY <1>0, <3>1, <3>2 DEF Allowed
      <3>3. CASE assessed[i] = "none" BY <1>0, <3>1, <3>3 DEF Allowed
      <3> QED BY <1>b, <3>1, <3>2, <3>3
    <2> QED BY <1>0, <2>1 DEF ForwardedAllowed
  <1> QED BY <1>1, <1>2, <1>3, <1>4, <1>5, <1>6, <1>7 DEF DecisionInv

-----------------------------------------------------------------------------
\* The ways a handler of the gate changes the queues, as steps of that form.
LEMMA NoRequestAdded ==
    ASSUME TypeOK, UNCHANGED toSource PROVE RequestsAdded
  BY DEF RequestsAdded

LEMMA OneRequestAdded ==
    ASSUME TypeOK, DecisionInv, NEW r, NEW kind \in {"prepare", "invoke", "cancel"},
           NEW i \in Inner, i \in DOMAIN call',
           toSource' = [toSource EXCEPT ![r] = Append(@, Request(kind, i))],
           \/ kind = "cancel"
           \/ kind = "invoke" /\ i \in forwarded'
           \/ kind = "prepare" /\ i \notin DOMAIN call /\ call'[i].source = r
    PROVE  RequestsAdded
  <1> SUFFICES ASSUME NEW s \in Sources, NEW k \in 1..Len(toSource'[s])
               PROVE  \/ k \in 1..Len(toSource[s]) /\ toSource'[s][k] = toSource[s][k]
                      \/ toSource'[s][k].kind = "cancel" /\ toSource'[s][k].id \in DOMAIN call'
                      \/ /\ toSource'[s][k].kind = "invoke"
                         /\ toSource'[s][k].id \in DOMAIN call'
                         /\ toSource'[s][k].id \in forwarded'
                      \/ /\ toSource'[s][k].kind = "prepare"
                         /\ toSource'[s][k].id \in DOMAIN call' \ DOMAIN call
                         /\ call'[toSource'[s][k].id].source = s
                         /\ \A j \in 1..Len(toSource'[s]) : toSource'[s][j] = toSource'[s][k] => j = k
    BY DEF RequestsAdded
  <1> DEFINE m == Request(kind, i)
             old == toSource[s]
  <1>1. old \in Seq(Requests) /\ m \in Requests
    BY DEF TypeOK, WireTypeOK, Request, Requests
  <1>2. m.kind = kind /\ m.id = i BY DEF Request
  <1>3. CASE s # r
    BY <1>3 DEF TypeOK, WireTypeOK
  <1>4. CASE s = r
    <2>1. toSource'[s] = Append(old, m) BY <1>4 DEF TypeOK, WireTypeOK
    <2> HIDE DEF m, old
    <2>2. /\ Len(toSource'[s]) = Len(old) + 1
          /\ \A j \in 1..Len(old) : toSource'[s][j] = old[j]
          /\ toSource'[s][Len(old) + 1] = m
      BY <1>1, <2>1, AppendFacts
    <2>3. Len(old) \in Nat BY <1>1
    <2>4. \A j \in 1..Len(toSource'[s]) : j \in 1..Len(old) \/ j = Len(old) + 1
      BY <2>2, <2>3
    <2>5. CASE k \in 1..Len(old)
      BY <2>2, <2>5 DEF old
    <2>6. CASE k = Len(old) + 1
      <3>1. toSource'[s][k] = m BY <2>2, <2>6
      <3>2. ASSUME kind = "prepare", i \notin DOMAIN call, NEW j \in 1..Len(toSource'[s]),
                   toSource'[s][j] = m
            PROVE  j = k
        <4>1. ASSUME j \in 1..Len(old) PROVE FALSE
          <5>1. old[j].id \in DOMAIN call
            BY <4>1, Zenon DEF DecisionInv, RequestsJustified, old
          <5> QED BY <1>2, <2>2, <3>2, <4>1, <5>1
        <4> QED BY <2>4, <2>6, <4>1
      <3> QED BY <1>2, <1>4, <3>1, <3>2
    <2> QED BY <2>4, <2>5, <2>6
  <1> QED BY <1>3, <1>4

LEMMA CancelsOnly ==
    ASSUME TypeOK, NEW ids \in SUBSET DOMAIN call, DOMAIN call \subseteq DOMAIN call',
           NEW sorted \in BOOLEAN, PostCancels(ids, sorted)
    PROVE  RequestsAdded
  <1>1. ids \in SUBSET Inner BY Minted
  <1>2. \A s \in Sources : \A k \in 1..Len(toSource'[s]) :
             \/ k <= Len(toSource[s]) /\ toSource'[s][k] = toSource[s][k]
             \/ toSource'[s][k].kind = "cancel" /\ toSource'[s][k].id \in ids
    BY <1>1, CancelsAppended, Zenon DEF TypeOK
  <1> SUFFICES ASSUME NEW s \in Sources, NEW k \in 1..Len(toSource'[s])
               PROVE  \/ k \in 1..Len(toSource[s]) /\ toSource'[s][k] = toSource[s][k]
                      \/ toSource'[s][k].kind = "cancel" /\ toSource'[s][k].id \in DOMAIN call'
    BY DEF RequestsAdded
  <1>3. CASE k <= Len(toSource[s]) /\ toSource'[s][k] = toSource[s][k]
    <2>1. toSource[s] \in Seq(Requests) BY DEF TypeOK, WireTypeOK
    <2>2. Len(toSource[s]) \in Nat BY <2>1
    <2>3. k \in 1..Len(toSource[s]) BY <1>3, <2>2
    <2> QED BY <1>3, <2>3
  <1>4. CASE toSource'[s][k].kind = "cancel" /\ toSource'[s][k].id \in ids
    BY <1>4
  <1> QED BY <1>2, <1>3, <1>4

LEMMA NoReportTaken ==
    ASSUME TypeOK, UNCHANGED fromSource PROVE ReportsTaken
  BY DEF ReportsTaken

LEMMA OneReportTaken ==
    ASSUME TypeOK, NEW s \in Sources, NEW kind, NextReport(s, kind)
    PROVE  ReportsTaken
  <1>1. fromSource[s] \in Seq(Reports) /\ fromSource[s] # <<>>
    BY DEF TypeOK, WireTypeOK, NextReport
  <1>2. fromSource'[s] = Tail(fromSource[s])
    BY DEF NextReport, TypeOK, WireTypeOK
  <1>3. ASSUME NEW k \in 1..Len(Tail(fromSource[s]))
        PROVE  k + 1 \in 1..Len(fromSource[s]) /\ Tail(fromSource[s])[k] = fromSource[s][k + 1]
    BY <1>1, TailFacts
  <1>4. \A r \in Sources : r # s => fromSource'[r] = fromSource[r]
    BY DEF NextReport, TypeOK, WireTypeOK
  <1> SUFFICES ASSUME NEW r \in Sources, NEW k \in 1..Len(fromSource'[r])
               PROVE  \E j \in 1..Len(fromSource[r]) : fromSource'[r][k] = fromSource[r][j]
    BY DEF ReportsTaken
  <1>5. CASE r = s
    BY <1>2, <1>3, <1>5, Zenon
  <1>6. CASE r # s
    BY <1>4, <1>6, Zenon
  <1> QED BY <1>5, <1>6

\* What the head of a source's reports says of its call.
LEMMA HeadGenuine ==
    ASSUME TypeOK, DecisionInv, NEW s \in Sources, NextReport(s, "prepared")
    PROVE  /\ Head(fromSource[s]).id \in DOMAIN call
           /\ Head(fromSource[s]).answer \in Answers
           /\ assessed[Head(fromSource[s]).id] = Head(fromSource[s]).answer
  <1> DEFINE m == Head(fromSource[s])
  <1>1. fromSource[s] \in Seq(Reports) /\ fromSource[s] # <<>> /\ m.kind = "prepared"
    BY DEF TypeOK, WireTypeOK, NextReport
  <1>2. m \in Reports /\ m = fromSource[s][1] /\ 1 \in 1..Len(fromSource[s])
    BY <1>1, TailFacts
  <1>3. m.answer \in Answers BY <1>1, <1>2 DEF Reports
  <1> QED BY <1>1, <1>2, <1>3 DEF DecisionInv, AnswersGenuine

-----------------------------------------------------------------------------
\* Every handler of the gate keeps the invariant.
LEMMA GateStepDecision ==
    ASSUME TypeOK, TypeOK', DecisionInv, UNCHANGED sourceVars,
           Requested \/ Stop \/ WriterClosed \/ \E s \in Sources : Reported(s)
    PROVE  DecisionInv'
  <1> USE DEF inner_id_counter
  <1>0. /\ pending \subseteq DOMAIN call /\ preparing \subseteq DOMAIN call
        /\ forwarded \subseteq DOMAIN call
    BY DEF DecisionInv, IdsMinted
  <1>1. ASSUME NEW o \in Outer, NEW t \in Tools, NEW allowed \in BOOLEAN, NEW fits \in BOOLEAN,
               NEW policy \in Policies \cup {"invalid"}, ToolInvoke(o, t, allowed, policy, fits)
        PROVE  DecisionInv'
    <2> DEFINE i == Len(call) + 1
               new(s) == [outer |-> o, source |-> s, name |-> t, policy |-> policy]
    <2>1. UNCHANGED <<fromSource, awaiting, ruledIn, approved>> BY <1>1 DEF ToolInvoke
    <2>2. ReportsTaken BY <2>1, NoReportTaken
    <2>3. CASE UNCHANGED <<toSource, call, pending, preparing, forwarded>>
      <3>1. RequestsAdded BY <2>3, NoRequestAdded
      <3>2. CallsKept BY <2>3 DEF CallsKept
      <3>3. HoldingsSound
        BY <1>0, <2>1, <2>3 DEF HoldingsSound, DecisionInv, PreparingUndecided
      <3> QED BY <2>2, <3>1, <3>2, <3>3, GateKeepsDecision
    <2>4. ASSUME NEW s \in Sources, policy # "invalid",
                 call' = Append(call, new(s)),
                 \/ policy = "workflow" /\ Execute(i, new(s), fits) /\ UNCHANGED preparing
                 \/ policy # "workflow" /\ Prepare(i, new(s), fits) /\ UNCHANGED forwarded
          PROVE  DecisionInv'
      <3> DEFINE c == new(s)
      <3>1. c \in Calls /\ c.source = s /\ c.policy = policy BY <2>4 DEF Calls
      <3>2. call \in Seq(Calls) /\ call' = Append(call, c) BY <2>4 DEF TypeOK, GateTypeOK
      <3> HIDE DEF c
      <3>3. /\ DOMAIN call' = 1..(Len(call) + 1)
            /\ \A j \in 1..Len(call) : call'[j] = call[j]
            /\ call'[Len(call) + 1] = c
        BY <3>1, <3>2, AppendFacts
      <3>4. DOMAIN call = 1..Len(call) /\ Len(call) \in Nat /\ i \notin DOMAIN call BY Minted
      <3>5. i \in DOMAIN call' /\ call'[i] = c /\ DOMAIN call' = DOMAIN call \cup {i}
        BY <3>3, <3>4
      <3>6. CallsKept BY <3>3, <3>4, <3>5 DEF CallsKept
      <3>7. i \in Inner
        <4>1. DOMAIN call' \subseteq Inner
          <5>1. call' \in Seq(Calls) /\ Len(call') <= MaxCalls
            BY DEF TypeOK, GateTypeOK
          <5> QED BY <5>1, MaxCallsAssumption DEF Inner
        <4> QED BY <3>5, <4>1
      <3> HIDE DEF i
      <3>8. CASE policy = "workflow" /\ Execute(i, c, fits) /\ UNCHANGED preparing
        <4>1. CASE fits
          <5>1. /\ pending' = pending \cup {i} /\ forwarded' = forwarded \cup {i}
                /\ toSource' = [toSource EXCEPT ![s] = Append(@, Request("invoke", i))]
            BY <3>1, <3>8, <4>1 DEF Execute
          <5>2. RequestsAdded BY <3>5, <3>7, <5>1, OneRequestAdded
          <5>3. \A j : j = i => Allowed(j)' BY <3>1, <3>5, <3>8 DEF Allowed
          <5>4. HoldingsSound
            BY <1>0, <2>1, <3>4, <3>5, <3>8, <5>1, <5>3 DEF HoldingsSound, DecisionInv, PreparingUndecided, i
          <5> QED BY <2>2, <3>6, <5>2, <5>4, GateKeepsDecision
        <4>2. CASE ~fits
          <5>1. pending' = pending \ {i} /\ UNCHANGED <<toSource, forwarded>>
            BY <3>8, <4>2 DEF Execute
          <5>2. RequestsAdded BY <5>1, NoRequestAdded
          <5>3. HoldingsSound
            BY <1>0, <2>1, <3>5, <3>8, <5>1 DEF HoldingsSound, DecisionInv, PreparingUndecided
          <5> QED BY <2>2, <3>6, <5>2, <5>3, GateKeepsDecision
        <4> QED BY <4>1, <4>2
      <3>9. CASE policy # "workflow" /\ Prepare(i, c, fits) /\ UNCHANGED forwarded
        <4>1. CASE fits
          <5>1. /\ pending' = pending \cup {i} /\ preparing' = preparing \cup {i}
                /\ toSource' = [toSource EXCEPT ![s] = Append(@, Request("prepare", i))]
            BY <3>1, <3>9, <4>1 DEF Prepare
          <5>2. RequestsAdded BY <3>1, <3>4, <3>5, <3>7, <5>1, OneRequestAdded DEF i
          <5>3. HoldingsSound
            BY <1>0, <2>1, <3>1, <3>4, <3>5, <3>9, <5>1 DEF HoldingsSound, DecisionInv, PreparingUndecided, i
          <5> QED BY <2>2, <3>6, <5>2, <5>3, GateKeepsDecision
        <4>2. CASE ~fits
          <5>1. UNCHANGED <<pending, preparing, toSource>> BY <3>9, <4>2 DEF Prepare
          <5>2. RequestsAdded BY <5>1, NoRequestAdded
          <5>3. HoldingsSound
            BY <1>0, <2>1, <3>5, <3>9, <5>1 DEF HoldingsSound, DecisionInv, PreparingUndecided
          <5> QED BY <2>2, <3>6, <5>2, <5>3, GateKeepsDecision
        <4> QED BY <4>1, <4>2
      <3> QED BY <2>4, <3>8, <3>9 DEF c, i
    <2>5. \/ UNCHANGED <<toSource, call, pending, preparing, forwarded>>
          \/ \E s \in Sources :
                /\ policy # "invalid"
                /\ call' = Append(call, new(s))
                /\ \/ policy = "workflow" /\ Execute(i, new(s), fits) /\ UNCHANGED preparing
                   \/ policy # "workflow" /\ Prepare(i, new(s), fits) /\ UNCHANGED forwarded
      BY <1>1, Zenon DEF ToolInvoke, Owners
    <2> QED BY <2>3, <2>4, <2>5, Zenon
  <1>2. ASSUME NEW o \in Outer, ToolCancel(o) PROVE DecisionInv'
    <2> DEFINE ids == {i \in pending : call[i].outer = o}
    <2>1. /\ awaiting' = [awaiting EXCEPT ![o] = 0]
          /\ pending' = pending \ ids /\ preparing' = preparing \ ids
          /\ PostCancels(ids, TRUE)
          /\ UNCHANGED <<fromSource, call, ruledIn, approved, forwarded>>
      BY <1>2 DEF ToolCancel
    <2>2. ids \in SUBSET DOMAIN call BY <1>0
    <2> HIDE DEF ids
    <2>3. RequestsAdded BY <2>1, <2>2, CancelsOnly
    <2>4. ReportsTaken BY <2>1, NoReportTaken
    <2>5. CallsKept BY <2>1 DEF CallsKept
    <2>6. HoldingsSound
      BY <1>0, <2>1 DEF HoldingsSound, DecisionInv, PreparingUndecided, TypeOK, GateTypeOK
    <2> QED BY <2>3, <2>4, <2>5, <2>6, GateKeepsDecision
  <1>3. ASSUME NEW o \in Outer, NEW approve \in BOOLEAN, NEW fits \in BOOLEAN,
               PermissionResponse(o, approve, fits)
        PROVE  DecisionInv'
    <2> DEFINE i == awaiting[o]
    <2>1. /\ i # 0 /\ awaiting' = [awaiting EXCEPT ![o] = 0]
          /\ UNCHANGED <<fromSource, call, preparing, ruledIn>>
      BY <1>3 DEF PermissionResponse
    <2>2. /\ i \in DOMAIN call /\ i \notin preparing
          /\ call[i].policy = "Default" /\ call[i].name \notin Denied /\ assessed[i] = "unsure"
      BY <2>1 DEF DecisionInv, AskedRightly
    <2>3. i \in Inner /\ i \in DOMAIN call' BY <2>1, <2>2, Minted
    <2>4. ReportsTaken /\ CallsKept BY <2>1, NoReportTaken DEF CallsKept
    <2>5. \/ Execute(i, call[i], fits) /\ approved' = approved \cup {i}
          \/ Deny(i) /\ UNCHANGED <<approved, forwarded>>
      BY <1>3, Zenon DEF PermissionResponse
    <2>6. \A p \in Outer : awaiting'[p] # 0 => awaiting'[p] = awaiting[p]
      BY <2>1 DEF TypeOK, GateTypeOK
    <2> HIDE DEF i
    <2>7. CASE Execute(i, call[i], fits) /\ approved' = approved \cup {i} /\ fits
      <3>1. /\ pending' = pending \cup {i} /\ forwarded' = forwarded \cup {i}
            /\ toSource' = [toSource EXCEPT ![call[i].source] = Append(@, Request("invoke", i))]
        BY <2>7 DEF Execute
      <3>2. RequestsAdded BY <2>3, <3>1, OneRequestAdded
      <3>3. \A j : j = i => Allowed(j)'
        <4>1. assessed' = assessed /\ i \in approved' BY <2>7 DEF sourceVars
        <4> QED BY <2>1, <2>2, <4>1 DEF Allowed
      <3>4. HoldingsSound
        BY <1>0, <2>1, <2>2, <2>6, <2>7, <3>1, <3>3 DEF HoldingsSound, DecisionInv, PreparingUndecided
      <3> QED BY <2>4, <3>2, <3>4, GateKeepsDecision
    <2>8. CASE Execute(i, call[i], fits) /\ approved' = approved \cup {i} /\ ~fits
      <3>1. pending' = pending \ {i} /\ UNCHANGED <<toSource, forwarded>> BY <2>8 DEF Execute
      <3>2. RequestsAdded BY <3>1, NoRequestAdded
      <3>3. HoldingsSound
        BY <1>0, <2>1, <2>6, <2>8, <3>1 DEF HoldingsSound, DecisionInv, PreparingUndecided
      <3> QED BY <2>4, <3>2, <3>3, GateKeepsDecision
    <2>9. CASE Deny(i) /\ UNCHANGED <<approved, forwarded>>
      <3>1. /\ pending' = pending \ {i}
            /\ toSource' = [toSource EXCEPT ![call[i].source] = Append(@, Request("cancel", i))]
        BY <2>9 DEF Deny, Post
      <3>2. RequestsAdded BY <2>3, <3>1, OneRequestAdded
      <3>3. HoldingsSound
        BY <1>0, <2>1, <2>6, <2>9, <3>1 DEF HoldingsSound, DecisionInv, PreparingUndecided
      <3> QED BY <2>4, <3>2, <3>3, GateKeepsDecision
    <2> QED BY <2>5, <2>7, <2>8, <2>9
  <1>4. ASSUME UNCHANGED <<toSource, fromSource, call, pending, preparing, awaiting,
                           ruledIn, approved, forwarded>>
        PROVE  DecisionInv'
    <2>1. RequestsAdded /\ ReportsTaken BY <1>4, NoRequestAdded, NoReportTaken
    <2>2. CallsKept BY <1>4 DEF CallsKept
    <2>3. HoldingsSound BY <1>0, <1>4 DEF HoldingsSound, DecisionInv, PreparingUndecided
    <2> QED BY <2>1, <2>2, <2>3, GateKeepsDecision
  <1>5. ASSUME NEW m \in Modes, SetMode(m) PROVE DecisionInv'
    BY <1>4, <1>5 DEF SetMode, wire, gateHistory
  <1>6. ASSUME NEW s \in Sources, NEW catalog \in [Tools -> Executions], ToolsAdvertise(s, catalog)
        PROVE  DecisionInv'
    BY <1>4, <1>6 DEF ToolsAdvertise, wire, gateHistory
  <1>7. ASSUME pending' = {}, preparing' = {}, awaiting' = [o \in Outer |-> 0],
               RequestsAdded, ReportsTaken, \A i \in forwarded : ruledIn'[i] = ruledIn[i],
               UNCHANGED <<call, approved, forwarded>>
        PROVE  DecisionInv'
    <2>1. CallsKept BY <1>7 DEF CallsKept
    <2>2. HoldingsSound BY <1>0, <1>7 DEF HoldingsSound
    <2> QED BY <1>7, <2>1, <2>2, GateKeepsDecision
  <1>8. ASSUME Stop PROVE DecisionInv'
    <2>1. PICK status \in {"stopped", "failed"} : Exit(status) BY <1>8 DEF Stop
    <2>2. UNCHANGED <<fromSource, call, ruledIn, approved, forwarded>> BY <1>8 DEF Stop, gateHistory
    <2>3. RequestsAdded BY <1>0, <2>1, <2>2, CancelsOnly DEF Exit
    <2>4. ReportsTaken BY <2>2, NoReportTaken
    <2> QED BY <1>7, <2>1, <2>2, <2>3, <2>4 DEF Exit
  <1>9. ASSUME WriterClosed PROVE DecisionInv'
    <2>1. RequestsAdded /\ ReportsTaken
      BY <1>9, NoRequestAdded, NoReportTaken DEF WriterClosed, wire
    <2> QED BY <1>7, <1>9, <2>1 DEF WriterClosed, gateHistory
  <1>10. ASSUME NEW s \in Sources, ToolPrepared(s) PROVE DecisionInv'
    <2> DEFINE i == Head(fromSource[s]).id
               answer == Head(fromSource[s]).answer
    <2>1. NextReport(s, "prepared") /\ UNCHANGED <<call, approved>> BY <1>10 DEF ToolPrepared
    <2>2. i \in DOMAIN call /\ answer \in Answers /\ assessed[i] = answer
      BY <2>1, HeadGenuine
    <2>3. ReportsTaken /\ CallsKept BY <2>1, OneReportTaken DEF CallsKept
    <2>4. i \in Inner /\ i \in DOMAIN call' /\ call[i] \in Calls BY <2>1, <2>2, Minted
    <2>5. assessed' = assessed BY DEF sourceVars
    <2>6. \/ UNCHANGED <<toSource, pending, preparing, awaiting, ruledIn, forwarded>>
          \/ /\ i \in preparing
             /\ ruledIn' = [ruledIn EXCEPT ![i] = mode]
             /\ \/ /\ Ruling(call[i], answer) = "run"
                   /\ preparing' = preparing \ {i}
                   /\ Execute(i, call[i], TRUE)
                   /\ UNCHANGED awaiting
                \/ preparing' = preparing \ {i} /\ Deny(i) /\ UNCHANGED <<awaiting, forwarded>>
                \/ /\ Ruling(call[i], answer) = "ask"
                   /\ preparing' = preparing \ {i}
                   /\ awaiting' = [awaiting EXCEPT ![call[i].outer] = i]
                   /\ UNCHANGED <<toSource, pending, forwarded>>
                \/ Exit("failed") /\ UNCHANGED forwarded
      BY <1>10, Zenon DEF ToolPrepared
    <2> HIDE DEF i, answer
    <2>7. CASE UNCHANGED <<toSource, pending, preparing, awaiting, ruledIn, forwarded>>
      <3>1. RequestsAdded BY <2>7, NoRequestAdded
      <3>2. HoldingsSound
        BY <1>0, <2>1, <2>7 DEF HoldingsSound, DecisionInv, PreparingUndecided
      <3> QED BY <2>3, <3>1, <3>2, GateKeepsDecision
    <2>8. ASSUME i \in preparing, ruledIn' = [ruledIn EXCEPT ![i] = mode]
          PROVE  /\ i \notin forwarded /\ call[i].policy # "workflow"
                 /\ \A j \in forwarded : ruledIn'[j] = ruledIn[j]
                 /\ ruledIn'[i] = mode
                 /\ mode \in Modes
      BY <2>4, <2>8 DEF DecisionInv, PreparingUndecided, TypeOK, GateTypeOK
    <2>9. CASE /\ i \in preparing
               /\ ruledIn' = [ruledIn EXCEPT ![i] = mode]
               /\ Ruling(call[i], answer) = "run"
               /\ preparing' = preparing \ {i}
               /\ Execute(i, call[i], TRUE)
               /\ UNCHANGED awaiting
      <3>1. /\ pending' = pending \cup {i} /\ forwarded' = forwarded \cup {i}
            /\ toSource' = [toSource EXCEPT ![call[i].source] = Append(@, Request("invoke", i))]
        BY <2>9 DEF Execute
      <3>2. RequestsAdded BY <2>4, <3>1, OneRequestAdded
      <3>3. \/ answer = "safe" /\ call[i].name \notin Denied
            \/ /\ call[i].policy = "Default"
               /\ \/ answer = "unsure" /\ call[i].name \notin Denied /\ mode = "auto"
                  \/ mode = "yolo"
        BY <2>2, <2>4, <2>8, <2>9, RulingSound
      <3>4. \A j : j = i => Allowed(j)'
        BY <2>1, <2>2, <2>5, <2>8, <2>9, <3>3 DEF Allowed
      <3>5. HoldingsSound
        BY <1>0, <2>1, <2>2, <2>8, <2>9, <3>1, <3>4 DEF HoldingsSound, DecisionInv, PreparingUndecided
      <3> QED BY <2>3, <3>2, <3>5, GateKeepsDecision
    <2>10. CASE /\ i \in preparing
                /\ ruledIn' = [ruledIn EXCEPT ![i] = mode]
                /\ preparing' = preparing \ {i} /\ Deny(i) /\ UNCHANGED <<awaiting, forwarded>>
      <3>1. /\ pending' = pending \ {i}
            /\ toSource' = [toSource EXCEPT ![call[i].source] = Append(@, Request("cancel", i))]
        BY <2>10 DEF Deny, Post
      <3>2. RequestsAdded BY <2>4, <3>1, OneRequestAdded
      <3>3. HoldingsSound
        BY <1>0, <2>1, <2>8, <2>10, <3>1 DEF HoldingsSound, DecisionInv, PreparingUndecided
      <3> QED BY <2>3, <3>2, <3>3, GateKeepsDecision
    <2>11. CASE /\ i \in preparing
                /\ ruledIn' = [ruledIn EXCEPT ![i] = mode]
                /\ Ruling(call[i], answer) = "ask"
                /\ preparing' = preparing \ {i}
                /\ awaiting' = [awaiting EXCEPT ![call[i].outer] = i]
                /\ UNCHANGED <<toSource, pending, forwarded>>
      <3>1. RequestsAdded BY <2>11, NoRequestAdded
      <3>2. answer = "unsure" /\ call[i].name \notin Denied /\ call[i].policy = "Default"
        BY <2>2, <2>4, <2>8, <2>11, RulingSound
      <3>3. \A o \in Outer : awaiting'[o] = awaiting[o] \/ awaiting'[o] = i
        BY <2>11 DEF TypeOK, GateTypeOK
      <3>4. HoldingsSound
        BY <1>0, <2>1, <2>2, <2>8, <2>11, <3>2, <3>3 DEF HoldingsSound, DecisionInv, PreparingUndecided
      <3> QED BY <2>3, <3>1, <3>4, GateKeepsDecision
    <2>12. CASE /\ i \in preparing
                /\ ruledIn' = [ruledIn EXCEPT ![i] = mode]
                /\ Exit("failed") /\ UNCHANGED forwarded
      <3>1. RequestsAdded BY <1>0, <2>1, <2>12, CancelsOnly DEF Exit
      <3> QED BY <1>7, <2>1, <2>3, <2>8, <2>12, <3>1 DEF Exit
    <2> QED BY <2>6, <2>7, <2>9, <2>10, <2>11, <2>12, Zenon
  <1>11. ASSUME NEW s \in Sources, NEW fits \in BOOLEAN, ToolStream(s, fits) PROVE DecisionInv'
    <2> DEFINE i == Head(fromSource[s]).id
    <2>1. /\ NextReport(s, "stream")
          /\ UNCHANGED <<call, preparing, awaiting, ruledIn, approved, forwarded>>
      BY <1>11 DEF ToolStream
    <2>2. ReportsTaken /\ CallsKept BY <2>1, OneReportTaken DEF CallsKept
    <2>3. \/ UNCHANGED <<toSource, pending>>
          \/ i \in pending /\ pending' = pending \ {i} /\ Post(i, "cancel")
      BY <1>11, Zenon DEF ToolStream
    <2> HIDE DEF i
    <2>4. pending' \subseteq pending BY <2>3
    <2>5. HoldingsSound BY <1>0, <2>1, <2>4 DEF HoldingsSound, DecisionInv, PreparingUndecided
    <2>6. RequestsAdded
      <3>1. CASE UNCHANGED <<toSource, pending>> BY <3>1, NoRequestAdded
      <3>2. CASE i \in pending /\ Post(i, "cancel")
        <4>1. i \in Inner /\ i \in DOMAIN call' BY <1>0, <2>1, <3>2, Minted
        <4> QED BY <3>2, <4>1, OneRequestAdded DEF Post
      <3> QED BY <2>3, <3>1, <3>2
    <2> QED BY <2>2, <2>5, <2>6, GateKeepsDecision
  <1>12. ASSUME NEW s \in Sources, ToolResult(s) PROVE DecisionInv'
    <2>1. /\ NextReport(s, "result")
          /\ UNCHANGED <<toSource, call, ruledIn, approved, forwarded>>
      BY <1>12 DEF ToolResult
    <2>2. ReportsTaken /\ CallsKept BY <2>1, OneReportTaken DEF CallsKept
    <2>3. RequestsAdded BY <2>1, NoRequestAdded
    <2>4. pending' \subseteq pending /\ preparing' \subseteq preparing
      BY <1>12 DEF ToolResult
    <2>5. \A o \in Outer : awaiting'[o] # 0 => awaiting'[o] = awaiting[o]
      BY <1>12 DEF ToolResult, TypeOK, GateTypeOK
    <2>6. HoldingsSound
      BY <1>0, <2>1, <2>4, <2>5 DEF HoldingsSound, DecisionInv, PreparingUndecided
    <2> QED BY <2>2, <2>3, <2>6, GateKeepsDecision
  <1>13. ASSUME Requested PROVE DecisionInv'
    BY <1>1, <1>2, <1>3, <1>5, <1>6, <1>13, InputsTyped, Zenon DEF Requested
  <1>14. ASSUME NEW s \in Sources, Reported(s) PROVE DecisionInv'
    BY <1>10, <1>11, <1>12, <1>14, Zenon DEF Reported
  <1> QED BY <1>8, <1>9, <1>13, <1>14, Zenon

-----------------------------------------------------------------------------
\* The ways a source changes the queues, as steps of its form.
LEMMA NoRequestDropped ==
    ASSUME TypeOK, UNCHANGED toSource PROVE RequestsDropped
  <1> SUFFICES ASSUME NEW s \in Sources
               PROVE  \E d \in {0, 1} :
                        /\ Len(toSource'[s]) = Len(toSource[s]) - d
                        /\ \A k \in 1..Len(toSource'[s]) : toSource'[s][k] = toSource[s][k + d]
    BY DEF RequestsDropped
  <1>1. toSource[s] \in Seq(Requests) BY DEF TypeOK, WireTypeOK
  <1>2. /\ Len(toSource[s]) = Len(toSource[s]) - 0
        /\ \A k \in 1..Len(toSource[s]) : toSource[s][k] = toSource[s][k + 0]
    BY <1>1
  <1> QED BY <1>2

LEMMA HeadDropped ==
    ASSUME TypeOK, NEW s \in Sources, toSource[s] # <<>>, Take(s)
    PROVE  /\ RequestsDropped
           /\ Head(toSource[s]) = toSource[s][1] /\ 1 \in 1..Len(toSource[s])
           /\ Head(toSource[s]) \in Requests
           /\ \A k \in 1..Len(toSource'[s]) :
                k + 1 \in 1..Len(toSource[s]) /\ k + 1 # 1 /\ toSource'[s][k] = toSource[s][k + 1]
           /\ \A r \in Sources : r # s => toSource'[r] = toSource[r]
  <1>1. toSource[s] \in Seq(Requests) BY DEF TypeOK, WireTypeOK
  <1>2. toSource'[s] = Tail(toSource[s]) /\ \A r \in Sources : r # s => toSource'[r] = toSource[r]
    BY DEF Take, TypeOK, WireTypeOK
  <1>3. /\ Head(toSource[s]) = toSource[s][1] /\ 1 \in 1..Len(toSource[s])
        /\ Head(toSource[s]) \in Requests
        /\ Len(Tail(toSource[s])) = Len(toSource[s]) - 1
        /\ \A k \in 1..Len(Tail(toSource[s])) :
             k + 1 \in 1..Len(toSource[s]) /\ k + 1 # 1 /\ Tail(toSource[s])[k] = toSource[s][k + 1]
    BY <1>1, TailFacts
  <1>4. RequestsDropped
    <2> SUFFICES ASSUME NEW r \in Sources
                 PROVE  \E d \in {0, 1} :
                          /\ Len(toSource'[r]) = Len(toSource[r]) - d
                          /\ \A k \in 1..Len(toSource'[r]) : toSource'[r][k] = toSource[r][k + d]
      BY DEF RequestsDropped
    <2>1. CASE r = s BY <1>2, <1>3, <2>1, Zenon
    <2>2. CASE r # s
      <3>1. toSource[r] \in Seq(Requests) BY DEF TypeOK, WireTypeOK
      <3>2. /\ Len(toSource[r]) = Len(toSource[r]) - 0
            /\ \A k \in 1..Len(toSource[r]) : toSource[r][k] = toSource[r][k + 0]
        BY <3>1
      <3> QED BY <1>2, <2>2, <3>2
    <2> QED BY <2>1, <2>2
  <1> QED BY <1>2, <1>3, <1>4

LEMMA NoReportAdded ==
    ASSUME TypeOK, UNCHANGED fromSource PROVE ReportsAdded
  BY DEF ReportsAdded

LEMMA OneReportAdded ==
    ASSUME TypeOK, NEW s \in Sources, NEW m \in Reports, Emit(s, m),
           m.kind = "prepared" => m.id \in DOMAIN call /\ assessed'[m.id] = m.answer
    PROVE  ReportsAdded
  <1>1. fromSource[s] \in Seq(Reports) BY DEF TypeOK, WireTypeOK
  <1>2. /\ fromSource'[s] = Append(fromSource[s], m)
        /\ \A r \in Sources : r # s => fromSource'[r] = fromSource[r]
    BY DEF Emit, TypeOK, WireTypeOK
  <1>3. /\ Len(Append(fromSource[s], m)) = Len(fromSource[s]) + 1
        /\ \A k \in 1..Len(fromSource[s]) : Append(fromSource[s], m)[k] = fromSource[s][k]
        /\ Append(fromSource[s], m)[Len(fromSource[s]) + 1] = m
        /\ Len(fromSource[s]) \in Nat
    BY <1>1, AppendFacts
  <1>4. \A k \in 1..Len(fromSource'[s]) :
            k \in 1..Len(fromSource[s]) \/ k = Len(fromSource[s]) + 1
    BY <1>2, <1>3
  <1> SUFFICES ASSUME NEW r \in Sources, NEW k \in 1..Len(fromSource'[r])
               PROVE  \/ \E j \in 1..Len(fromSource[r]) : fromSource'[r][k] = fromSource[r][j]
                      \/ fromSource'[r][k].kind = "prepared" =>
                            /\ fromSource'[r][k].id \in DOMAIN call
                            /\ assessed'[fromSource'[r][k].id] = fromSource'[r][k].answer
    BY DEF ReportsAdded
  <1>5. CASE r = s
    <2>1. CASE k \in 1..Len(fromSource[s]) BY <1>2, <1>3, <1>5, <2>1, Zenon
    <2>2. CASE k = Len(fromSource[s]) + 1 BY <1>2, <1>3, <1>5, <2>2
    <2> QED BY <1>4, <1>5, <2>1, <2>2
  <1>6. CASE r # s BY <1>2, <1>6, Zenon
  <1> QED BY <1>5, <1>6

\* A call that its source holds in a phase other than "prepare" afterwards,
\* and that was not answered in this step, satisfies AnswersOnce.
LEMMA NothingAnswered ==
    ASSUME TypeOK, NEW s \in Sources, NEW i \in Inner, NEW p \in Phases \ {"prepare"},
           Enter(s, i, p), UNCHANGED assessed
    PROVE  AnswersOnce
  BY DEF AnswersOnce, Enter, TypeOK, SourceTypeOK

\* An answer given for a call of this source that nobody else may answer.
LEMMA AnsweredOnce ==
    ASSUME TypeOK, DecisionInv, NEW s \in Sources, NEW i \in Inner, NEW a \in SourceAnswers,
           Answer(s, i, a), i \in DOMAIN call, call[i].source = s, assessed[i] = "none",
           \A r \in Sources : NotRequested(r, i)
    PROVE  AnswersOnce /\ ReportsAdded
  <1>1. /\ assessed' = [assessed EXCEPT ![i] = a]
        /\ phase' = [phase EXCEPT ![s][i] = "prepared"]
        /\ Emit(s, Prepared(i, a))
    BY DEF Answer, Enter
  <1>2. assessed'[i] = a /\ \A j \in Inner : j # i => assessed'[j] = assessed[j]
    BY <1>1 DEF TypeOK, SourceTypeOK
  <1>3. /\ phase'[s][i] = "prepared"
        /\ \A r \in Sources, j \in Inner : r # s \/ j # i => phase'[r][j] = phase[r][j]
    BY <1>1 DEF TypeOK, SourceTypeOK
  <1>4. \A r \in Sources : phase'[r][i] # "prepare"
    <2>1. \A r \in Sources : r # s => phase[r][i] # "prepare"
      BY DEF DecisionInv, PreparationsJustified
    <2> QED BY <1>3, <2>1
  <1>5. AnswersOnce BY <1>2, <1>3, <1>4 DEF AnswersOnce
  <1>6. a \in Answers BY DEF SourceAnswers, Answers
  <1>7. /\ Prepared(i, a) \in Reports /\ Prepared(i, a).id = i /\ Prepared(i, a).answer = a
    BY <1>6 DEF Prepared, Reports
  <1>8. ReportsAdded BY <1>1, <1>2, <1>7, OneReportAdded
  <1> QED BY <1>5, <1>8

\* The end of a call adds a report that answers nothing.
LEMMA SettledReport ==
    ASSUME TypeOK, NEW s \in Sources, NEW i \in Inner, NEW how \in {"refused", "ended"},
           Settle(s, i, how), UNCHANGED assessed
    PROVE  AnswersOnce /\ ReportsAdded
  <1>1. AnswersOnce BY NothingAnswered DEF Settle, Phases
  <1>2. Result(i, how) \in Reports /\ Result(i, how).kind = "result" BY DEF Result, Reports
  <1>3. ReportsAdded BY <1>2, OneReportAdded DEF Settle
  <1> QED BY <1>1, <1>3

\* Every handler of a source, and what its tools do later, keeps the
\* invariant.
LEMMA SourceStepDecision ==
    ASSUME TypeOK, TypeOK', DecisionInv, UNCHANGED gateVars,
           NEW s \in Sources, SourceReceives(s) \/ SourceActs(s)
    PROVE  DecisionInv'
  <1> DEFINE m == Head(toSource[s])
  <1>0. ran \subseteq forwarded BY DEF DecisionInv, ForwardedAllowed
  <1>1. ASSUME NEW kind, Addressed(s, kind), Take(s)
        PROVE  /\ RequestsDropped
               /\ m = Request(kind, m.id) /\ m.kind = kind /\ m.id \in Inner
               /\ m.id \in DOMAIN call
               /\ kind = "invoke" => m.id \in forwarded
               /\ kind = "prepare" =>
                    /\ assessed[m.id] = "none" /\ call[m.id].source = s
                    /\ \A r \in Sources : NotRequested(r, m.id)
    <2>1. /\ RequestsDropped
          /\ m = toSource[s][1] /\ 1 \in 1..Len(toSource[s]) /\ m \in Requests
          /\ \A k \in 1..Len(toSource'[s]) :
               k + 1 \in 1..Len(toSource[s]) /\ k + 1 # 1 /\ toSource'[s][k] = toSource[s][k + 1]
          /\ \A r \in Sources : r # s => toSource'[r] = toSource[r]
      BY <1>1, HeadDropped DEF Addressed
    <2>2. m.kind = kind BY <1>1 DEF Addressed
    <2> HIDE DEF m
    <2>3. m = Request(kind, m.id) /\ m.id \in Inner BY <2>1, <2>2, RequestEq
    <2>4. /\ m.id \in DOMAIN call
          /\ m.kind = "invoke" => m.id \in forwarded
          /\ m.kind = "prepare" =>
               /\ assessed[m.id] = "none" /\ call[m.id].source = s
               /\ \A j \in 1..Len(toSource[s]) : toSource[s][j] = m => j = 1
      BY <2>1, Zenon DEF DecisionInv, RequestsJustified
    <2>5. ASSUME kind = "prepare", NEW r \in Sources PROVE NotRequested(r, m.id)
      <3>1. CASE r = s BY <2>1, <2>2, <2>3, <2>4, <2>5, <3>1 DEF NotRequested
      <3>2. CASE r # s
        <4> SUFFICES ASSUME NEW k \in 1..Len(toSource[r]), toSource[r][k] = m PROVE FALSE
          BY <2>1, <2>3, <2>5, <3>2 DEF NotRequested
        <4>1. call[m.id].source = r
          BY <2>2, <2>5 DEF DecisionInv, RequestsJustified
        <4> QED BY <2>2, <2>4, <2>5, <3>2, <4>1
      <3> QED BY <3>1, <3>2
    <2> QED BY <2>1, <2>2, <2>3, <2>4, <2>5
  <1>2. ASSUME ReceivePrepare(s) PROVE DecisionInv'
    <2>1. /\ RequestsDropped /\ m.id \in Inner /\ m.id \in DOMAIN call
          /\ assessed[m.id] = "none" /\ call[m.id].source = s
          /\ \A r \in Sources : NotRequested(r, m.id)
      BY <1>1, <1>2 DEF ReceivePrepare
    <2>2. ran' \subseteq forwarded BY <1>0, <1>2 DEF ReceivePrepare
    <2>3. \/ Settle(s, m.id, "refused") /\ UNCHANGED assessed
          \/ \E a \in SourceAnswers : Answer(s, m.id, a)
          \/ Enter(s, m.id, "prepare") /\ UNCHANGED <<assessed, fromSource>>
      BY <1>2, Zenon DEF ReceivePrepare
    <2> HIDE DEF m
    <2>4. CASE Settle(s, m.id, "refused") /\ UNCHANGED assessed
      BY <2>1, <2>2, <2>4, SettledReport, SourceKeepsDecision
    <2>5. CASE \E a \in SourceAnswers : Answer(s, m.id, a)
      BY <2>1, <2>2, <2>5, AnsweredOnce, SourceKeepsDecision
    <2>6. CASE Enter(s, m.id, "prepare") /\ UNCHANGED <<assessed, fromSource>>
      <3>1. ReportsAdded BY <2>6, NoReportAdded
      <3>2. \A r \in Sources, j \in Inner : r # s \/ j # m.id => phase'[r][j] = phase[r][j]
        BY <2>6 DEF Enter, TypeOK, SourceTypeOK
      <3>3. AnswersOnce BY <2>1, <2>6, <3>2 DEF AnswersOnce
      <3> QED BY <2>1, <2>2, <3>1, <3>3, SourceKeepsDecision
    <2> QED BY <2>3, <2>4, <2>5, <2>6
  <1>3. ASSUME ReceiveInvoke(s) PROVE DecisionInv'
    <2>1. RequestsDropped /\ m.id \in Inner /\ m.id \in forwarded
      BY <1>1, <1>3 DEF ReceiveInvoke
    <2>2. ran' \subseteq forwarded BY <1>0, <1>3, <2>1 DEF ReceiveInvoke
    <2>3. /\ UNCHANGED assessed
          /\ \/ \E how \in {"refused", "ended"} : Settle(s, m.id, how)
             \/ Enter(s, m.id, "execute") /\ UNCHANGED fromSource
      BY <1>3, Zenon DEF ReceiveInvoke
    <2> HIDE DEF m
    <2>4. CASE \E how \in {"refused", "ended"} : Settle(s, m.id, how)
      BY <2>1, <2>2, <2>3, <2>4, SettledReport, SourceKeepsDecision
    <2>5. CASE Enter(s, m.id, "execute") /\ UNCHANGED fromSource
      <3>1. AnswersOnce BY <2>1, <2>3, <2>5, NothingAnswered DEF Phases
      <3>2. ReportsAdded BY <2>5, NoReportAdded
      <3> QED BY <2>1, <2>2, <3>1, <3>2, SourceKeepsDecision
    <2> QED BY <2>3, <2>4, <2>5
  <1>4. ASSUME ReceiveCancel(s) PROVE DecisionInv'
    <2>1. RequestsDropped /\ m.id \in Inner BY <1>1, <1>4 DEF ReceiveCancel
    <2>2. AnswersOnce BY <1>4, <2>1, NothingAnswered DEF ReceiveCancel, Phases
    <2>3. ReportsAdded BY <1>4, NoReportAdded DEF ReceiveCancel
    <2>4. ran' \subseteq forwarded BY <1>0, <1>4 DEF ReceiveCancel
    <2> QED BY <2>1, <2>2, <2>3, <2>4, SourceKeepsDecision
  <1>5. ASSUME NEW i \in Inner, DecideLater(s, i) PROVE DecisionInv'
    <2>1. PICK a \in SourceAnswers : Answer(s, i, a) BY <1>5 DEF DecideLater
    <2>2. phase[s][i] = "prepare" /\ UNCHANGED <<toSource, ran>> BY <1>5 DEF DecideLater
    <2>3. /\ i \in DOMAIN call /\ call[i].source = s /\ assessed[i] = "none"
          /\ \A k \in 1..Len(toSource[s]) : toSource[s][k] # Request("prepare", i)
      BY <2>2 DEF DecisionInv, PreparationsJustified
    <2>4. ASSUME NEW r \in Sources PROVE NotRequested(r, i)
      <3>1. CASE r = s BY <2>2, <2>3, <3>1 DEF NotRequested
      <3>2. CASE r # s
        <4> SUFFICES ASSUME NEW k \in 1..Len(toSource[r]), toSource[r][k] = Request("prepare", i)
                     PROVE  FALSE
          BY <2>2 DEF NotRequested
        <4>1. toSource[r][k].kind = "prepare" /\ toSource[r][k].id = i BY DEF Request
        <4>2. call[i].source = r BY <4>1 DEF DecisionInv, RequestsJustified
        <4> QED BY <2>3, <3>2, <4>2
      <3> QED BY <3>1, <3>2
    <2>5. AnswersOnce /\ ReportsAdded BY <2>1, <2>3, <2>4, AnsweredOnce
    <2>6. RequestsDropped BY <2>2, NoRequestDropped
    <2> QED BY <1>0, <2>2, <2>5, <2>6, SourceKeepsDecision
  <1>6. ASSUME NEW i \in Inner, EndCall(s, i) PROVE DecisionInv'
    <2>1. PICK how \in {"refused", "ended"} : Settle(s, i, how) BY <1>6 DEF EndCall
    <2>2. UNCHANGED <<toSource, assessed, ran>> BY <1>6 DEF EndCall
    <2>3. AnswersOnce /\ ReportsAdded BY <2>1, <2>2, SettledReport
    <2>4. RequestsDropped BY <2>2, NoRequestDropped
    <2> QED BY <1>0, <2>2, <2>3, <2>4, SourceKeepsDecision
  <1>7. ASSUME NEW i \in Inner, EmitStream(s, i) PROVE DecisionInv'
    <2>1. Emit(s, Stream(i)) /\ UNCHANGED <<toSource, phase, assessed, ran>> BY <1>7 DEF EmitStream
    <2>2. Stream(i) \in Reports /\ Stream(i).kind = "stream" BY DEF Stream, Reports
    <2>3. ReportsAdded BY <2>1, <2>2, OneReportAdded
    <2>4. AnswersOnce BY <2>1 DEF AnswersOnce
    <2>5. RequestsDropped BY <2>1, NoRequestDropped
    <2> QED BY <1>0, <2>1, <2>3, <2>4, <2>5, SourceKeepsDecision
  <1> HIDE DEF m
  <1> QED BY <1>2, <1>3, <1>4, <1>5, <1>6, <1>7, Zenon DEF SourceReceives, SourceActs

LEMMA DecisionInit == Init => DecisionInv
  <1> SUFFICES ASSUME Init PROVE DecisionInv OBVIOUS
  <1> USE DEF Init, WireInit, GateInit, SourceInit
  <1>1. \A s \in Sources : Len(toSource[s]) = 0 /\ Len(fromSource[s]) = 0 OBVIOUS
  <1>2. IdsMinted BY DEF IdsMinted
  <1>3. RequestsJustified /\ AnswersGenuine BY <1>1 DEF RequestsJustified, AnswersGenuine
  <1>4. PreparationsJustified BY DEF PreparationsJustified
  <1>5. PreparingUndecided /\ AskedRightly /\ ForwardedAllowed
    BY DEF PreparingUndecided, AskedRightly, ForwardedAllowed
  <1> QED BY <1>2, <1>3, <1>4, <1>5 DEF DecisionInv

LEMMA DecisionStep == TypeOK /\ TypeOK' /\ DecisionInv /\ [Next]_vars => DecisionInv'
  <1> SUFFICES ASSUME TypeOK, TypeOK', DecisionInv, [Next]_vars PROVE DecisionInv' OBVIOUS
  <1>1. CASE /\ Requested \/ Stop \/ WriterClosed \/ \E s \in Sources : Reported(s)
             /\ UNCHANGED sourceVars
    BY <1>1, GateStepDecision
  <1>2. ASSUME NEW s \in Sources, SourceReceives(s) \/ SourceActs(s), UNCHANGED gateVars
        PROVE  DecisionInv'
    BY <1>2, SourceStepDecision
  <1>3. CASE UNCHANGED vars
    <2>1. UNCHANGED <<wire, gateVars, sourceVars>> BY <1>3 DEF vars
    <2>2. RequestsDropped /\ ReportsAdded
      BY <2>1, NoRequestDropped, NoReportAdded DEF wire
    <2>3. AnswersOnce /\ ran' \subseteq forwarded
      BY <2>1 DEF AnswersOnce, sourceVars, DecisionInv, ForwardedAllowed
    <2> QED BY <2>1, <2>2, <2>3, SourceKeepsDecision
  <1> QED BY <1>1, <1>2, <1>3, Zenon DEF Next

\* For any number of sources, tools, callers and calls, whatever a source
\* may do, and in every order of answers, approvals, mode changes,
\* cancellations and results, the execute of a tool is reached only by a
\* call that the decision table of policy.rs or the user allowed.
THEOREM ToolRunsOnlyWhenAllowed == Spec => []RunsOnlyWhenAllowed
  <1>1. DecisionInv => RunsOnlyWhenAllowed
    BY DEF DecisionInv, ForwardedAllowed, RunsOnlyWhenAllowed
  <1> QED BY <1>1, DecisionInit, DecisionStep, ToolCallsTypeCorrect, PTL DEF Spec

-----------------------------------------------------------------------------
(* What the gate puts on the wire.                                          *)

\* Requests of one kind, for every call of a set, go to the calls' sources.
Posts(ids, kind) ==
    \A s \in Sources :
        /\ Len(toSource'[s]) >= Len(toSource[s])
        /\ kind # "cancel" => Len(toSource'[s]) <= Len(toSource[s]) + 1
        /\ \A k \in 1..Len(toSource'[s]) :
              \/ k \in 1..Len(toSource[s]) /\ toSource'[s][k] = toSource[s][k]
              \/ /\ k > Len(toSource[s])
                 /\ toSource'[s][k].kind = kind
                 /\ toSource'[s][k].id \in ids
                 /\ call'[toSource'[s][k].id].source = s
        /\ \A i \in ids : call'[i].source = s =>
              \E k \in 1..Len(toSource'[s]) : toSource'[s][k] = Request(kind, i)

LEMMA PostsNothing ==
    ASSUME TypeOK, UNCHANGED toSource, NEW kind PROVE Posts({}, kind)
  <1> SUFFICES ASSUME NEW s \in Sources
               PROVE  Len(toSource[s]) >= Len(toSource[s]) /\ Len(toSource[s]) <= Len(toSource[s]) + 1
    BY DEF Posts
  <1>1. toSource[s] \in Seq(Requests) BY DEF TypeOK, WireTypeOK
  <1>2. Len(toSource[s]) \in Nat BY <1>1
  <1> QED BY <1>2

LEMMA PostsOne ==
    ASSUME TypeOK, NEW kind \in {"prepare", "invoke", "cancel"}, NEW i \in Inner,
           NEW r \in Sources, call'[i].source = r,
           toSource' = [toSource EXCEPT ![r] = Append(@, Request(kind, i))]
    PROVE  Posts({i}, kind)
  <1> SUFFICES ASSUME NEW s \in Sources
               PROVE  /\ Len(toSource'[s]) >= Len(toSource[s])
                      /\ Len(toSource'[s]) <= Len(toSource[s]) + 1
                      /\ \A k \in 1..Len(toSource'[s]) :
                            \/ k \in 1..Len(toSource[s]) /\ toSource'[s][k] = toSource[s][k]
                            \/ /\ k > Len(toSource[s])
                               /\ toSource'[s][k].kind = kind
                               /\ toSource'[s][k].id = i
                               /\ call'[toSource'[s][k].id].source = s
                      /\ call'[i].source = s =>
                            \E k \in 1..Len(toSource'[s]) : toSource'[s][k] = Request(kind, i)
    BY DEF Posts
  <1> DEFINE m == Request(kind, i)
             old == toSource[s]
  <1>1. old \in Seq(Requests) /\ m \in Requests
    BY DEF TypeOK, WireTypeOK, Request, Requests
  <1>2. m.kind = kind /\ m.id = i BY DEF Request
  <1>3. Len(old) \in Nat BY <1>1
  <1>4. CASE s # r
    <2>1. toSource'[s] = old BY <1>4 DEF TypeOK, WireTypeOK
    <2> HIDE DEF old
    <2>2. toSource'[s] = old /\ Len(toSource'[s]) >= Len(old) /\ Len(toSource'[s]) <= Len(old) + 1
      BY <1>3, <2>1
    <2> QED BY <1>4, <2>2 DEF old
  <1>5. CASE s = r
    <2>1. toSource'[s] = Append(old, m) BY <1>5 DEF TypeOK, WireTypeOK
    <2> HIDE DEF m, old
    <2>2. /\ Len(toSource'[s]) = Len(old) + 1
          /\ \A j \in 1..Len(old) : toSource'[s][j] = old[j]
          /\ toSource'[s][Len(old) + 1] = m
      BY <1>1, <2>1, AppendFacts
    <2>3. /\ \A j \in 1..Len(toSource'[s]) : j \in 1..Len(old) \/ (j = Len(old) + 1 /\ j > Len(old))
          /\ Len(old) + 1 \in 1..Len(toSource'[s])
          /\ Len(toSource'[s]) >= Len(old) /\ Len(toSource'[s]) <= Len(old) + 1
      BY <1>3, <2>2
    <2>4. ASSUME NEW k \in 1..Len(toSource'[s])
          PROVE  \/ k \in 1..Len(old) /\ toSource'[s][k] = old[k]
                 \/ /\ k > Len(old)
                    /\ toSource'[s][k].kind = kind
                    /\ toSource'[s][k].id = i
                    /\ call'[toSource'[s][k].id].source = s
      BY <1>2, <1>5, <2>2, <2>3, Zenon
    <2>5. \E k \in 1..Len(toSource'[s]) : toSource'[s][k] = m BY <2>2, <2>3
    <2> QED BY <2>3, <2>4, <2>5 DEF m, old
  <1> QED BY <1>4, <1>5

\* An enumeration of a finite set misses none of its members.
LEMMA EnumerationComplete ==
    ASSUME NEW S, IsFiniteSet(S), NEW f \in SetToSeqs(S), NEW x \in S
    PROVE  \E k \in 1..Cardinality(S) : f[k] = x
  <1> DEFINE n == Cardinality(S)
             D == 1..n
             T == S \ {x}
  <1>1. n \in Nat BY FS_CardinalityType
  <1>2. f \in [D -> S] /\ \A i, j \in D : i # j => f[i] # f[j] BY DEF SetToSeqs
  <1>3. IsFiniteSet(T) /\ Cardinality(T) = n - 1 BY FS_RemoveElement
  <1> SUFFICES ASSUME \A k \in D : f[k] # x PROVE FALSE OBVIOUS
  <1>4. f \in [D -> T] BY <1>2
  <1> HIDE DEF n, T
  <1>5. IsFiniteSet(1..n) /\ Cardinality(1..n) = n
    <2>1. 1 \in Int /\ n \in Int BY <1>1
    <2>2. IsFiniteSet(1..n) /\ Cardinality(1..n) = IF 1 > n THEN 0 ELSE n - 1 + 1
      BY <2>1, FS_Interval
    <2> QED BY <1>1, <2>2
  <1>6. Cardinality(T) < Cardinality(D) BY <1>1, <1>3, <1>5
  <1>7. IsFiniteSet(D) BY <1>5
  <1> HIDE DEF D
  <1>8. \E i, j \in D : i # j /\ f[i] = f[j] BY <1>3, <1>4, <1>6, <1>7, FS_PigeonHole
  <1> QED BY <1>2, <1>8

LEMMA PostsCancels ==
    ASSUME TypeOK, NEW ids \in SUBSET Inner, NEW sorted \in BOOLEAN, PostCancels(ids, sorted),
           UNCHANGED call, \A i \in ids : call[i].source \in Sources
    PROVE  Posts(ids, "cancel")
  <1> DEFINE own(s) == {i \in ids : call[i].source = s}
             tail(f) == [k \in DOMAIN f |-> Request("cancel", f[k])]
  <1>1. PICK order :
            /\ \A s \in Sources : order[s] \in SetToSeqs(own(s))
            /\ toSource' = [s \in Sources |-> toSource[s] \o tail(order[s])]
    BY DEF PostCancels
  <1> SUFFICES ASSUME NEW s \in Sources
               PROVE  /\ Len(toSource'[s]) >= Len(toSource[s])
                      /\ \A k \in 1..Len(toSource'[s]) :
                            \/ k \in 1..Len(toSource[s]) /\ toSource'[s][k] = toSource[s][k]
                            \/ /\ k > Len(toSource[s])
                               /\ toSource'[s][k].kind = "cancel"
                               /\ toSource'[s][k].id \in ids
                               /\ call[toSource'[s][k].id].source = s
                      /\ \A i \in ids : call[i].source = s =>
                            \E k \in 1..Len(toSource'[s]) : toSource'[s][k] = Request("cancel", i)
    BY DEF Posts
  <1> DEFINE q == toSource[s]
             e == order[s]
             n == Cardinality(own(s))
             r == tail(e)
  <1>2. IsFiniteSet(own(s))
    <2>1. IsFiniteSet(Inner) BY MaxCallsAssumption, FS_Interval DEF Inner
    <2> QED BY <2>1, FS_Subset
  <1>3. n \in Nat BY <1>2, FS_CardinalityType
  <1>4. e \in SetToSeqs(own(s)) /\ e \in [1..n -> own(s)] BY <1>1 DEF SetToSeqs
  <1>5. toSource'[s] = q \o r BY <1>1
  <1>6. \A i \in own(s) : i \in ids /\ i \in Inner /\ call[i].source = s OBVIOUS
  <1>7. \A i \in ids : call[i].source = s => i \in own(s) OBVIOUS
  <1>8. q \in Seq(Requests) BY DEF TypeOK, WireTypeOK
  <1> HIDE DEF own
  <1>9. ASSUME NEW i \in own(s) PROVE \E k \in 1..n : e[k] = i
    BY <1>2, <1>4, EnumerationComplete
  <1>10. r = [k \in 1..n |-> Request("cancel", e[k])] BY <1>4
  <1> HIDE DEF q, e, n, tail, r
  <1>11. \A k \in 1..n : e[k] \in own(s) BY <1>4
  <1>12. \A k \in 1..n : r[k] = Request("cancel", e[k]) /\ r[k] \in Requests
    <2>1. \A k \in 1..n : e[k] \in Inner BY <1>6, <1>11
    <2> QED BY <1>10, <2>1 DEF Request, Requests
  <1>13. r \in Seq(Requests) /\ Len(r) = n
    <2>1. r \in [1..n -> Requests] BY <1>10, <1>12
    <2> QED BY <1>3, <2>1
  <1>14. /\ Len(q \o r) = Len(q) + n
         /\ \A k \in 1..Len(q) : (q \o r)[k] = q[k]
         /\ \A k \in 1..n : (q \o r)[Len(q) + k] = r[k]
         /\ Len(q) \in Nat
    BY <1>8, <1>13
  <1>15. Len(toSource'[s]) >= Len(q) /\ Len(toSource'[s]) = Len(q) + n BY <1>3, <1>5, <1>14
  <1>16. ASSUME NEW k \in 1..Len(toSource'[s])
         PROVE  \/ k \in 1..Len(q) /\ toSource'[s][k] = q[k]
                \/ /\ k > Len(q)
                   /\ toSource'[s][k].kind = "cancel"
                   /\ toSource'[s][k].id \in ids
                   /\ call[toSource'[s][k].id].source = s
    <2>1. CASE k \in 1..Len(q) BY <1>5, <1>14, <2>1
    <2>2. CASE k \notin 1..Len(q)
      <3>1. k > Len(q) /\ k \in 1..(Len(q) + n) BY <1>14, <1>15, <2>2
      <3>2. k - Len(q) \in 1..n /\ Len(q) + (k - Len(q)) = k BY <1>3, <1>14, <3>1
      <3> DEFINE j == k - Len(q)
      <3>3. j \in 1..n /\ Len(q) + j = k BY <3>2
      <3> HIDE DEF j
      <3>4. toSource'[s][k] = Request("cancel", e[j]) BY <1>5, <1>12, <1>14, <3>3
      <3>5. toSource'[s][k].kind = "cancel" /\ toSource'[s][k].id = e[j] BY <3>4 DEF Request
      <3>6. e[j] \in ids /\ call[e[j]].source = s BY <1>6, <1>11, <3>3
      <3> QED BY <3>1, <3>5, <3>6
    <2> QED BY <2>1, <2>2
  <1>17. ASSUME NEW i \in ids, call[i].source = s
         PROVE  \E k \in 1..Len(toSource'[s]) : toSource'[s][k] = Request("cancel", i)
    <2>1. PICK k \in 1..n : e[k] = i BY <1>7, <1>9, <1>17
    <2>2. Len(q) + k \in 1..Len(toSource'[s]) BY <1>3, <1>14, <1>15
    <2>3. toSource'[s][Len(q) + k] = Request("cancel", i) BY <1>5, <1>12, <1>14, <2>1
    <2> QED BY <2>2, <2>3
  <1> QED BY <1>15, <1>16, <1>17 DEF q
-----------------------------------------------------------------------------
(* Every step of the gate is one of seven moves.                            *)

\* Nothing that is held or told changes.
Quiet == UNCHANGED <<toSource, call, pending, preparing, awaiting, gate, asked, told, forwarded>>

\* A call is settled as it arrives.
Refuses(o) ==
    /\ asked[o] < MaxUses
    /\ asked' = [asked EXCEPT ![o] = @ + 1]
    /\ Tell(o, "denied")
    /\ UNCHANGED <<toSource, call, pending, preparing, awaiting, gate, forwarded>>

\* An id is minted for a call, which is run, prepared or rejected.
Mints(o, i) ==
    /\ asked[o] < MaxUses
    /\ asked' = [asked EXCEPT ![o] = @ + 1]
    /\ i \notin DOMAIN call
    /\ DOMAIN call' = DOMAIN call \cup {i}
    /\ call'[i] \in Calls /\ call'[i].outer = o
    /\ UNCHANGED <<awaiting, gate>>
    /\ \/ /\ call'[i].policy = "workflow" /\ Posts({i}, "invoke")
          /\ pending' = pending \cup {i} /\ forwarded' = forwarded \cup {i}
          /\ UNCHANGED <<preparing, told>>
       \/ /\ call'[i].policy # "workflow" /\ Posts({i}, "prepare")
          /\ pending' = pending \cup {i} /\ preparing' = preparing \cup {i}
          /\ UNCHANGED <<forwarded, told>>
       \/ Tell(o, "rejected") /\ UNCHANGED <<toSource, pending, preparing, forwarded>>

\* A held call is forwarded: nobody prepares it or is asked about it.
Runs(i) ==
    /\ i \in pending \ forwarded
    /\ assessed[i] # "none"
    /\ Posts({i}, "invoke")
    /\ forwarded' = forwarded \cup {i}
    /\ preparing' = preparing \ {i}
    /\ \A o \in Outer : awaiting'[o] = IF awaiting[o] = i THEN 0 ELSE awaiting[o]
    /\ UNCHANGED <<call, pending, gate, asked, told>>

\* The user is asked about a prepared call.
Asks(i) ==
    /\ i \in preparing
    /\ preparing' = preparing \ {i}
    /\ awaiting' = [awaiting EXCEPT ![call[i].outer] = i]
    /\ UNCHANGED <<toSource, call, pending, gate, asked, told, forwarded>>

\* One result settles calls held for an outer id; a cancellation all of them.
\* The source hears of it unless it said so or the wire rejected the request.
Settles(o, ids, how) ==
    /\ ids \subseteq HeldFor(o) /\ ids # {}
    /\ how \in {"withdrawn", "canceled"} => ids = HeldFor(o)
    /\ how \in {"denied", "withdrawn"} => ids \cap forwarded = {}
    /\ how \in {"refused", "ended"} =>
          \E s \in Sources : /\ 1 \in 1..Len(fromSource[s])
                             /\ fromSource[s][1].kind = "result"
                             /\ fromSource[s][1].how = how
                             /\ ids = {fromSource[s][1].id}
    /\ pending' = pending \ ids
    /\ preparing' = preparing \ ids
    /\ \A p \in Outer : awaiting'[p] = IF awaiting[p] \in ids THEN 0 ELSE awaiting[p]
    /\ Tell(o, how)
    /\ \/ Posts(ids, "cancel")
       \/ how \in {"rejected", "refused", "ended"} /\ UNCHANGED toSource
    /\ UNCHANGED <<call, gate, asked, forwarded>>

\* The plugin ends.
Leaves ==
    /\ gate' # "running"
    /\ pending' = {} /\ preparing' = {}
    /\ \A o \in Outer : awaiting'[o] = 0
    /\ \/ Posts(pending, "cancel")
       \/ gate' = "failed" /\ UNCHANGED toSource
    /\ UNCHANGED <<call, asked, told, forwarded>>

Moves ==
    \/ Quiet
    \/ \E o \in Outer : Refuses(o)
    \/ \E o \in Outer, i \in Inner : Mints(o, i)
    \/ \E i \in Inner : Runs(i)
    \/ \E i \in Inner : Asks(i)
    \/ \E o \in Outer, ids \in SUBSET Inner, how \in Settlements : Settles(o, ids, how)
    \/ Leaves

\* The gate takes no report without acting on it.
ReportsHeeded ==
    \A s \in Sources : \A j \in 1..Len(fromSource[s]) :
        \/ \E k \in 1..Len(fromSource'[s]) : fromSource'[s][k] = fromSource[s][j]
        \/ fromSource[s][j].kind = "prepared" /\ fromSource[s][j].id \notin preparing'
        \/ fromSource[s][j].kind = "stream"
        \/ fromSource[s][j].kind = "result" /\ fromSource[s][j].id \notin pending'

GateMove == Moves /\ CallsKept /\ ReportsTaken /\ ReportsHeeded /\ Running

LEMMA NoReportHeeded ==
    ASSUME UNCHANGED fromSource PROVE ReportsHeeded
  BY DEF ReportsHeeded

LEMMA OneReportHeeded ==
    ASSUME TypeOK, NEW s \in Sources, NEW kind, NextReport(s, kind),
           \/ kind = "prepared" /\ Head(fromSource[s]).id \notin preparing'
           \/ kind = "stream"
           \/ kind = "result" /\ Head(fromSource[s]).id \notin pending'
    PROVE  ReportsHeeded
  <1> DEFINE m == Head(fromSource[s])
  <1>1. fromSource[s] \in Seq(Reports) /\ fromSource[s] # <<>> /\ m.kind = kind
    BY DEF TypeOK, WireTypeOK, NextReport
  <1>2. /\ fromSource'[s] = Tail(fromSource[s])
        /\ \A r \in Sources : r # s => fromSource'[r] = fromSource[r]
    BY DEF NextReport, TypeOK, WireTypeOK
  <1>3. /\ m = fromSource[s][1] /\ Len(fromSource[s]) \in Nat
        /\ Len(Tail(fromSource[s])) = Len(fromSource[s]) - 1
        /\ \A k \in 1..Len(Tail(fromSource[s])) : Tail(fromSource[s])[k] = fromSource[s][k + 1]
    BY <1>1, TailFacts
  <1> HIDE DEF m
  <1>4. ASSUME NEW j \in 1..Len(fromSource[s]), j # 1
        PROVE  \E k \in 1..Len(fromSource'[s]) : fromSource'[s][k] = fromSource[s][j]
    <2>1. j - 1 \in 1..Len(Tail(fromSource[s])) /\ (j - 1) + 1 = j BY <1>3, <1>4
    <2>2. Tail(fromSource[s])[j - 1] = fromSource[s][j] BY <1>3, <2>1, Zenon
    <2> QED BY <1>2, <2>1, <2>2, Zenon
  <1>5. \/ m.kind = "prepared" /\ m.id \notin preparing'
        \/ m.kind = "stream"
        \/ m.kind = "result" /\ m.id \notin pending'
    BY <1>1 DEF m
  <1> SUFFICES ASSUME NEW r \in Sources, NEW j \in 1..Len(fromSource[r])
               PROVE  \/ \E k \in 1..Len(fromSource'[r]) : fromSource'[r][k] = fromSource[r][j]
                      \/ fromSource[r][j].kind = "prepared" /\ fromSource[r][j].id \notin preparing'
                      \/ fromSource[r][j].kind = "stream"
                      \/ fromSource[r][j].kind = "result" /\ fromSource[r][j].id \notin pending'
    BY DEF ReportsHeeded
  <1>6. CASE r # s BY <1>2, <1>6, Zenon
  <1>7. CASE r = s /\ j # 1 BY <1>4, <1>7, Zenon
  <1>8. CASE r = s /\ j = 1 BY <1>3, <1>5, <1>8, Zenon
  <1> QED BY <1>6, <1>7, <1>8

\* What the gate hears from anyone but a source leaves the reports alone.
LEMMA RequestedKeepsReports ==
    ASSUME Requested PROVE UNCHANGED fromSource
  <1>1. ASSUME NEW o, NEW t, NEW allowed, NEW policy, NEW fits,
               ToolInvoke(o, t, allowed, policy, fits)
        PROVE  UNCHANGED fromSource
    BY <1>1 DEF ToolInvoke
  <1>2. ASSUME NEW o, ToolCancel(o) PROVE UNCHANGED fromSource BY <1>2 DEF ToolCancel
  <1>3. ASSUME NEW o, NEW approve, NEW fits, PermissionResponse(o, approve, fits)
        PROVE  UNCHANGED fromSource
    BY <1>3 DEF PermissionResponse
  <1>4. ASSUME NEW m, SetMode(m) PROVE UNCHANGED fromSource BY <1>4 DEF SetMode, wire
  <1>5. ASSUME NEW s, NEW catalog, ToolsAdvertise(s, catalog) PROVE UNCHANGED fromSource
    BY <1>5 DEF ToolsAdvertise, wire
  <1> QED BY <1>1, <1>2, <1>3, <1>4, <1>5, Zenon DEF Requested
\* What the invariants say of the calls the gate holds.
LEMMA HeldFacts ==
    ASSUME TypeOK, DecisionInv, HoldInv
    PROVE  /\ pending \subseteq DOMAIN call /\ preparing \subseteq pending
           /\ forwarded \subseteq DOMAIN call
           /\ \A i \in DOMAIN call : i \in Inner /\ i # 0 /\ call[i] \in Calls
           /\ \A i \in DOMAIN call : call[i].outer \in Outer /\ call[i].source \in Sources
           /\ \A o \in Outer : awaiting[o] # 0 =>
                /\ awaiting[o] \in pending \ forwarded /\ call[awaiting[o]].outer = o
                /\ awaiting[o] \notin preparing /\ assessed[awaiting[o]] # "none"
           /\ \A i \in preparing : i \notin forwarded /\ \A o \in Outer : awaiting[o] # i
           /\ awaiting \in [Outer -> 0..MaxCalls]
  <1>1. /\ pending \subseteq DOMAIN call /\ forwarded \subseteq DOMAIN call
        /\ preparing \subseteq pending
    BY DEF DecisionInv, IdsMinted, HoldInv, HoldingsAgree
  <1>2. \A i \in DOMAIN call : i \in Inner /\ i # 0 /\ call[i] \in Calls
    BY Minted, MaxCallsAssumption DEF Inner
  <1>3. \A i \in DOMAIN call : call[i].outer \in Outer /\ call[i].source \in Sources
    BY <1>2 DEF Calls
  <1>4. \A o \in Outer : awaiting[o] # 0 =>
            /\ awaiting[o] \in pending \ forwarded /\ call[awaiting[o]].outer = o
            /\ awaiting[o] \notin preparing /\ assessed[awaiting[o]] # "none"
    BY DEF HoldInv, HoldingsAgree, DecisionInv, AskedRightly
  <1>5. \A i \in preparing : i \notin forwarded /\ \A o \in Outer : awaiting[o] # i
    BY <1>1, <1>2, <1>4 DEF DecisionInv, PreparingUndecided
  <1> QED BY <1>1, <1>2, <1>3, <1>4, <1>5 DEF TypeOK, GateTypeOK

\* Each handler of the gate is such a move.
LEMMA InvokeMoves ==
    ASSUME TypeOK, DecisionInv, HoldInv,
           NEW o \in Outer, NEW t \in Tools, NEW allowed \in BOOLEAN, NEW fits \in BOOLEAN,
           NEW policy \in Policies \cup {"invalid"}, ToolInvoke(o, t, allowed, policy, fits)
    PROVE  Moves /\ CallsKept
  <1> USE DEF inner_id_counter
  <1> DEFINE i == Len(call) + 1
             new(s) == [outer |-> o, source |-> s, name |-> t, policy |-> policy]
  <1>1. /\ asked[o] < MaxUses /\ asked' = [asked EXCEPT ![o] = @ + 1]
        /\ UNCHANGED <<awaiting, gate>>
    BY DEF ToolInvoke
  <1>2. CASE Tell(o, "denied") /\ UNCHANGED <<toSource, call, pending, preparing, forwarded>>
    <2>1. CallsKept BY <1>2 DEF CallsKept
    <2>2. Refuses(o) BY <1>1, <1>2 DEF Refuses
    <2> QED BY <2>1, <2>2 DEF Moves
  <1>3. ASSUME NEW s \in Sources, policy # "invalid",
               call' = Append(call, new(s)),
               \/ policy = "workflow" /\ Execute(i, new(s), fits) /\ UNCHANGED preparing
               \/ policy # "workflow" /\ Prepare(i, new(s), fits) /\ UNCHANGED forwarded
        PROVE  Moves /\ CallsKept
    <2> DEFINE c == new(s)
    <2>1. c \in Calls /\ c.source = s /\ c.outer = o /\ c.policy = policy BY <1>3 DEF Calls
    <2>2. call \in Seq(Calls) /\ call' = Append(call, c) BY <1>3 DEF TypeOK, GateTypeOK
    <2> HIDE DEF c
    <2>3. /\ DOMAIN call' = 1..(Len(call) + 1)
          /\ \A j \in 1..Len(call) : call'[j] = call[j]
          /\ call'[Len(call) + 1] = c
      BY <2>1, <2>2, AppendFacts
    <2>4. DOMAIN call = 1..Len(call) /\ Len(call) \in Nat /\ i \notin DOMAIN call BY Minted
    <2>5. call'[i] = c /\ DOMAIN call' = DOMAIN call \cup {i} BY <2>3, <2>4
    <2>6. CallsKept BY <2>3, <2>4, <2>5 DEF CallsKept
    <2>7. i \in Inner BY <2>4, MaxCallsAssumption DEF ToolInvoke, Inner
    <2>8. i \notin DOMAIN call /\ i \notin pending BY <2>4, HeldFacts
    <2>9. /\ call'[i] \in Calls /\ call'[i].outer = o /\ call'[i].source = s
          /\ call'[i].policy = policy
      BY <2>1, <2>5
    <2> HIDE DEF i
    <2>10. ASSUME Mints(o, i) PROVE Moves /\ CallsKept BY <2>6, <2>7, <2>10 DEF Moves
    <2>11. CASE policy = "workflow" /\ Execute(i, c, fits) /\ UNCHANGED preparing
      <3>1. CASE fits
        <4>1. /\ pending' = pending \cup {i} /\ forwarded' = forwarded \cup {i} /\ UNCHANGED told
              /\ toSource' = [toSource EXCEPT ![s] = Append(@, Request("invoke", i))]
          BY <2>1, <2>11, <3>1 DEF Execute
        <4>2. Posts({i}, "invoke") BY <2>7, <2>9, <4>1, PostsOne
        <4> QED BY <1>1, <2>5, <2>8, <2>9, <2>10, <2>11, <4>1, <4>2 DEF Mints
      <3>2. CASE ~fits
        <4>1. pending' = pending /\ UNCHANGED <<toSource, forwarded>> /\ Tell(o, "rejected")
          BY <2>1, <2>8, <2>11, <3>2 DEF Execute
        <4> QED BY <1>1, <2>5, <2>8, <2>9, <2>10, <2>11, <4>1 DEF Mints
      <3> QED BY <3>1, <3>2
    <2>12. CASE policy # "workflow" /\ Prepare(i, c, fits) /\ UNCHANGED forwarded
      <3>1. CASE fits
        <4>1. /\ pending' = pending \cup {i} /\ preparing' = preparing \cup {i} /\ UNCHANGED told
              /\ toSource' = [toSource EXCEPT ![s] = Append(@, Request("prepare", i))]
          BY <2>1, <2>12, <3>1 DEF Prepare
        <4>2. Posts({i}, "prepare") BY <2>7, <2>9, <4>1, PostsOne
        <4> QED BY <1>1, <2>5, <2>8, <2>9, <2>10, <2>12, <4>1, <4>2 DEF Mints
      <3>2. CASE ~fits
        <4>1. UNCHANGED <<pending, preparing, toSource>> /\ Tell(o, "rejected")
          BY <2>1, <2>12, <3>2 DEF Prepare
        <4> QED BY <1>1, <2>5, <2>8, <2>9, <2>10, <2>12, <4>1 DEF Mints
      <3> QED BY <3>1, <3>2
    <2> QED BY <1>3, <2>11, <2>12 DEF c, i
  <1>4. \/ Tell(o, "denied") /\ UNCHANGED <<toSource, call, pending, preparing, forwarded>>
        \/ \E s \in Sources :
              /\ policy # "invalid"
              /\ call' = Append(call, new(s))
              /\ \/ policy = "workflow" /\ Execute(i, new(s), fits) /\ UNCHANGED preparing
                 \/ policy # "workflow" /\ Prepare(i, new(s), fits) /\ UNCHANGED forwarded
    BY Zenon DEF ToolInvoke, Owners
  <1> QED BY <1>2, <1>3, <1>4, Zenon

LEMMA CancelMoves ==
    ASSUME TypeOK, DecisionInv, HoldInv, NEW o \in Outer, ToolCancel(o)
    PROVE  Moves /\ CallsKept
  <1> DEFINE ids == HeldFor(o)
             how == IF ids \cap forwarded = {} THEN "withdrawn" ELSE "canceled"
  <1>1. /\ awaiting[o] # 0 \/ ids # {}
        /\ awaiting' = [awaiting EXCEPT ![o] = 0]
        /\ pending' = pending \ ids /\ preparing' = preparing \ ids
        /\ PostCancels(ids, TRUE)
        /\ Tell(o, how)
        /\ UNCHANGED <<call, gate, asked, forwarded>>
    BY DEF ToolCancel, HeldFor
  <1>2. /\ awaiting[o] # 0 => awaiting[o] \in ids
        /\ \A p \in Outer : p # o => awaiting[p] \notin ids
        /\ ids \in SUBSET Inner /\ \A i \in ids : call[i].source \in Sources
    BY HeldFacts DEF HeldFor
  <1>3. awaiting'[o] = 0 /\ \A p \in Outer : p # o => awaiting'[p] = awaiting[p]
    BY <1>1, HeldFacts
  <1>4. how \in {"withdrawn", "canceled"} /\ how \in Settlements
        /\ (how = "withdrawn" => ids \cap forwarded = {})
    BY DEF Settlements
  <1>5. ids \subseteq HeldFor(o) /\ ids = HeldFor(o) OBVIOUS
  <1> HIDE DEF ids, how
  <1>6. ids # {} /\ \A p \in Outer : awaiting'[p] = IF awaiting[p] \in ids THEN 0 ELSE awaiting[p]
    BY <1>1, <1>2, <1>3
  <1>7. Posts(ids, "cancel") BY <1>1, <1>2, PostsCancels
  <1>8. how \notin {"denied", "refused", "ended"} BY <1>4
  <1>9. Settles(o, ids, how) BY <1>1, <1>4, <1>5, <1>6, <1>7, <1>8 DEF Settles
  <1> QED BY <1>1, <1>2, <1>4, <1>9 DEF Moves, CallsKept

LEMMA PermissionMoves ==
    ASSUME TypeOK, DecisionInv, HoldInv, NEW o \in Outer, NEW approve \in BOOLEAN,
           NEW fits \in BOOLEAN, PermissionResponse(o, approve, fits)
    PROVE  Moves /\ CallsKept
  <1> DEFINE i == awaiting[o]
  <1>1. /\ i # 0 /\ awaiting' = [awaiting EXCEPT ![o] = 0]
        /\ UNCHANGED <<call, preparing, gate, asked>>
    BY DEF PermissionResponse
  <1>2. /\ i \in pending \ forwarded /\ i \notin preparing /\ call[i].outer = o
        /\ i \in Inner /\ i \in DOMAIN call /\ assessed[i] # "none" /\ call[i].source \in Sources
    BY <1>1, HeldFacts
  <1>3. \A p \in Outer : awaiting'[p] = IF awaiting[p] = i THEN 0 ELSE awaiting[p]
    BY <1>1, HeldFacts
  <1>4. CallsKept BY <1>1 DEF CallsKept
  <1>5. Execute(i, call[i], fits) \/ (Deny(i) /\ UNCHANGED <<approved, forwarded>>)
    BY Zenon DEF PermissionResponse
  <1>6. {i} \subseteq HeldFor(o) BY <1>2 DEF HeldFor
  <1> HIDE DEF i
  <1>7. CASE Execute(i, call[i], fits) /\ fits
    <2>1. /\ pending' = pending \cup {i} /\ forwarded' = forwarded \cup {i} /\ UNCHANGED told
          /\ toSource' = [toSource EXCEPT ![call[i].source] = Append(@, Request("invoke", i))]
      BY <1>7 DEF Execute
    <2>2. Posts({i}, "invoke") BY <1>1, <1>2, <2>1, PostsOne
    <2>3. Runs(i) BY <1>1, <1>2, <1>3, <2>1, <2>2 DEF Runs
    <2> QED BY <1>2, <1>4, <2>3 DEF Moves
  <1>8. CASE Execute(i, call[i], fits) /\ ~fits
    <2>1. pending' = pending \ {i} /\ Tell(o, "rejected") /\ UNCHANGED <<toSource, forwarded>>
      BY <1>2, <1>8 DEF Execute
    <2>2. Settles(o, {i}, "rejected") BY <1>1, <1>2, <1>3, <1>6, <2>1 DEF Settles
    <2> QED BY <1>2, <1>4, <2>2 DEF Moves, Settlements
  <1>9. CASE Deny(i) /\ UNCHANGED <<approved, forwarded>>
    <2>1. /\ pending' = pending \ {i} /\ Tell(o, "denied")
          /\ toSource' = [toSource EXCEPT ![call[i].source] = Append(@, Request("cancel", i))]
      BY <1>2, <1>9 DEF Deny, Post
    <2>2. Posts({i}, "cancel") BY <1>1, <1>2, <2>1, PostsOne
    <2>3. Settles(o, {i}, "denied") BY <1>1, <1>2, <1>3, <1>6, <1>9, <2>1, <2>2 DEF Settles
    <2> QED BY <1>2, <1>4, <2>3 DEF Moves, Settlements
  <1> QED BY <1>5, <1>7, <1>8, <1>9

LEMMA ExitMoves ==
    ASSUME TypeOK, DecisionInv, HoldInv, NEW status \in {"stopped", "failed"}, Exit(status),
           UNCHANGED <<call, asked, told, forwarded>>
    PROVE  Moves /\ CallsKept
  <1>1. pending \in SUBSET Inner /\ \A i \in pending : call[i].source \in Sources BY HeldFacts
  <1>2. Posts(pending, "cancel") BY <1>1, PostsCancels DEF Exit
  <1>3. Leaves BY <1>2 DEF Leaves, Exit
  <1> QED BY <1>3 DEF Moves, CallsKept

LEMMA PreparedMoves ==
    ASSUME TypeOK, DecisionInv, HoldInv, NEW s \in Sources, ToolPrepared(s)
    PROVE  Moves /\ CallsKept /\ ReportsHeeded
  <1> DEFINE i == Head(fromSource[s]).id
  <1>1. NextReport(s, "prepared") /\ UNCHANGED <<call, asked>> BY DEF ToolPrepared
  <1>2. CallsKept BY <1>1 DEF CallsKept
  <1>3. assessed[i] # "none" BY <1>1, HeadGenuine DEF Answers
  <1>4. ASSUME i \notin preparing' PROVE ReportsHeeded BY <1>1, <1>4, OneReportHeeded
  <1>5. \/ /\ i \notin preparing
           /\ UNCHANGED <<toSource, pending, preparing, awaiting, gate, told, ruledIn, forwarded>>
        \/ /\ i \in preparing
           /\ \/ /\ preparing' = preparing \ {i}
                 /\ Execute(i, call[i], TRUE)
                 /\ UNCHANGED <<awaiting, gate>>
              \/ /\ preparing' = preparing \ {i} /\ Deny(i)
                 /\ UNCHANGED <<awaiting, gate, forwarded>>
              \/ /\ preparing' = preparing \ {i}
                 /\ awaiting' = [awaiting EXCEPT ![call[i].outer] = i]
                 /\ UNCHANGED <<toSource, pending, gate, told, forwarded>>
              \/ Exit("failed") /\ UNCHANGED <<told, forwarded>>
    BY Zenon DEF ToolPrepared
  <1> HIDE DEF i
  <1>6. CASE /\ i \notin preparing
             /\ UNCHANGED <<toSource, pending, preparing, awaiting, gate, told, ruledIn, forwarded>>
    <2>1. Quiet BY <1>1, <1>6 DEF Quiet
    <2> QED BY <1>2, <1>4, <1>6, <2>1 DEF Moves
  <1>7. ASSUME i \in preparing
        PROVE  /\ i \in pending \ forwarded /\ i \in DOMAIN call /\ i \in Inner
               /\ call[i].outer \in Outer /\ call[i].source \in Sources
               /\ \A o \in Outer : awaiting[o] # i
    BY <1>7, HeldFacts
  <1>8. CASE /\ i \in preparing /\ preparing' = preparing \ {i}
             /\ Execute(i, call[i], TRUE) /\ UNCHANGED <<awaiting, gate>>
    <2>1. /\ pending' = pending \cup {i} /\ forwarded' = forwarded \cup {i} /\ UNCHANGED told
          /\ toSource' = [toSource EXCEPT ![call[i].source] = Append(@, Request("invoke", i))]
      BY <1>8 DEF Execute
    <2>2. Posts({i}, "invoke") BY <1>1, <1>7, <1>8, <2>1, PostsOne
    <2>3. Runs(i) BY <1>1, <1>3, <1>7, <1>8, <2>1, <2>2 DEF Runs
    <2> QED BY <1>2, <1>4, <1>7, <1>8, <2>3 DEF Moves
  <1>9. CASE /\ i \in preparing /\ preparing' = preparing \ {i} /\ Deny(i)
             /\ UNCHANGED <<awaiting, gate, forwarded>>
    <2>1. /\ pending' = pending \ {i} /\ Tell(call[i].outer, "denied")
          /\ toSource' = [toSource EXCEPT ![call[i].source] = Append(@, Request("cancel", i))]
      BY <1>9 DEF Deny, Post
    <2>2. Posts({i}, "cancel") BY <1>1, <1>7, <1>9, <2>1, PostsOne
    <2>3. {i} \subseteq HeldFor(call[i].outer) BY <1>7, <1>9 DEF HeldFor
    <2>4. Settles(call[i].outer, {i}, "denied")
      BY <1>1, <1>7, <1>9, <2>1, <2>2, <2>3 DEF Settles
    <2> QED BY <1>2, <1>4, <1>7, <1>9, <2>4 DEF Moves, Settlements
  <1>10. CASE /\ i \in preparing /\ preparing' = preparing \ {i}
              /\ awaiting' = [awaiting EXCEPT ![call[i].outer] = i]
              /\ UNCHANGED <<toSource, pending, gate, told, forwarded>>
    <2>1. Asks(i) BY <1>1, <1>7, <1>10 DEF Asks
    <2> QED BY <1>2, <1>4, <1>7, <1>10, <2>1 DEF Moves
  <1>11. CASE i \in preparing /\ Exit("failed") /\ UNCHANGED <<told, forwarded>>
    <2>1. i \notin preparing' BY <1>11 DEF Exit
    <2> QED BY <1>1, <1>4, <1>11, <2>1, ExitMoves
  <1> QED BY <1>5, <1>6, <1>8, <1>9, <1>10, <1>11, Zenon

LEMMA StreamMoves ==
    ASSUME TypeOK, DecisionInv, HoldInv, NEW s \in Sources, NEW fits \in BOOLEAN,
           ToolStream(s, fits)
    PROVE  Moves /\ CallsKept /\ ReportsHeeded
  <1> DEFINE i == Head(fromSource[s]).id
  <1>1. NextReport(s, "stream") /\ UNCHANGED <<call, preparing, awaiting, gate, asked, forwarded>>
    BY DEF ToolStream
  <1>2. \/ UNCHANGED <<toSource, pending, told>>
        \/ /\ i \in pending /\ pending' = pending \ {i} /\ Post(i, "cancel")
           /\ Tell(call[i].outer, "aborted")
    BY Zenon DEF ToolStream
  <1>3. i \in forwarded
    <2>1. fromSource[s] \in Seq(Reports) /\ fromSource[s] # <<>>
      BY <1>1 DEF TypeOK, WireTypeOK, NextReport
    <2>2. Head(fromSource[s]) = fromSource[s][1] /\ 1 \in 1..Len(fromSource[s])
      BY <2>1, TailFacts
    <2>3. fromSource[s][1].kind = "stream" BY <1>1, <2>2 DEF NextReport
    <2> QED BY <2>2, <2>3 DEF HoldInv, StreamsForwarded
  <1>4. CallsKept /\ ReportsHeeded BY <1>1, OneReportHeeded DEF CallsKept
  <1> HIDE DEF i
  <1>5. /\ i \in Inner /\ i \notin preparing /\ \A o \in Outer : awaiting[o] # i
        /\ call[i].outer \in Outer /\ call[i].source \in Sources
    BY <1>3, HeldFacts
  <1>6. CASE UNCHANGED <<toSource, pending, told>>
    <2>1. Quiet BY <1>1, <1>6 DEF Quiet
    <2> QED BY <1>4, <2>1 DEF Moves
  <1>7. CASE /\ i \in pending /\ pending' = pending \ {i} /\ Post(i, "cancel")
             /\ Tell(call[i].outer, "aborted")
    <2>1. Posts({i}, "cancel") BY <1>1, <1>5, <1>7, PostsOne DEF Post
    <2>2. {i} \subseteq HeldFor(call[i].outer) BY <1>7 DEF HeldFor
    <2>3. Settles(call[i].outer, {i}, "aborted") BY <1>1, <1>5, <1>7, <2>1, <2>2 DEF Settles
    <2> QED BY <1>4, <1>5, <2>3 DEF Moves, Settlements
  <1> QED BY <1>2, <1>6, <1>7

LEMMA ResultMoves ==
    ASSUME TypeOK, DecisionInv, HoldInv, NEW s \in Sources, ToolResult(s)
    PROVE  Moves /\ CallsKept /\ ReportsHeeded
  <1> DEFINE m == Head(fromSource[s])
             i == m.id
             how == m.how
  <1>1. NextReport(s, "result") /\ UNCHANGED <<toSource, call, gate, asked, forwarded>>
    BY DEF ToolResult
  <1>2. \/ /\ i \notin pending
           /\ UNCHANGED <<pending, preparing, awaiting, told>>
        \/ /\ i \in pending /\ pending' = pending \ {i} /\ preparing' = preparing \ {i}
           /\ awaiting' = [o \in Outer |-> IF awaiting[o] = i THEN 0 ELSE awaiting[o]]
           /\ Tell(call[i].outer, how)
    BY Zenon DEF ToolResult
  <1>3. ASSUME i \notin pending' PROVE ReportsHeeded BY <1>1, <1>3, OneReportHeeded
  <1>4. /\ m \in Reports /\ m.kind = "result"
        /\ m = fromSource[s][1] /\ 1 \in 1..Len(fromSource[s])
    <2>1. fromSource[s] \in Seq(Reports) /\ fromSource[s] # <<>> /\ m.kind = "result"
      BY <1>1 DEF TypeOK, WireTypeOK, NextReport
    <2> QED BY <2>1, TailFacts
  <1> HIDE DEF m
  <1>5. how \in {"refused", "ended"} BY <1>4 DEF Reports
  <1>6. how \in Settlements /\ how \notin {"withdrawn", "canceled", "denied"} BY <1>5 DEF Settlements
  <1>7. CallsKept BY <1>1 DEF CallsKept
  <1>8. CASE i \notin pending /\ UNCHANGED <<pending, preparing, awaiting, told>>
    <2>1. Quiet BY <1>1, <1>8 DEF Quiet
    <2> QED BY <1>3, <1>7, <1>8, <2>1 DEF Moves
  <1>9. CASE /\ i \in pending /\ pending' = pending \ {i} /\ preparing' = preparing \ {i}
             /\ awaiting' = [o \in Outer |-> IF awaiting[o] = i THEN 0 ELSE awaiting[o]]
             /\ Tell(call[i].outer, how)
    <2>1. {i} \subseteq HeldFor(call[i].outer) BY <1>9 DEF HeldFor
    <2>2. /\ fromSource[s][1].kind = "result" /\ fromSource[s][1].how = how
          /\ {i} = {fromSource[s][1].id}
      BY <1>4
    <2> HIDE DEF i, how
    <2>3. Settles(call[i].outer, {i}, how)
      BY <1>1, <1>4, <1>5, <1>6, <1>9, <2>1, <2>2 DEF Settles
    <2>4. call[i].outer \in Outer /\ i \in Inner BY <1>9, HeldFacts
    <2> QED BY <1>3, <1>6, <1>7, <1>9, <2>3, <2>4 DEF Moves
  <1> QED BY <1>2, <1>8, <1>9

LEMMA GateMoves ==
    ASSUME TypeOK, DecisionInv, HoldInv,
           Requested \/ Stop \/ WriterClosed \/ \E s \in Sources : Reported(s)
    PROVE  GateMove
  <1>1. ASSUME Requested PROVE Moves /\ CallsKept /\ Running
    <2>1. ASSUME Quiet PROVE Moves /\ CallsKept BY <2>1 DEF Moves, Quiet, CallsKept
    <2>2. ASSUME NEW m, SetMode(m) PROVE Moves /\ CallsKept
      BY <2>1, <2>2 DEF SetMode, Quiet, wire, gateHistory
    <2>3. ASSUME NEW s, NEW catalog, ToolsAdvertise(s, catalog) PROVE Moves /\ CallsKept
      BY <2>1, <2>3 DEF ToolsAdvertise, Quiet, wire, gateHistory
    <2>4. Running
      <3>1. ASSUME NEW o, NEW t, NEW allowed, NEW policy, NEW fits,
                   ToolInvoke(o, t, allowed, policy, fits)
            PROVE  Running
        BY <3>1 DEF ToolInvoke
      <3>2. ASSUME NEW o, ToolCancel(o) PROVE Running BY <3>2 DEF ToolCancel
      <3>3. ASSUME NEW o, NEW approve, NEW fits, PermissionResponse(o, approve, fits)
            PROVE  Running
        BY <3>3 DEF PermissionResponse
      <3>4. ASSUME NEW m, SetMode(m) PROVE Running BY <3>4 DEF SetMode
      <3>5. ASSUME NEW s, NEW catalog, ToolsAdvertise(s, catalog) PROVE Running
        BY <3>5 DEF ToolsAdvertise
      <3> QED BY <1>1, <3>1, <3>2, <3>3, <3>4, <3>5, Zenon DEF Requested
    <2>5. Moves /\ CallsKept
      BY <1>1, <2>2, <2>3, InvokeMoves, CancelMoves, PermissionMoves, Zenon DEF Requested
    <2> QED BY <2>4, <2>5
  <1>2. ASSUME Stop PROVE Moves /\ CallsKept /\ Running /\ UNCHANGED fromSource
    BY <1>2, ExitMoves DEF Stop, gateHistory
  <1>3. ASSUME WriterClosed PROVE Moves /\ CallsKept /\ Running /\ UNCHANGED fromSource
    <2>1. Leaves BY <1>3 DEF WriterClosed, Leaves, wire, gateHistory
    <2> QED BY <1>3, <2>1 DEF WriterClosed, Moves, CallsKept, wire
  <1>4. ASSUME NEW s \in Sources, Reported(s)
        PROVE  Moves /\ CallsKept /\ ReportsHeeded /\ Running /\ ReportsTaken
    <2>1. PICK kind : NextReport(s, kind)
      BY <1>4, Zenon DEF Reported, ToolPrepared, ToolStream, ToolResult
    <2>2. Running /\ ReportsTaken BY <2>1, OneReportTaken DEF NextReport
    <2>3. Moves /\ CallsKept /\ ReportsHeeded
      BY <1>4, PreparedMoves, StreamMoves, ResultMoves, Zenon DEF Reported
    <2> QED BY <2>2, <2>3
  <1>5. ASSUME UNCHANGED fromSource PROVE ReportsTaken /\ ReportsHeeded
    BY <1>5, NoReportTaken, NoReportHeeded
  <1> QED BY <1>1, <1>2, <1>3, <1>4, <1>5, RequestedKeepsReports, Zenon DEF GateMove
-----------------------------------------------------------------------------
(* SettledAtMostOnce, CancelReleases and ForwardedOnceAndUnsettled: HoldInv  *)
(* is inductive where no tool streams before it executes.                    *)

\* The calls held for an id are finitely many.
LEMMA HeldFinite ==
    ASSUME TypeOK, NEW o PROVE IsFiniteSet(HeldFor(o)) /\ Cardinality(HeldFor(o)) \in Nat
  <1>1. IsFiniteSet(Inner) BY MaxCallsAssumption, FS_Interval DEF Inner
  <1>2. HeldFor(o) \subseteq Inner BY DEF HeldFor, TypeOK, GateTypeOK
  <1>3. IsFiniteSet(HeldFor(o)) BY <1>1, <1>2, FS_Subset
  <1> QED BY <1>3, FS_CardinalityType

\* A finite set that loses an element, or gains at most one.
LEMMA SmallerSet ==
    ASSUME NEW A, NEW B, IsFiniteSet(A), B \subseteq A
    PROVE  /\ Cardinality(A) \in Nat /\ Cardinality(B) \in Nat /\ Cardinality(B) <= Cardinality(A)
           /\ A # B => Cardinality(B) + 1 <= Cardinality(A)
  <1>1. /\ IsFiniteSet(B) /\ Cardinality(B) <= Cardinality(A)
        /\ Cardinality(B) = Cardinality(A) => B = A
    BY FS_Subset
  <1>2. Cardinality(A) \in Nat /\ Cardinality(B) \in Nat BY <1>1, FS_CardinalityType
  <1> QED BY <1>1, <1>2

LEMMA OneMore ==
    ASSUME NEW A, NEW B, NEW x, IsFiniteSet(A), B \subseteq A \cup {x}
    PROVE  Cardinality(A) \in Nat /\ Cardinality(B) \in Nat /\ Cardinality(B) <= Cardinality(A) + 1
  <1> DEFINE C == A \cup {x}
  <1>1. /\ IsFiniteSet(C)
        /\ Cardinality(C) = Cardinality(A) \/ Cardinality(C) = Cardinality(A) + 1
    BY FS_AddElement
  <1>2. Cardinality(A) \in Nat BY FS_CardinalityType
  <1> HIDE DEF C
  <1>3. Cardinality(B) \in Nat /\ Cardinality(B) <= Cardinality(C)
    <2>1. B \subseteq C BY DEF C
    <2> QED BY <1>1, <2>1, SmallerSet, Zenon
  <1> QED BY <1>1, <1>2, <1>3

\* What a step does to one caller's account.
Kept(o) ==
    told'[o] = told[o] /\ asked'[o] = asked[o] /\ HeldFor(o)' \subseteq HeldFor(o)

TurnedAway(o) ==
    /\ Len(told'[o]) = Len(told[o]) + 1 /\ asked'[o] = asked[o] + 1
    /\ HeldFor(o)' \subseteq HeldFor(o)

TakenOn(o) ==
    /\ told'[o] = told[o] /\ asked'[o] = asked[o] + 1
    /\ \E i : HeldFor(o)' \subseteq HeldFor(o) \cup {i}

SettledUp(o) ==
    /\ Len(told'[o]) = Len(told[o]) + 1 /\ asked'[o] = asked[o]
    /\ HeldFor(o)' \subseteq HeldFor(o) /\ HeldFor(o)' # HeldFor(o)

LEMMA AccountsKept ==
    ASSUME TypeOK, HeldOrSettled,
           \A o \in Outer : Kept(o) \/ TurnedAway(o) \/ TakenOn(o) \/ SettledUp(o)
    PROVE  HeldOrSettled'
  <1> SUFFICES ASSUME NEW o \in Outer
               PROVE  Len(told'[o]) + Cardinality(HeldFor(o)') <= asked'[o]
    BY DEF HeldOrSettled
  <1> DEFINE A == HeldFor(o)
             B == HeldFor(o)'
  <1>1. IsFiniteSet(A) /\ Cardinality(A) \in Nat BY HeldFinite
  <1>2. Len(told[o]) \in Nat /\ asked[o] \in Nat
    <2>1. told[o] \in Seq(Settlements) /\ asked[o] \in 0..MaxUses BY DEF TypeOK, GateTypeOK
    <2> QED BY <2>1, MaxUsesAssumption
  <1>3. Len(told[o]) + Cardinality(A) <= asked[o] BY DEF HeldOrSettled
  <1>4. CASE Kept(o)
    <2>1. Len(told'[o]) = Len(told[o]) /\ asked'[o] = asked[o] /\ B \subseteq A
      BY <1>4 DEF Kept
    <2> HIDE DEF A, B
    <2>2. Cardinality(B) \in Nat /\ Cardinality(B) <= Cardinality(A) BY <1>1, <2>1, SmallerSet
    <2>3. Len(told'[o]) + Cardinality(B) <= asked'[o] BY <1>1, <1>2, <1>3, <2>1, <2>2
    <2> QED BY <2>3 DEF B
  <1>5. CASE TurnedAway(o)
    <2>1. Len(told'[o]) = Len(told[o]) + 1 /\ asked'[o] = asked[o] + 1 /\ B \subseteq A
      BY <1>5 DEF TurnedAway
    <2> HIDE DEF A, B
    <2>2. Cardinality(B) \in Nat /\ Cardinality(B) <= Cardinality(A) BY <1>1, <2>1, SmallerSet
    <2>3. Len(told'[o]) + Cardinality(B) <= asked'[o] BY <1>1, <1>2, <1>3, <2>1, <2>2
    <2> QED BY <2>3 DEF B
  <1>6. CASE TakenOn(o)
    <2>1. Len(told'[o]) = Len(told[o]) /\ asked'[o] = asked[o] + 1 BY <1>6 DEF TakenOn
    <2>2. PICK i : B \subseteq A \cup {i} BY <1>6 DEF TakenOn
    <2> HIDE DEF A, B
    <2>3. Cardinality(B) \in Nat /\ Cardinality(B) <= Cardinality(A) + 1
      BY <1>1, <2>2, OneMore, Zenon
    <2>4. Len(told'[o]) + Cardinality(B) <= asked'[o] BY <1>1, <1>2, <1>3, <2>1, <2>3
    <2> QED BY <2>4 DEF B
  <1>7. CASE SettledUp(o)
    <2>1. Len(told'[o]) = Len(told[o]) + 1 /\ asked'[o] = asked[o] /\ B \subseteq A /\ A # B
      BY <1>7 DEF SettledUp
    <2> HIDE DEF A, B
    <2>2. Cardinality(B) \in Nat /\ Cardinality(B) + 1 <= Cardinality(A)
      BY <1>1, <2>1, SmallerSet
    <2>3. Len(told'[o]) + Cardinality(B) <= asked'[o] BY <1>1, <1>2, <1>3, <2>1, <2>2
    <2> QED BY <2>3 DEF B
  <1> QED BY <1>4, <1>5, <1>6, <1>7

\* A result is sent to one caller.
LEMMA Told ==
    ASSUME TypeOK, NEW o \in Outer, NEW how \in Settlements, Tell(o, how)
    PROVE  /\ Len(told'[o]) = Len(told[o]) + 1 /\ told'[o][Len(told'[o])] = how
           /\ \A p \in Outer : p # o => told'[p] = told[p]
           /\ Len(told[o]) \in Nat
           /\ \A k \in 1..Len(told[o]) : told'[o][k] = told[o][k]
  <1>1. told[o] \in Seq(Settlements) /\ told'[o] = Append(told[o], how)
        /\ \A p \in Outer : p # o => told'[p] = told[p]
    BY DEF Tell, TypeOK, GateTypeOK
  <1>2. Len(told[o]) \in Nat BY <1>1
  <1> QED BY <1>1, <1>2, AppendFacts
\* A move keeps the accounts.
LEMMA MovesKeepAccounts ==
    ASSUME TypeOK, DecisionInv, HoldInv, Moves, CallsKept
    PROVE  HeldOrSettled'
  <1>0. /\ pending \subseteq DOMAIN call /\ \A i \in DOMAIN call : call'[i] = call[i]
        /\ asked \in [Outer -> 0..MaxUses]
    BY DEF DecisionInv, IdsMinted, CallsKept, TypeOK, GateTypeOK
  <1>1. ASSUME pending' \subseteq pending PROVE \A o : HeldFor(o)' \subseteq HeldFor(o)
    BY <1>0, <1>1 DEF HeldFor
  <1>2. CASE Quiet
    <2>1. \A o \in Outer : Kept(o) BY <1>1, <1>2 DEF Quiet, Kept
    <2> QED BY <2>1, AccountsKept DEF HoldInv
  <1>3. ASSUME NEW o \in Outer, Refuses(o) PROVE HeldOrSettled'
    <2>1. Len(told'[o]) = Len(told[o]) + 1 /\ \A p \in Outer : p # o => told'[p] = told[p]
      BY <1>3, Told DEF Refuses, Settlements
    <2>2. asked'[o] = asked[o] + 1 /\ \A p \in Outer : p # o => asked'[p] = asked[p]
      BY <1>0, <1>3 DEF Refuses
    <2>3. \A p \in Outer : HeldFor(p)' \subseteq HeldFor(p) BY <1>1, <1>3 DEF Refuses
    <2>4. \A p \in Outer : Kept(p) \/ TurnedAway(p) BY <2>1, <2>2, <2>3 DEF Kept, TurnedAway
    <2> QED BY <2>4, AccountsKept DEF HoldInv
  <1>4. ASSUME NEW o \in Outer, NEW i \in Inner, Mints(o, i) PROVE HeldOrSettled'
    <2>2. asked'[o] = asked[o] + 1 /\ \A p \in Outer : p # o => asked'[p] = asked[p]
      BY <1>0, <1>4 DEF Mints
    <2>3. CASE Tell(o, "rejected") /\ UNCHANGED pending
      <3>1. Len(told'[o]) = Len(told[o]) + 1 /\ \A p \in Outer : p # o => told'[p] = told[p]
        BY <2>3, Told DEF Settlements
      <3>2. \A p \in Outer : HeldFor(p)' \subseteq HeldFor(p) BY <1>1, <2>3
      <3>3. \A p \in Outer : Kept(p) \/ TurnedAway(p) BY <2>2, <3>1, <3>2 DEF Kept, TurnedAway
      <3> QED BY <3>3, AccountsKept DEF HoldInv
    <2>4. CASE pending' = pending \cup {i} /\ UNCHANGED told
      <3>1. \A p \in Outer : HeldFor(p)' \subseteq HeldFor(p) \cup {i}
        BY <1>0, <2>4 DEF HeldFor
      <3>2. \A p \in Outer : p # o => HeldFor(p)' \subseteq HeldFor(p)
        BY <1>0, <1>4, <2>4 DEF HeldFor, Mints
      <3>3. \A p \in Outer : Kept(p) \/ TakenOn(p) BY <2>2, <2>4, <3>1, <3>2 DEF Kept, TakenOn
      <3> QED BY <3>3, AccountsKept DEF HoldInv
    <2> QED BY <1>4, <2>3, <2>4, Zenon DEF Mints
  <1>5. ASSUME NEW i \in Inner, Runs(i) \/ Asks(i) PROVE HeldOrSettled'
    <2>1. \A o \in Outer : Kept(o) BY <1>1, <1>5 DEF Runs, Asks, Kept
    <2> QED BY <2>1, AccountsKept DEF HoldInv
  <1>6. ASSUME NEW o \in Outer, NEW ids \in SUBSET Inner, NEW how \in Settlements,
               Settles(o, ids, how)
        PROVE  HeldOrSettled'
    <2>1. Len(told'[o]) = Len(told[o]) + 1 /\ \A p \in Outer : p # o => told'[p] = told[p]
      BY <1>6, Told DEF Settles
    <2>2. \A p \in Outer : HeldFor(p)' \subseteq HeldFor(p) BY <1>1, <1>6 DEF Settles
    <2>3. PICK i : i \in ids /\ i \in HeldFor(o) BY <1>6 DEF Settles
    <2>4. i \notin HeldFor(o)' BY <1>6, <2>3 DEF Settles, HeldFor
    <2>5. HeldFor(o)' # HeldFor(o) BY <2>3, <2>4
    <2>6. asked' = asked BY <1>6 DEF Settles
    <2>7. \A p \in Outer : Kept(p) \/ SettledUp(p)
      BY <2>1, <2>2, <2>5, <2>6 DEF Kept, SettledUp
    <2> QED BY <2>7, AccountsKept DEF HoldInv
  <1>7. CASE Leaves
    <2>1. \A o \in Outer : Kept(o) BY <1>1, <1>7 DEF Leaves, Kept
    <2> QED BY <2>1, AccountsKept DEF HoldInv
  <1> QED BY <1>2, <1>3, <1>4, <1>5, <1>6, <1>7, Zenon DEF Moves

\* A move keeps the three maps in agreement, and forgets nothing forwarded.
LEMMA MovesKeepHoldings ==
    ASSUME TypeOK, DecisionInv, HoldInv, Moves, CallsKept
    PROVE  HoldingsAgree' /\ forwarded \subseteq forwarded'
  <1>0. /\ pending \subseteq DOMAIN call /\ forwarded \subseteq DOMAIN call
        /\ \A i \in DOMAIN call : call'[i] = call[i]
        /\ \A i \in DOMAIN call : call[i].outer \in Outer
        /\ awaiting \in [Outer -> 0..MaxCalls]
    BY Minted DEF DecisionInv, IdsMinted, CallsKept, TypeOK, GateTypeOK, Calls
  <1>1. /\ preparing \subseteq pending
        /\ \A o \in Outer : awaiting[o] # 0 =>
             awaiting[o] \in pending \ forwarded /\ call[awaiting[o]].outer = o
    BY DEF HoldInv, HoldingsAgree
  <1>2. /\ \A i \in preparing : i \notin forwarded
        /\ \A o \in Outer : awaiting[o] # 0 => awaiting[o] \notin preparing
    BY DEF DecisionInv, PreparingUndecided, AskedRightly
  <1>3. CASE Quiet \/ (\E o \in Outer : Refuses(o)) \/ Leaves
    BY <1>0, <1>1, <1>3 DEF Quiet, Refuses, Leaves, HoldingsAgree
  <1>4. ASSUME NEW o \in Outer, NEW i \in Inner, Mints(o, i)
        PROVE  HoldingsAgree' /\ forwarded \subseteq forwarded'
    <2>1. i \notin DOMAIN call /\ awaiting' = awaiting BY <1>4 DEF Mints
    <2>2. \/ /\ pending' = pending \cup {i} /\ forwarded' = forwarded \cup {i}
             /\ preparing' = preparing
          \/ /\ pending' = pending \cup {i} /\ preparing' = preparing \cup {i}
             /\ forwarded' = forwarded
          \/ pending' = pending /\ preparing' = preparing /\ forwarded' = forwarded
      BY <1>4, Zenon DEF Mints
    <2> QED BY <1>0, <1>1, <2>1, <2>2 DEF HoldingsAgree
  <1>5. ASSUME NEW i \in Inner, Runs(i) PROVE HoldingsAgree' /\ forwarded \subseteq forwarded'
    BY <1>0, <1>1, <1>5 DEF Runs, HoldingsAgree
  <1>6. ASSUME NEW i \in Inner, Asks(i) PROVE HoldingsAgree' /\ forwarded \subseteq forwarded'
    <2>1. \A o \in Outer : awaiting'[o] = IF o = call[i].outer THEN i ELSE awaiting[o]
      BY <1>0, <1>6 DEF Asks
    <2> QED BY <1>0, <1>1, <1>2, <1>6, <2>1 DEF Asks, HoldingsAgree
  <1>7. ASSUME NEW o \in Outer, NEW ids \in SUBSET Inner, NEW how \in Settlements,
               Settles(o, ids, how)
        PROVE  HoldingsAgree' /\ forwarded \subseteq forwarded'
    BY <1>0, <1>1, <1>7 DEF Settles, HoldingsAgree
  <1> QED BY <1>3, <1>4, <1>5, <1>6, <1>7, Zenon DEF Moves

\* An invoke is requested only of a call that is forwarded in the same step.
InvokesForwarded ==
    \A s \in Sources : \A k \in 1..Len(toSource'[s]) :
        \/ k \in 1..Len(toSource[s])
        \/ toSource'[s][k].kind # "invoke"
        \/ toSource'[s][k].id \in forwarded' \ forwarded

LEMMA MovesForwardInvokes ==
    ASSUME TypeOK, DecisionInv, HoldInv, Moves PROVE InvokesForwarded
  <1>1. ASSUME UNCHANGED toSource PROVE InvokesForwarded BY <1>1 DEF InvokesForwarded
  <1>2. ASSUME NEW ids, NEW kind, Posts(ids, kind), kind = "invoke" => ids \subseteq forwarded' \ forwarded
        PROVE  InvokesForwarded
    BY <1>2 DEF Posts, InvokesForwarded
  <1>3. ASSUME NEW o \in Outer, NEW i \in Inner, Mints(o, i) PROVE InvokesForwarded
    <2>1. i \notin forwarded BY <1>3, HeldFacts DEF Mints
    <2>2. \/ Posts({i}, "invoke") /\ forwarded' = forwarded \cup {i}
          \/ Posts({i}, "prepare")
          \/ UNCHANGED toSource
      BY <1>3, Zenon DEF Mints
    <2> QED BY <1>1, <1>2, <2>1, <2>2
  <1>4. ASSUME NEW i \in Inner, Runs(i) PROVE InvokesForwarded BY <1>2, <1>4 DEF Runs
  <1>5. ASSUME NEW o \in Outer, NEW ids \in SUBSET Inner, NEW how \in Settlements,
               Settles(o, ids, how)
        PROVE  InvokesForwarded
    <2>1. Posts(ids, "cancel") \/ UNCHANGED toSource BY <1>5, Zenon DEF Settles
    <2> QED BY <1>1, <1>2, <2>1
  <1>6. CASE Leaves
    <2>1. Posts(pending, "cancel") \/ UNCHANGED toSource BY <1>6, Zenon DEF Leaves
    <2> QED BY <1>1, <1>2, <2>1
  <1>7. CASE Quiet \/ (\E o \in Outer : Refuses(o)) \/ (\E i \in Inner : Asks(i))
    <2>1. UNCHANGED toSource BY <1>7 DEF Quiet, Refuses, Asks
    <2> QED BY <1>1, <2>1
  <1> QED BY <1>3, <1>4, <1>5, <1>6, <1>7, Zenon DEF Moves

\* Where no tool streams before it executes, HoldInv is inductive.
StreamsLate == "stream early" \notin SourceMay

LEMMA HoldInit == Init => HoldInv
  <1> SUFFICES ASSUME Init PROVE HoldInv OBVIOUS
  <1> USE DEF Init, WireInit, GateInit, SourceInit
  <1>1. HoldingsAgree BY DEF HoldingsAgree
  <1>2. \A s \in Sources : Len(fromSource[s]) = 0 OBVIOUS
  <1>3. StreamsForwarded BY <1>2 DEF StreamsForwarded
  <1>4. \A o : HeldFor(o) = {} BY DEF HeldFor
  <1>5. HeldOrSettled
    <2>1. \A o \in Outer : Len(told[o]) = 0 /\ asked[o] = 0 OBVIOUS
    <2>2. \A o : Cardinality(HeldFor(o)) = 0 BY <1>4, FS_EmptySet, Zenon
    <2> QED BY <2>1, <2>2 DEF HeldOrSettled
  <1> QED BY <1>1, <1>3, <1>5 DEF HoldInv

LEMMA GateStepHold ==
    ASSUME TypeOK, DecisionInv, HoldInv, UNCHANGED sourceVars,
           Requested \/ Stop \/ WriterClosed \/ \E s \in Sources : Reported(s)
    PROVE  HoldInv'
  <1>1. Moves /\ CallsKept /\ ReportsTaken BY GateMoves DEF GateMove
  <1>2. HeldOrSettled' BY <1>1, MovesKeepAccounts
  <1>3. HoldingsAgree' /\ forwarded \subseteq forwarded' BY <1>1, MovesKeepHoldings
  <1>4. ReportsTaken BY <1>1
  <1>5. phase' = phase BY DEF sourceVars
  <1>6. ASSUME NEW s \in Sources, NEW k \in 1..Len(fromSource'[s]), fromSource'[s][k].kind = "stream"
        PROVE  fromSource'[s][k].id \in forwarded'
    <2>1. PICK j \in 1..Len(fromSource[s]) : fromSource'[s][k] = fromSource[s][j]
      BY <1>4 DEF ReportsTaken
    <2>2. fromSource[s][j].id \in forwarded
      BY <1>6, <2>1, Zenon DEF HoldInv, StreamsForwarded
    <2> QED BY <1>3, <2>1, <2>2
  <1>7. \A s \in Sources, i \in Inner : phase'[s][i] = "execute" => i \in forwarded'
    BY <1>3, <1>5 DEF HoldInv, StreamsForwarded
  <1>8. StreamsForwarded' BY <1>6, <1>7 DEF StreamsForwarded
  <1> QED BY <1>2, <1>3, <1>8 DEF HoldInv
\* One report more at a source.
LEMMA EmittedLast ==
    ASSUME TypeOK, NEW s \in Sources, NEW m \in Reports, Emit(s, m)
    PROVE  \A r \in Sources : \A k \in 1..Len(fromSource'[r]) :
              \/ \E j \in 1..Len(fromSource[r]) : fromSource'[r][k] = fromSource[r][j]
              \/ r = s /\ fromSource'[r][k] = m
  <1>1. fromSource[s] \in Seq(Reports) BY DEF TypeOK, WireTypeOK
  <1>2. /\ fromSource'[s] = Append(fromSource[s], m)
        /\ \A r \in Sources : r # s => fromSource'[r] = fromSource[r]
    BY DEF Emit, TypeOK, WireTypeOK
  <1>3. /\ Len(Append(fromSource[s], m)) = Len(fromSource[s]) + 1
        /\ \A k \in 1..Len(fromSource[s]) : Append(fromSource[s], m)[k] = fromSource[s][k]
        /\ Append(fromSource[s], m)[Len(fromSource[s]) + 1] = m
        /\ Len(fromSource[s]) \in Nat
    BY <1>1, AppendFacts
  <1>4. \A k \in 1..Len(fromSource'[s]) :
            k \in 1..Len(fromSource[s]) \/ k = Len(fromSource[s]) + 1
    BY <1>2, <1>3
  <1> SUFFICES ASSUME NEW r \in Sources, NEW k \in 1..Len(fromSource'[r])
               PROVE  \/ \E j \in 1..Len(fromSource[r]) : fromSource'[r][k] = fromSource[r][j]
                      \/ r = s /\ fromSource'[r][k] = m
    OBVIOUS
  <1>5. CASE r = s
    <2>1. CASE k \in 1..Len(fromSource[s]) BY <1>2, <1>3, <1>5, <2>1, Zenon
    <2>2. CASE k = Len(fromSource[s]) + 1 BY <1>2, <1>3, <1>5, <2>2
    <2> QED BY <1>4, <1>5, <2>1, <2>2
  <1>6. CASE r # s BY <1>2, <1>6, Zenon
  <1> QED BY <1>5, <1>6

\* A source's step of this form keeps StreamsForwarded.
LEMMA SourceKeepsStreams ==
    ASSUME TypeOK, HoldInv, UNCHANGED gateVars,
           \A r \in Sources, j \in Inner : phase'[r][j] = "execute" =>
                phase[r][j] = "execute" \/ j \in forwarded,
           \A r \in Sources : \A k \in 1..Len(fromSource'[r]) :
              \/ \E j \in 1..Len(fromSource[r]) : fromSource'[r][k] = fromSource[r][j]
              \/ fromSource'[r][k].kind = "stream" => fromSource'[r][k].id \in forwarded
    PROVE  HoldInv'
  <1>0. /\ call' = call /\ pending' = pending /\ preparing' = preparing /\ forwarded' = forwarded
        /\ awaiting' = awaiting /\ told' = told /\ asked' = asked
    BY DEF gateVars, gateState, gateHistory
  <1>1. HoldingsAgree' BY <1>0 DEF HoldInv, HoldingsAgree
  <1>2. HeldOrSettled' BY <1>0 DEF HoldInv, HeldOrSettled, HeldFor
  <1>3. ASSUME NEW s \in Sources, NEW k \in 1..Len(fromSource'[s]), fromSource'[s][k].kind = "stream"
        PROVE  fromSource'[s][k].id \in forwarded
    <2>1. CASE \E j \in 1..Len(fromSource[s]) : fromSource'[s][k] = fromSource[s][j]
      <3>1. PICK j \in 1..Len(fromSource[s]) : fromSource'[s][k] = fromSource[s][j] BY <2>1
      <3>2. fromSource[s][j].id \in forwarded
        BY <1>3, <3>1, Zenon DEF HoldInv, StreamsForwarded
      <3> QED BY <3>1, <3>2
    <2> QED BY <1>3, <2>1
  <1>4. \A s \in Sources, i \in Inner : phase'[s][i] = "execute" => i \in forwarded
    BY DEF HoldInv, StreamsForwarded
  <1>5. StreamsForwarded' BY <1>0, <1>3, <1>4 DEF StreamsForwarded
  <1> QED BY <1>1, <1>2, <1>5 DEF HoldInv

LEMMA SourceStepHold ==
    ASSUME TypeOK, DecisionInv, HoldInv, StreamsLate, UNCHANGED gateVars,
           NEW s \in Sources, SourceReceives(s) \/ SourceActs(s)
    PROVE  HoldInv'
  <1> DEFINE h == Head(toSource[s]).id
  <1>1. ASSUME NEW i \in Inner, NEW p \in Phases, Enter(s, i, p), p = "execute" => i \in forwarded,
               UNCHANGED fromSource
        PROVE  HoldInv'
    <2>1. \A r \in Sources, j \in Inner : phase'[r][j] = "execute" =>
                phase[r][j] = "execute" \/ j \in forwarded
      BY <1>1 DEF Enter, TypeOK, SourceTypeOK
    <2> QED BY <1>1, <2>1, SourceKeepsStreams
  <1>2. ASSUME NEW i \in Inner, NEW p \in Phases, Enter(s, i, p), p # "execute",
               NEW m \in Reports, Emit(s, m), m.kind # "stream"
        PROVE  HoldInv'
    <2>1. \A r \in Sources, j \in Inner : phase'[r][j] = "execute" =>
                phase[r][j] = "execute" \/ j \in forwarded
      BY <1>2 DEF Enter, TypeOK, SourceTypeOK
    <2>2. \A r \in Sources : \A k \in 1..Len(fromSource'[r]) :
              \/ \E j \in 1..Len(fromSource[r]) : fromSource'[r][k] = fromSource[r][j]
              \/ fromSource'[r][k].kind = "stream" => fromSource'[r][k].id \in forwarded
      BY <1>2, EmittedLast
    <2> QED BY <2>1, <2>2, SourceKeepsStreams
  <1>3. ASSUME NEW i \in Inner, NEW how \in {"refused", "ended"}, Settle(s, i, how) PROVE HoldInv'
    <2>1. Result(i, how) \in Reports /\ Result(i, how).kind = "result" BY DEF Result, Reports
    <2> QED BY <1>2, <1>3, <2>1 DEF Settle, Phases
  <1>4. ASSUME NEW i \in Inner, NEW a \in SourceAnswers, Answer(s, i, a) PROVE HoldInv'
    <2>1. a \in Answers BY DEF SourceAnswers, Answers
    <2>2. Prepared(i, a) \in Reports /\ Prepared(i, a).kind = "prepared"
      BY <2>1 DEF Prepared, Reports
    <2> QED BY <1>2, <1>4, <2>2 DEF Answer, Phases
  <1>5. ASSUME NEW kind, Addressed(s, kind), Take(s)
        PROVE  h \in Inner /\ (kind = "invoke" => h \in forwarded)
    <2>1. /\ Head(toSource[s]) = toSource[s][1] /\ 1 \in 1..Len(toSource[s])
          /\ Head(toSource[s]) \in Requests
      BY <1>5, HeadDropped DEF Addressed
    <2>2. h \in Inner BY <2>1 DEF Requests
    <2>3. Head(toSource[s]).kind = kind BY <1>5 DEF Addressed
    <2> QED BY <2>1, <2>2, <2>3 DEF DecisionInv, RequestsJustified
  <1>6. ASSUME ReceivePrepare(s) PROVE HoldInv'
    <2>1. h \in Inner BY <1>5, <1>6 DEF ReceivePrepare
    <2>2. \/ Settle(s, h, "refused")
          \/ \E a \in SourceAnswers : Answer(s, h, a)
          \/ Enter(s, h, "prepare") /\ UNCHANGED <<assessed, fromSource>>
      BY <1>6, Zenon DEF ReceivePrepare
    <2> HIDE DEF h
    <2> QED BY <1>1, <1>3, <1>4, <2>1, <2>2 DEF Phases
  <1>7. ASSUME ReceiveInvoke(s) PROVE HoldInv'
    <2>1. h \in Inner /\ h \in forwarded BY <1>5, <1>7 DEF ReceiveInvoke
    <2>2. \/ \E how \in {"refused", "ended"} : Settle(s, h, how)
          \/ Enter(s, h, "execute") /\ UNCHANGED fromSource
      BY <1>7, Zenon DEF ReceiveInvoke
    <2> HIDE DEF h
    <2> QED BY <1>1, <1>3, <2>1, <2>2 DEF Phases
  <1>8. ASSUME ReceiveCancel(s) PROVE HoldInv'
    <2>1. h \in Inner /\ Enter(s, h, "none") /\ UNCHANGED fromSource
      BY <1>5, <1>8 DEF ReceiveCancel
    <2> HIDE DEF h
    <2> QED BY <1>1, <2>1 DEF Phases
  <1>9. ASSUME NEW i \in Inner, DecideLater(s, i) \/ EndCall(s, i) PROVE HoldInv'
    BY <1>3, <1>4, <1>9 DEF DecideLater, EndCall
  <1>10. ASSUME NEW i \in Inner, EmitStream(s, i) PROVE HoldInv'
    <2>1. Emit(s, Stream(i)) /\ UNCHANGED phase /\ phase[s][i] = "execute"
      BY <1>10 DEF EmitStream, StreamsLate
    <2>2. i \in forwarded BY <2>1 DEF HoldInv, StreamsForwarded
    <2>3. Stream(i) \in Reports /\ Stream(i).id = i BY DEF Stream, Reports
    <2>4. \A r \in Sources : \A k \in 1..Len(fromSource'[r]) :
              \/ \E j \in 1..Len(fromSource[r]) : fromSource'[r][k] = fromSource[r][j]
              \/ fromSource'[r][k].kind = "stream" => fromSource'[r][k].id \in forwarded
      BY <2>1, <2>2, <2>3, EmittedLast
    <2> QED BY <2>1, <2>4, SourceKeepsStreams
  <1> HIDE DEF h
  <1> QED BY <1>6, <1>7, <1>8, <1>9, <1>10, Zenon DEF SourceReceives, SourceActs

LEMMA HoldStep ==
    ASSUME StreamsLate
    PROVE  TypeOK /\ DecisionInv /\ HoldInv /\ [Next]_vars => HoldInv'
  <1> SUFFICES ASSUME TypeOK, DecisionInv, HoldInv, [Next]_vars PROVE HoldInv' OBVIOUS
  <1>1. CASE /\ Requested \/ Stop \/ WriterClosed \/ \E s \in Sources : Reported(s)
             /\ UNCHANGED sourceVars
    BY <1>1, GateStepHold
  <1>2. ASSUME NEW s \in Sources, SourceReceives(s) \/ SourceActs(s), UNCHANGED gateVars
        PROVE  HoldInv'
    BY <1>2, SourceStepHold
  <1>3. CASE UNCHANGED vars
    <2>1. UNCHANGED gateVars /\ UNCHANGED <<fromSource, phase>>
      BY <1>3 DEF vars, wire, sourceVars
    <2> QED BY <2>1, SourceKeepsStreams
  <1> QED BY <1>1, <1>2, <1>3, Zenon DEF Next

\* Where no tool streams before it executes, a caller is sent no more
\* results than it made calls, in every order of decisions, approvals,
\* cancellations, rejected streams and results, however often an outer id is
\* used again.
THEOREM CallersSettledAtMostOnce ==
    ASSUME StreamsLate PROVE Spec => []SettledAtMostOnce
  <1>1. TypeOK /\ HoldInv => SettledAtMostOnce
    <2> SUFFICES ASSUME TypeOK, HoldInv, NEW o \in Outer PROVE Len(told[o]) <= asked[o]
      BY DEF SettledAtMostOnce
    <2>1. Cardinality(HeldFor(o)) \in Nat BY HeldFinite
    <2>2. told[o] \in Seq(Settlements) /\ asked[o] \in 0..MaxUses BY DEF TypeOK, GateTypeOK
    <2>3. Len(told[o]) \in Nat /\ asked[o] \in Nat BY <2>2, MaxUsesAssumption
    <2>4. Len(told[o]) + Cardinality(HeldFor(o)) <= asked[o] BY DEF HoldInv, HeldOrSettled
    <2> QED BY <2>1, <2>3, <2>4
  <1>2. TypeOK /\ DecisionInv /\ HoldInv /\ [Next]_vars => HoldInv' BY HoldStep
  <1> QED BY <1>1, <1>2, HoldInit, DecisionInit, DecisionStep, ToolCallsTypeCorrect, PTL DEF Spec

\* Where no tool streams before it executes, a cancellation of an outer id
\* leaves no correlation, no preparation and no question under it, however
\* many calls carry the id.
THEOREM CancellationReleases ==
    ASSUME StreamsLate PROVE Spec => CancelReleases
  <1> DEFINE P == \A o \in Outer :
        (Len(told'[o]) > Len(told[o]) /\ told'[o][Len(told'[o])] \in {"withdrawn", "canceled"})
            => /\ awaiting'[o] = 0
               /\ \A i \in pending' \cup preparing' : call[i].outer # o
  <1>1. ASSUME TypeOK, DecisionInv, HoldInv, [Next]_vars PROVE [P]_vars
    <2>a. \A o \in Outer : Len(told[o]) \in Nat
      <3>1. \A o \in Outer : told[o] \in Seq(Settlements) BY <1>1 DEF TypeOK, GateTypeOK
      <3> QED BY <3>1
    <2>1. ASSUME UNCHANGED told PROVE P
      <3>1. \A o \in Outer : ~(Len(told'[o]) > Len(told[o])) BY <2>1, <2>a
      <3> QED BY <3>1
    <2>2. ASSUME NEW o \in Outer, NEW how \in Settlements, Tell(o, how),
                 how \notin {"withdrawn", "canceled"}
          PROVE  P
      <3>1. /\ told'[o][Len(told'[o])] = how
            /\ \A p \in Outer : p # o => told'[p] = told[p]
        BY <1>1, <2>2, Told
      <3> SUFFICES ASSUME NEW p \in Outer, Len(told'[p]) > Len(told[p]),
                          told'[p][Len(told'[p])] \in {"withdrawn", "canceled"}
                   PROVE  FALSE
        OBVIOUS
      <3>2. CASE p = o BY <2>2, <3>1, <3>2
      <3>3. CASE p # o BY <2>a, <3>1, <3>3
      <3> QED BY <3>2, <3>3
    <2>3. ASSUME NEW o \in Outer, NEW ids \in SUBSET Inner, NEW how \in Settlements,
                 Settles(o, ids, how)
          PROVE  P
      <3>1. CASE how \notin {"withdrawn", "canceled"} BY <2>2, <2>3, <3>1 DEF Settles
      <3>2. CASE how \in {"withdrawn", "canceled"}
        <4>1. /\ pending' = pending \ HeldFor(o) /\ preparing' = preparing \ HeldFor(o)
              /\ \A p \in Outer : awaiting'[p] = IF awaiting[p] \in HeldFor(o) THEN 0 ELSE awaiting[p]
              /\ Tell(o, how)
          BY <2>3, <3>2 DEF Settles
        <4>2. \A i \in pending' \cup preparing' : call[i].outer # o
          BY <1>1, <4>1 DEF HoldInv, HoldingsAgree, HeldFor
        <4>3. awaiting'[o] = 0
          BY <1>1, <4>1 DEF HoldInv, HoldingsAgree, HeldFor
        <4>4. \A p \in Outer : p # o => told'[p] = told[p] BY <1>1, <4>1, Told
        <4>5. \A p \in Outer : p # o => ~(Len(told'[p]) > Len(told[p])) BY <2>a, <4>4
        <4> QED BY <4>2, <4>3, <4>5
      <3> QED BY <3>1, <3>2
    <2> HIDE DEF P
    <2>4. CASE Moves
      <3>1. CASE \E o \in Outer : Refuses(o) BY <2>2, <3>1 DEF Refuses, Settlements
      <3>2. ASSUME NEW o \in Outer, NEW i \in Inner, Mints(o, i) PROVE P
        <4>1. UNCHANGED told \/ Tell(o, "rejected") BY <3>2, Zenon DEF Mints
        <4> QED BY <2>1, <2>2, <4>1 DEF Settlements
      <3>3. CASE Quiet \/ (\E i \in Inner : Runs(i) \/ Asks(i)) \/ Leaves
        <4>1. UNCHANGED told BY <3>3 DEF Quiet, Runs, Asks, Leaves
        <4> QED BY <2>1, <4>1
      <3> QED BY <2>3, <2>4, <3>1, <3>2, <3>3, Zenon DEF Moves
    <2>5. CASE Requested \/ Stop \/ WriterClosed \/ \E s \in Sources : Reported(s)
      BY <1>1, <2>4, <2>5, GateMoves DEF GateMove
    <2>6. CASE UNCHANGED gateVars
      BY <2>1, <2>6 DEF gateVars, gateHistory
    <2>7. CASE UNCHANGED vars BY <2>7
    <2> QED BY <1>1, <2>5, <2>6, <2>7, Zenon DEF Next
  <1>2. TypeOK /\ DecisionInv /\ HoldInv /\ [Next]_vars => HoldInv' BY HoldStep
  <1>3. TypeOK /\ DecisionInv /\ HoldInv /\ [Next]_vars => [P]_vars BY <1>1
  <1>4. CancelReleases <=> [][P]_vars BY DEF CancelReleases
  <1> HIDE DEF P
  <1> QED BY <1>2, <1>3, <1>4, HoldInit, DecisionInit, DecisionStep, ToolCallsTypeCorrect, PTL DEF Spec

\* Where moreover an outer id is used once, a source is asked to invoke a
\* call at most once and never after its caller was sent a result.
THEOREM InvokedOnceAndUnsettled ==
    ASSUME StreamsLate, MaxUses = 1 PROVE Spec => ForwardedOnceAndUnsettled
  <1> DEFINE P == /\ forwarded \subseteq forwarded'
                  /\ \A i \in Inner :
                        (\E s \in Sources : toSource'[s] = Append(toSource[s], Request("invoke", i)))
                            => /\ i \notin forwarded
                               /\ told[call'[i].outer] = <<>>
  <1>1. ASSUME TypeOK, DecisionInv, HoldInv, [Next]_vars PROVE [P]_vars
    <2>0. /\ \A o \in Outer : told[o] \in Seq(Settlements) /\ asked[o] \in 0..1
          /\ pending \subseteq DOMAIN call /\ forwarded \subseteq DOMAIN call
          /\ \A s \in Sources : toSource[s] \in Seq(Requests)
      BY <1>1 DEF TypeOK, GateTypeOK, WireTypeOK, DecisionInv, IdsMinted
    <2>1. ASSUME NEW o \in Outer, asked[o] = 0 \/ HeldFor(o) # {} PROVE told[o] = <<>>
      <3>1. IsFiniteSet(HeldFor(o)) /\ Cardinality(HeldFor(o)) \in Nat BY <1>1, HeldFinite
      <3>2. HeldFor(o) # {} => Cardinality(HeldFor(o)) # 0 BY <3>1, FS_EmptySet
      <3>3. Len(told[o]) \in Nat /\ asked[o] \in 0..1 BY <2>0
      <3>4. Len(told[o]) + Cardinality(HeldFor(o)) <= asked[o]
        BY <1>1 DEF HoldInv, HeldOrSettled
      <3>5. Len(told[o]) = 0 BY <2>1, <3>1, <3>2, <3>3, <3>4
      <3> QED BY <2>0, <3>5
    <2>2. ASSUME NEW s \in Sources, NEW i \in Inner,
                 toSource'[s] = Append(toSource[s], Request("invoke", i))
          PROVE  /\ Len(toSource'[s]) = Len(toSource[s]) + 1
                 /\ Len(toSource[s]) \in Nat
                 /\ toSource'[s][Len(toSource[s]) + 1] = Request("invoke", i)
      <3>1. Request("invoke", i) \in Requests BY DEF Request, Requests
      <3>2. toSource[s] \in Seq(Requests) BY <2>0
      <3>3. Len(toSource[s]) \in Nat BY <3>2
      <3> QED BY <2>2, <3>1, <3>2, <3>3, AppendFacts
    <2>3. ASSUME InvokesForwarded, NEW s \in Sources, NEW i \in Inner,
                 toSource'[s] = Append(toSource[s], Request("invoke", i))
          PROVE  i \in forwarded' \ forwarded
      <3> DEFINE n == Len(toSource[s])
      <3>1. Len(toSource'[s]) = n + 1 /\ n \in Nat /\ toSource'[s][n + 1] = Request("invoke", i)
        BY <2>2, <2>3
      <3>2. n + 1 \in 1..Len(toSource'[s]) /\ n + 1 \notin 1..n BY <3>1
      <3>3. Request("invoke", i).kind = "invoke" /\ Request("invoke", i).id = i BY DEF Request
      <3> QED BY <2>3, <3>1, <3>2, <3>3, Zenon DEF InvokesForwarded
    <2>4. ASSUME Requested \/ Stop \/ WriterClosed \/ \E s \in Sources : Reported(s) PROVE P
      <3>1. Moves /\ CallsKept BY <1>1, <2>4, GateMoves DEF GateMove
      <3>a. InvokesForwarded BY <1>1, <3>1, MovesForwardInvokes
      <3>2. forwarded \subseteq forwarded' BY <1>1, <3>1, MovesKeepHoldings
      <3>3. ASSUME NEW i \in Inner, i \in forwarded' \ forwarded PROVE told[call'[i].outer] = <<>>
        <4>1. ASSUME NEW o \in Outer, NEW j \in Inner, Mints(o, j) PROVE told[call'[i].outer] = <<>>
          <5>1. asked[o] = 0 BY <2>0, <4>1 DEF Mints
          <5>2. forwarded' = forwarded \cup {j} \/ forwarded' = forwarded
            BY <4>1, Zenon DEF Mints
          <5>3. call'[i].outer = o BY <3>3, <4>1, <5>2 DEF Mints
          <5> QED BY <2>1, <5>1, <5>3
        <4>2. ASSUME NEW j \in Inner, Runs(j) PROVE told[call'[i].outer] = <<>>
          <5>1. i = j /\ i \in pending /\ call' = call BY <3>3, <4>2 DEF Runs
          <5>2. call[i].outer \in Outer BY <1>1, <2>0, <5>1, Minted DEF Calls
          <5>3. HeldFor(call[i].outer) # {} BY <5>1 DEF HeldFor
          <5> QED BY <2>1, <5>1, <5>2, <5>3
        <4>3. ASSUME UNCHANGED forwarded PROVE FALSE BY <3>3, <4>3
        <4>4. CASE Quiet \/ (\E o \in Outer : Refuses(o)) \/ (\E j \in Inner : Asks(j)) \/ Leaves
          BY <4>3, <4>4, Zenon DEF Quiet, Refuses, Asks, Leaves
        <4>5. CASE \E o \in Outer, ids \in SUBSET Inner, how \in Settlements : Settles(o, ids, how)
          BY <4>3, <4>5, Zenon DEF Settles
        <4> QED BY <3>1, <4>1, <4>2, <4>4, <4>5, Zenon DEF Moves
      <3> QED BY <2>3, <3>a, <3>2, <3>3
    <2>5. ASSUME NEW s \in Sources, SourceReceives(s) \/ SourceActs(s), UNCHANGED gateVars PROVE P
      <3>1. forwarded' = forwarded BY <2>5 DEF gateVars, gateHistory
      <3>2. RequestsDropped
        <4>1. CASE UNCHANGED toSource BY <1>1, <4>1, NoRequestDropped
        <4>2. CASE toSource[s] # <<>> /\ Take(s) BY <1>1, <4>2, HeadDropped
        <4>3. UNCHANGED toSource \/ (toSource[s] # <<>> /\ Take(s))
          BY <2>5 DEF SourceReceives, SourceActs, ReceivePrepare, ReceiveInvoke, ReceiveCancel,
                      DecideLater, EndCall, EmitStream, Addressed
        <4> QED BY <4>1, <4>2, <4>3
      <3>3. ASSUME NEW r \in Sources, NEW i \in Inner,
                   toSource'[r] = Append(toSource[r], Request("invoke", i))
            PROVE  FALSE
        <4>1. Len(toSource'[r]) = Len(toSource[r]) + 1 /\ Len(toSource[r]) \in Nat
          BY <2>2, <3>3
        <4>2. \E d \in {0, 1} : Len(toSource'[r]) = Len(toSource[r]) - d
          BY <3>2 DEF RequestsDropped
        <4> QED BY <4>1, <4>2
      <3> QED BY <3>1, <3>3
    <2> HIDE DEF P
    <2> QED BY <1>1, <2>4, <2>5, Zenon DEF Next
  <1>2. TypeOK /\ DecisionInv /\ HoldInv /\ [Next]_vars => HoldInv' BY HoldStep
  <1>3. TypeOK /\ DecisionInv /\ HoldInv /\ [Next]_vars => [P]_vars BY <1>1
  <1>4. ForwardedOnceAndUnsettled <=> [][P]_vars BY DEF ForwardedOnceAndUnsettled
  <1> HIDE DEF P
  <1> QED BY <1>2, <1>3, <1>4, HoldInit, DecisionInit, DecisionStep, ToolCallsTypeCorrect, PTL DEF Spec

-----------------------------------------------------------------------------
(* NotRunMeansNotRun and CallsHeld: LifeInv is inductive where moreover an   *)
(* outer id is used once.                                                    *)

\* What is on the wire after the gate has posted requests.
LEMMA PostsAsking ==
    ASSUME TypeOK, NEW ids, NEW kind, Posts(ids, kind),
           NEW s \in Sources, NEW i, NEW k
    PROVE  Asking(s, i, k)' <=> Asking(s, i, k) \/ (k = kind /\ i \in ids /\ call'[i].source = s)
  <1>1. /\ Len(toSource'[s]) >= Len(toSource[s])
        /\ \A n \in 1..Len(toSource'[s]) :
              \/ n \in 1..Len(toSource[s]) /\ toSource'[s][n] = toSource[s][n]
              \/ /\ n > Len(toSource[s])
                 /\ toSource'[s][n].kind = kind
                 /\ toSource'[s][n].id \in ids
                 /\ call'[toSource'[s][n].id].source = s
        /\ \A j \in ids : call'[j].source = s =>
              \E n \in 1..Len(toSource'[s]) : toSource'[s][n] = Request(kind, j)
    BY DEF Posts
  <1>2. Len(toSource[s]) \in Nat
    <2>1. toSource[s] \in Seq(Requests) BY DEF TypeOK, WireTypeOK
    <2> QED BY <2>1
  <1>3. Request(k, i).kind = k /\ Request(k, i).id = i BY DEF Request
  <1>4. ASSUME Asking(s, i, k)'
        PROVE  Asking(s, i, k) \/ (k = kind /\ i \in ids /\ call'[i].source = s)
    <2>1. PICK n \in 1..Len(toSource'[s]) : toSource'[s][n] = Request(k, i) BY <1>4 DEF Asking
    <2> QED BY <1>1, <1>3, <2>1, Zenon DEF Asking
  <1>5. ASSUME Asking(s, i, k) PROVE Asking(s, i, k)'
    <2>1. PICK n \in 1..Len(toSource[s]) : toSource[s][n] = Request(k, i) BY <1>5 DEF Asking
    <2>2. n \in 1..Len(toSource'[s]) /\ ~(n > Len(toSource[s])) BY <1>1, <1>2
    <2> QED BY <1>1, <2>1, <2>2, Zenon DEF Asking
  <1>6. ASSUME k = kind, i \in ids, call'[i].source = s PROVE Asking(s, i, k)'
    BY <1>1, <1>6, Zenon DEF Asking
  <1> QED BY <1>4, <1>5, <1>6

\* A result a caller was sent stays sent, and one more is added.
LEMMA ToldRange ==
    ASSUME TypeOK, NEW o \in Outer, NEW how \in Settlements, Tell(o, how)
    PROVE  /\ Range(told'[o]) = Range(told[o]) \cup {how}
           /\ \A p \in Outer : p # o => told'[p] = told[p]
  <1>1. told[o] \in Seq(Settlements) /\ told'[o] = Append(told[o], how)
        /\ \A p \in Outer : p # o => told'[p] = told[p]
    BY DEF Tell, TypeOK, GateTypeOK
  <1> DEFINE q == told[o]
  <1> HIDE DEF q
  <1>2. /\ Len(Append(q, how)) = Len(q) + 1 /\ Len(q) \in Nat
        /\ \A k \in 1..Len(q) : Append(q, how)[k] = q[k]
        /\ Append(q, how)[Len(q) + 1] = how
        /\ Append(q, how) \in Seq(Settlements)
    <2>1. q \in Seq(Settlements) BY <1>1 DEF q
    <2>2. Len(q) \in Nat BY <2>1
    <2> QED BY <2>1, <2>2, AppendFacts
  <1>3. DOMAIN q = 1..Len(q) /\ DOMAIN Append(q, how) = 1..(Len(q) + 1)
    <2>1. q \in Seq(Settlements) BY <1>1 DEF q
    <2> QED BY <1>2, <2>1
  <1>4. /\ \A k \in 1..(Len(q) + 1) : k \in 1..Len(q) \/ k = Len(q) + 1
        /\ \A k \in 1..Len(q) : k \in 1..(Len(q) + 1)
        /\ Len(q) + 1 \in 1..(Len(q) + 1)
    BY <1>2
  <1>5. Range(Append(q, how)) = Range(q) \cup {how}
    <2>1. ASSUME NEW x \in Range(Append(q, how)) PROVE x \in Range(q) \cup {how}
      BY <1>2, <1>3, <1>4, Zenon DEF Range
    <2>2. ASSUME NEW x \in Range(q) PROVE x \in Range(Append(q, how))
      BY <1>2, <1>3, <1>4, Zenon DEF Range
    <2>3. how \in Range(Append(q, how)) BY <1>2, <1>3, <1>4, Zenon DEF Range
    <2> QED BY <2>1, <2>2, <2>3
  <1> QED BY <1>1, <1>5 DEF q

LEMMA NothingTold == Range(<<>>) = {}
  BY DEF Range

\* Where an id is used once, nothing has been sent for a call that is new or
\* held.
LEMMA NothingToldYet ==
    ASSUME TypeOK, HoldInv, MaxUses = 1, NEW o \in Outer, asked[o] = 0 \/ HeldFor(o) # {}
    PROVE  told[o] = <<>>
  <1>0. told[o] \in Seq(Settlements) /\ asked[o] \in 0..1 BY DEF TypeOK, GateTypeOK
  <1>1. IsFiniteSet(HeldFor(o)) /\ Cardinality(HeldFor(o)) \in Nat BY HeldFinite
  <1>2. HeldFor(o) # {} => Cardinality(HeldFor(o)) # 0 BY <1>1, FS_EmptySet
  <1>3. Len(told[o]) \in Nat /\ asked[o] \in 0..1 BY <1>0
  <1>4. Len(told[o]) + Cardinality(HeldFor(o)) <= asked[o] BY DEF HoldInv, HeldOrSettled
  <1>5. Len(told[o]) = 0 BY <1>1, <1>2, <1>3, <1>4
  <1> QED BY <1>0, <1>5
\* The requests of one step of the gate: an invoke or a prepare of a call
\* that has just been minted, an invoke of a held call that was answered and
\* whose caller was sent nothing, or cancels of calls it forgets.
GatePosted(ids, kind) ==
    /\ Posts(ids, kind)
    /\ ids \subseteq DOMAIN call'
    /\ kind = "invoke" => \A i \in ids :
          /\ i \in pending' /\ i \in forwarded' /\ i \notin forwarded
          /\ told'[call'[i].outer] = <<>>
          /\ \/ i \notin DOMAIN call /\ call'[i].policy = "workflow"
             \/ i \in pending /\ assessed[i] # "none"
    /\ kind = "prepare" => \A i \in ids :
          i \in pending' /\ i \notin DOMAIN call /\ call'[i].policy # "workflow"
    /\ kind = "cancel" => \A i \in ids : i \notin pending'

GatePosts == \E ids, kind : kind \in {"prepare", "invoke", "cancel"} /\ GatePosted(ids, kind)

LEMMA MovesPost ==
    ASSUME TypeOK, DecisionInv, HoldInv, MaxUses = 1, Moves, CallsKept
    PROVE  GatePosts
  <1>0. /\ pending \subseteq DOMAIN call /\ DOMAIN call \subseteq DOMAIN call'
        /\ forwarded \subseteq DOMAIN call
        /\ \A i \in DOMAIN call : call'[i] = call[i] /\ call[i].outer \in Outer
    BY HeldFacts DEF CallsKept
  <1>1. ASSUME UNCHANGED toSource PROVE GatePosts
    <2>1. Posts({}, "cancel") BY <1>1, PostsNothing
    <2> QED BY <2>1 DEF GatePosts, GatePosted
  <1>2. ASSUME NEW o \in Outer, NEW i \in Inner, Mints(o, i) PROVE GatePosts
    <2>1. i \in DOMAIN call' /\ i \notin DOMAIN call /\ call'[i].outer = o /\ i \notin forwarded
      BY <1>0, <1>2 DEF Mints
    <2>2. told[o] = <<>>
      <3>1. asked[o] = 0 BY <1>2 DEF Mints, TypeOK, GateTypeOK
      <3> QED BY <3>1, NothingToldYet
    <2>3. CASE /\ call'[i].policy = "workflow" /\ Posts({i}, "invoke")
               /\ pending' = pending \cup {i} /\ forwarded' = forwarded \cup {i}
               /\ UNCHANGED <<preparing, told>>
      <3>1. GatePosted({i}, "invoke") BY <2>1, <2>2, <2>3 DEF GatePosted
      <3> QED BY <3>1 DEF GatePosts
    <2>4. CASE /\ call'[i].policy # "workflow" /\ Posts({i}, "prepare")
               /\ pending' = pending \cup {i} /\ preparing' = preparing \cup {i}
               /\ UNCHANGED <<forwarded, told>>
      <3>1. GatePosted({i}, "prepare") BY <2>1, <2>4 DEF GatePosted
      <3> QED BY <3>1 DEF GatePosts
    <2>5. UNCHANGED toSource
          \/ (/\ call'[i].policy = "workflow" /\ Posts({i}, "invoke")
              /\ pending' = pending \cup {i} /\ forwarded' = forwarded \cup {i}
              /\ UNCHANGED <<preparing, told>>)
          \/ (/\ call'[i].policy # "workflow" /\ Posts({i}, "prepare")
              /\ pending' = pending \cup {i} /\ preparing' = preparing \cup {i}
              /\ UNCHANGED <<forwarded, told>>)
      BY <1>2, Zenon DEF Mints
    <2> QED BY <1>1, <2>3, <2>4, <2>5
  <1>3. ASSUME NEW i \in Inner, Runs(i) PROVE GatePosts
    <2>1. i \in pending /\ i \in DOMAIN call BY <1>0, <1>3 DEF Runs
    <2>2. told[call[i].outer] = <<>>
      <3>1. i \in HeldFor(call[i].outer) /\ call[i].outer \in Outer BY <1>0, <2>1 DEF HeldFor
      <3>2. HeldFor(call[i].outer) # {} BY <3>1
      <3> QED BY <3>1, <3>2, NothingToldYet
    <2>3. GatePosted({i}, "invoke") BY <1>0, <1>3, <2>1, <2>2 DEF GatePosted, Runs
    <2> QED BY <2>3 DEF GatePosts
  <1>4. ASSUME NEW o \in Outer, NEW ids \in SUBSET Inner, NEW how \in Settlements,
               Settles(o, ids, how)
        PROVE  GatePosts
    <2>1. Posts(ids, "cancel") \/ UNCHANGED toSource BY <1>4, Zenon DEF Settles
    <2>2. ids \subseteq DOMAIN call' /\ \A i \in ids : i \notin pending'
      BY <1>0, <1>4 DEF Settles, HeldFor
    <2>3. ASSUME Posts(ids, "cancel") PROVE GatePosted(ids, "cancel")
      BY <2>2, <2>3 DEF GatePosted
    <2> QED BY <1>1, <2>1, <2>3 DEF GatePosts
  <1>5. CASE Leaves
    <2>1. Posts(pending, "cancel") \/ UNCHANGED toSource BY <1>5, Zenon DEF Leaves
    <2>2. ASSUME Posts(pending, "cancel") PROVE GatePosted(pending, "cancel")
      BY <1>0, <1>5, <2>2 DEF GatePosted, Leaves
    <2> QED BY <1>1, <2>1, <2>2 DEF GatePosts
  <1>6. CASE Quiet \/ (\E o \in Outer : Refuses(o)) \/ (\E i \in Inner : Asks(i))
    <2>1. UNCHANGED toSource BY <1>6 DEF Quiet, Refuses, Asks
    <2> QED BY <1>1, <2>1
  <1> QED BY <1>2, <1>3, <1>4, <1>5, <1>6, Zenon DEF Moves

\* The ids a move holds in addition are new, and those it forwards are a
\* workflow node's or were answered.
LEMMA MovesHold ==
    ASSUME TypeOK, DecisionInv, HoldInv, Moves, CallsKept
    PROVE  /\ \A i \in pending' : i \in pending \/ i \notin DOMAIN call
           /\ \A i \in forwarded' : i \in forwarded \/ assessed[i] # "none"
                                      \/ call'[i].policy = "workflow"
           /\ forwarded \subseteq forwarded'
  <1>1. ASSUME NEW o \in Outer, NEW i \in Inner, Mints(o, i)
        PROVE  /\ \A j \in pending' : j \in pending \/ j \notin DOMAIN call
               /\ \A j \in forwarded' : j \in forwarded \/ call'[j].policy = "workflow"
    <2>1. i \notin DOMAIN call BY <1>1 DEF Mints
    <2>2. \/ /\ pending' = pending \cup {i} /\ forwarded' = forwarded \cup {i}
             /\ call'[i].policy = "workflow"
          \/ pending' = pending \cup {i} /\ forwarded' = forwarded
          \/ pending' = pending /\ forwarded' = forwarded
      BY <1>1, Zenon DEF Mints
    <2> QED BY <2>1, <2>2
  <1>2. ASSUME NEW i \in Inner, Runs(i)
        PROVE  pending' = pending /\ \A j \in forwarded' : j \in forwarded \/ assessed[j] # "none"
    BY <1>2 DEF Runs
  <1>3. ASSUME NEW o \in Outer, NEW ids \in SUBSET Inner, NEW how \in Settlements,
               Settles(o, ids, how)
        PROVE  pending' \subseteq pending /\ forwarded' = forwarded
    BY <1>3 DEF Settles
  <1>4. CASE Quiet \/ (\E o \in Outer : Refuses(o)) \/ (\E i \in Inner : Asks(i)) \/ Leaves
    <2>1. pending' \subseteq pending /\ forwarded' = forwarded
      BY <1>4 DEF Quiet, Refuses, Asks, Leaves
    <2> QED BY <2>1
  <1>5. forwarded \subseteq forwarded' BY MovesKeepHoldings
  <1>6. CASE \E o \in Outer, i \in Inner : Mints(o, i) BY <1>1, <1>5, <1>6
  <1>7. CASE \E i \in Inner : Runs(i) BY <1>2, <1>5, <1>7
  <1>8. CASE \E o \in Outer, ids \in SUBSET Inner, how \in Settlements : Settles(o, ids, how)
    BY <1>3, <1>5, <1>8
  <1> QED BY <1>4, <1>6, <1>7, <1>8, Zenon DEF Moves
\* What the invariants say of a request on the wire.
LEMMA RequestFacts ==
    ASSUME TypeOK, DecisionInv, NEW s \in Sources, NEW k \in 1..Len(toSource[s])
    PROVE  /\ toSource[s][k] \in Requests
           /\ toSource[s][k] = Request(toSource[s][k].kind, toSource[s][k].id)
           /\ Asking(s, toSource[s][k].id, toSource[s][k].kind)
           /\ toSource[s][k].id \in DOMAIN call
           /\ toSource[s][k].kind = "invoke" => toSource[s][k].id \in forwarded
           /\ toSource[s][k].kind = "prepare" => assessed[toSource[s][k].id] = "none"
  <1>1. toSource[s] \in Seq(Requests) BY DEF TypeOK, WireTypeOK
  <1>2. toSource[s][k] \in Requests BY <1>1
  <1>3. toSource[s][k] = Request(toSource[s][k].kind, toSource[s][k].id) BY <1>2, RequestEq
  <1>4. Asking(s, toSource[s][k].id, toSource[s][k].kind) BY <1>3, Zenon DEF Asking
  <1> QED BY <1>2, <1>3, <1>4, Zenon DEF DecisionInv, RequestsJustified

LEMMA AskingFacts ==
    ASSUME TypeOK, DecisionInv, NEW s \in Sources, NEW i, NEW kind, Asking(s, i, kind)
    PROVE  /\ i \in DOMAIN call /\ i \in Inner
           /\ kind = "invoke" => i \in forwarded
           /\ kind = "prepare" => assessed[i] = "none"
           /\ AtHome => call[i].source = s
  <1>1. PICK k \in 1..Len(toSource[s]) : toSource[s][k] = Request(kind, i) BY DEF Asking
  <1>2. Request(kind, i).kind = kind /\ Request(kind, i).id = i BY DEF Request
  <1>3. i \in DOMAIN call /\ (kind = "invoke" => i \in forwarded) /\ (kind = "prepare" => assessed[i] = "none")
    BY <1>1, <1>2, RequestFacts
  <1>4. AtHome => call[toSource[s][k].id].source = s BY DEF AtHome
  <1>5. toSource[s][k].id = i BY <1>1, <1>2
  <1> QED BY <1>3, <1>4, <1>5, Minted

\* The gate's requests keep what is true of the wire.
LEMMA GateKeepsWire ==
    ASSUME TypeOK, DecisionInv, HoldInv, LifeInv, MaxUses = 1, Moves, CallsKept,
           ReportsTaken, UNCHANGED sourceVars
    PROVE  /\ AtHome' /\ AnsweredFirst' /\ InvokedOnce' /\ CancelIsLast'
           /\ CutIsAnswered' /\ ResultsFinal'
  <1>1. PICK ids, kind : kind \in {"prepare", "invoke", "cancel"} /\ GatePosted(ids, kind)
    BY MovesPost DEF GatePosts
  <1>2. /\ Posts(ids, kind) /\ ids \subseteq DOMAIN call'
        /\ kind = "invoke" => \A i \in ids :
              /\ i \in pending' /\ i \in forwarded' /\ i \notin forwarded
              /\ told'[call'[i].outer] = <<>>
              /\ \/ i \notin DOMAIN call /\ call'[i].policy = "workflow"
                 \/ i \in pending /\ assessed[i] # "none"
        /\ kind = "prepare" => \A i \in ids :
              i \in pending' /\ i \notin DOMAIN call /\ call'[i].policy # "workflow"
        /\ kind = "cancel" => \A i \in ids : i \notin pending'
    BY <1>1 DEF GatePosted
  <1>3. phase' = phase /\ assessed' = assessed /\ ran' = ran /\ cut' = cut BY DEF sourceVars
  <1>4. /\ DOMAIN call \subseteq DOMAIN call' /\ \A i \in DOMAIN call : call'[i] = call[i]
        /\ pending \subseteq DOMAIN call /\ forwarded \subseteq DOMAIN call
    BY HeldFacts DEF CallsKept
  <1>5. /\ \A i \in pending' : i \in pending \/ i \notin DOMAIN call
        /\ \A i \in forwarded' : i \in forwarded \/ assessed[i] # "none" \/ call'[i].policy = "workflow"
        /\ forwarded \subseteq forwarded'
    BY MovesHold
  <1>6. AtHome /\ AnsweredFirst /\ InvokedOnce /\ CancelIsLast /\ ResultsFinal BY DEF LifeInv
  <1>7. ASSUME NEW s \in Sources, NEW i, NEW k, Asking(s, i, k)'
        PROVE  \/ Asking(s, i, k) /\ i \in DOMAIN call
               \/ k = kind /\ i \in ids
    BY <1>2, <1>7, PostsAsking, AskingFacts
  <1>8. ASSUME NEW s \in Sources, NEW k \in 1..Len(toSource'[s])
        PROVE  \/ /\ k \in 1..Len(toSource[s]) /\ toSource'[s][k] = toSource[s][k]
                  /\ toSource[s][k].id \in DOMAIN call
               \/ /\ k \notin 1..Len(toSource[s]) /\ k > Len(toSource[s])
                  /\ toSource'[s][k].kind = kind /\ toSource'[s][k].id \in ids
                  /\ call'[toSource'[s][k].id].source = s
    <2>1. Len(toSource[s]) \in Nat
      <3>1. toSource[s] \in Seq(Requests) BY DEF TypeOK, WireTypeOK
      <3> QED BY <3>1
    <2>2. CASE k \in 1..Len(toSource[s]) /\ toSource'[s][k] = toSource[s][k]
      BY <2>2, RequestFacts
    <2>3. CASE /\ k > Len(toSource[s])
               /\ toSource'[s][k].kind = kind /\ toSource'[s][k].id \in ids
               /\ call'[toSource'[s][k].id].source = s
      <3>1. k \notin 1..Len(toSource[s]) BY <2>1, <2>3
      <3> QED BY <2>3, <3>1
    <2> QED BY <1>2, <2>2, <2>3, Zenon DEF Posts
  <1>9. AtHome'
    <2>1. ASSUME NEW s \in Sources, NEW i \in Inner, phase'[s][i] # "none"
          PROVE  i \in DOMAIN call' /\ call'[i].source = s
      BY <1>3, <1>4, <1>6, <2>1 DEF AtHome
    <2>2. ASSUME NEW s \in Sources, NEW k \in 1..Len(toSource'[s])
          PROVE  call'[toSource'[s][k].id].source = s
      <3>1. k \in 1..Len(toSource[s]) => call[toSource[s][k].id].source = s
        BY <1>6, Zenon DEF AtHome
      <3> QED BY <1>4, <1>8, <3>1
    <2> QED BY <2>1, <2>2 DEF AtHome
  <1>10. AnsweredFirst'
    <2>1. ASSUME NEW i \in forwarded' PROVE assessed'[i] # "none" \/ call'[i].policy = "workflow"
      BY <1>3, <1>4, <1>5, <1>6, <2>1 DEF AnsweredFirst
    <2>2. ASSUME NEW s \in Sources, NEW i \in Inner,
                 phase'[s][i] = "prepare" \/ Asking(s, i, "prepare")'
          PROVE  call'[i].policy # "workflow"
      <3>1. CASE phase'[s][i] = "prepare"
        BY <1>3, <1>4, <1>6, <3>1 DEF AnsweredFirst, AtHome
      <3>2. CASE Asking(s, i, "prepare")'
        BY <1>2, <1>4, <1>6, <1>7, <3>2 DEF AnsweredFirst
      <3> QED BY <2>2, <3>1, <3>2
    <2> QED BY <2>1, <2>2 DEF AnsweredFirst
  <1>11. InvokedOnce'
    <2>1. ASSUME NEW s \in Sources, NEW i \in Inner, phase'[s][i] = "execute" PROVE i \in ran'
      BY <1>3, <1>6, <2>1 DEF InvokedOnce
    <2>2. ASSUME NEW s \in Sources, NEW k \in 1..Len(toSource'[s]), toSource'[s][k].kind = "invoke"
          PROVE  toSource'[s][k].id \notin ran'
      <3>1. CASE k \in 1..Len(toSource[s]) /\ toSource'[s][k] = toSource[s][k]
        BY <1>3, <1>6, <2>2, <3>1, Zenon DEF InvokedOnce
      <3>2. CASE toSource'[s][k].kind = kind /\ toSource'[s][k].id \in ids
        BY <1>2, <1>3, <2>2, <3>2 DEF DecisionInv, ForwardedAllowed
      <3> QED BY <1>8, <3>1, <3>2
    <2>3. ASSUME NEW s \in Sources, NEW k \in 1..Len(toSource'[s]), toSource'[s][k].kind = "invoke",
                 NEW j \in 1..Len(toSource'[s]), toSource'[s][j] = toSource'[s][k]
          PROVE  j = k
      <3>1. ASSUME NEW n \in 1..Len(toSource[s]), toSource'[s][n] = toSource[s][n],
                   NEW l, l \in 1..Len(toSource'[s]), toSource'[s][l].kind = kind,
                   toSource'[s][l].id \in ids,
                   toSource'[s][n].kind = "invoke", toSource'[s][l] = toSource'[s][n]
            PROVE  FALSE
        <4>1. toSource[s][n].id \in forwarded BY <3>1, RequestFacts
        <4> QED BY <1>2, <3>1, <4>1
      <3>2. CASE k \in 1..Len(toSource[s]) /\ j \in 1..Len(toSource[s])
        <4>1. toSource'[s][k] = toSource[s][k] /\ toSource'[s][j] = toSource[s][j]
          BY <1>8, <3>2, Zenon
        <4> QED BY <1>6, <2>3, <3>2, <4>1, Zenon DEF InvokedOnce
      <3>3. CASE k \in 1..Len(toSource[s]) /\ j \notin 1..Len(toSource[s])
        BY <1>8, <2>3, <3>1, <3>3, Zenon
      <3>4. CASE k \notin 1..Len(toSource[s]) /\ j \in 1..Len(toSource[s])
        <4>1. toSource'[s][j].kind = "invoke" /\ toSource'[s][k] = toSource'[s][j] BY <2>3
        <4> QED BY <1>8, <3>1, <3>4, <4>1, Zenon
      <3>5. CASE k \notin 1..Len(toSource[s]) /\ j \notin 1..Len(toSource[s])
        <4>1. kind = "invoke" /\ k > Len(toSource[s]) /\ j > Len(toSource[s])
          BY <1>8, <2>3, <3>5, Zenon
        <4>2. Len(toSource'[s]) <= Len(toSource[s]) + 1 BY <1>2, <4>1 DEF Posts
        <4>3. Len(toSource[s]) \in Nat
          <5>1. toSource[s] \in Seq(Requests) BY DEF TypeOK, WireTypeOK
          <5> QED BY <5>1
        <4>4. Len(toSource'[s]) \in Int
          BY <1>2, <4>3 DEF Posts
        <4> QED BY <4>1, <4>2, <4>3, <4>4
      <3> QED BY <3>2, <3>3, <3>4, <3>5
    <2> QED BY <2>1, <2>2, <2>3 DEF InvokedOnce
  <1>12. CancelIsLast'
    <2>1. ASSUME NEW s \in Sources, NEW k \in 1..Len(toSource'[s]), toSource'[s][k].kind = "cancel"
          PROVE  toSource'[s][k].id \notin pending'
      <3>1. CASE k \in 1..Len(toSource[s]) /\ toSource'[s][k] = toSource[s][k]
        <4>1. toSource[s][k].id \notin pending BY <1>6, <2>1, <3>1, Zenon DEF CancelIsLast
        <4>2. toSource[s][k].id \in DOMAIN call BY <3>1, RequestFacts
        <4> QED BY <1>5, <3>1, <4>1, <4>2
      <3>2. CASE toSource'[s][k].kind = kind /\ toSource'[s][k].id \in ids
        BY <1>2, <2>1, <3>2
      <3> QED BY <1>8, <3>1, <3>2
    <2>2. ASSUME NEW s \in Sources, NEW k \in 1..Len(toSource'[s]), toSource'[s][k].kind = "cancel",
                 NEW j \in 1..Len(toSource'[s]), toSource'[s][j].id = toSource'[s][k].id,
                 toSource'[s][j].kind # "cancel"
          PROVE  j < k
      <3>1. CASE k \in 1..Len(toSource[s]) /\ j \in 1..Len(toSource[s])
        <4>1. toSource'[s][k] = toSource[s][k] /\ toSource'[s][j] = toSource[s][j]
          BY <1>8, <3>1, Zenon
        <4> QED BY <1>6, <2>2, <3>1, <4>1, Zenon DEF CancelIsLast
      <3>2. CASE k \in 1..Len(toSource[s]) /\ j \notin 1..Len(toSource[s])
        <4>1. /\ toSource'[s][k] = toSource[s][k] /\ toSource[s][k].id \in DOMAIN call
              /\ toSource'[s][j].kind = kind /\ toSource'[s][j].id \in ids
          BY <1>8, <3>2, Zenon
        <4>2. toSource[s][k].id \notin pending BY <1>6, <2>2, <3>2, <4>1, Zenon DEF CancelIsLast
        <4> QED BY <1>1, <1>2, <2>2, <4>1, <4>2
      <3>3. CASE k \notin 1..Len(toSource[s])
        <4>1. k > Len(toSource[s]) /\ kind = "cancel" BY <1>8, <2>2, <3>3, Zenon
        <4>2. j \in 1..Len(toSource[s]) BY <1>8, <2>2, <4>1, Zenon
        <4>3. Len(toSource[s]) \in Nat
          <5>1. toSource[s] \in Seq(Requests) BY DEF TypeOK, WireTypeOK
          <5> QED BY <5>1
        <4> QED BY <4>1, <4>2, <4>3
      <3> QED BY <3>1, <3>2, <3>3
    <2> QED BY <2>1, <2>2 DEF CancelIsLast
  <1>13. ResultsFinal'
    <2> SUFFICES ASSUME NEW s \in Sources, NEW k \in 1..Len(fromSource'[s]), NEW i, NEW how,
                        fromSource'[s][k].kind = "result",
                        i = fromSource'[s][k].id, how = fromSource'[s][k].how
                 PROVE  ResultIsFinal(i, how)'
      BY Zenon DEF ResultsFinal, ResultIsFinal, Asking
    <2>1. PICK j \in 1..Len(fromSource[s]) : fromSource'[s][k] = fromSource[s][j]
      BY DEF ReportsTaken
    <2>2. ResultIsFinal(i, how) BY <1>6, <2>1, Zenon DEF ResultsFinal
    <2>3. i \in DOMAIN call /\ i \in DOMAIN call' BY <1>4, <2>2 DEF ResultIsFinal
    <2>4. CASE i \in cut BY <1>3, <2>3, <2>4 DEF ResultIsFinal
    <2>5. CASE i \notin cut
      <3>1. /\ i \in DOMAIN call /\ (assessed[i] = "none" \/ i \in forwarded)
            /\ how = "refused" => i \notin ran
            /\ \A r \in Sources : phase[r][i] = "none" /\ ~Asking(r, i, "prepare") /\ ~Asking(r, i, "invoke")
        BY <2>2, <2>5 DEF ResultIsFinal
      <3>2. ASSUME NEW r \in Sources PROVE ~Asking(r, i, "prepare")' /\ ~Asking(r, i, "invoke")'
        BY <1>2, <1>7, <3>1
      <3> QED BY <1>3, <1>4, <1>5, <3>1, <3>2 DEF ResultIsFinal
    <2> QED BY <2>4, <2>5
  <1>14. CutIsAnswered' BY <1>3 DEF LifeInv, CutIsAnswered
  <1> QED BY <1>9, <1>10, <1>11, <1>12, <1>13, <1>14

\* What a caller was told stays told.
LEMMA MovesTell ==
    ASSUME TypeOK, Moves
    PROVE  \A o \in Outer : Range(told[o]) \subseteq Range(told'[o])
  <1>1. ASSUME NEW o \in Outer, NEW how \in Settlements, Tell(o, how)
        PROVE  \A p \in Outer : Range(told[p]) \subseteq Range(told'[p])
    <2>1. /\ Range(told'[o]) = Range(told[o]) \cup {how}
          /\ \A p \in Outer : p # o => told'[p] = told[p]
      BY <1>1, ToldRange
    <2> SUFFICES ASSUME NEW p \in Outer PROVE Range(told[p]) \subseteq Range(told'[p]) OBVIOUS
    <2>2. CASE p = o BY <2>1, <2>2
    <2>3. CASE p # o
      <3>1. told'[p] = told[p] BY <2>1, <2>3
      <3> QED BY <3>1
    <2> QED BY <2>2, <2>3
  <1>2. ASSUME UNCHANGED told PROVE \A p \in Outer : Range(told[p]) \subseteq Range(told'[p])
    BY <1>2
  <1>3. {"denied", "rejected"} \subseteq Settlements BY DEF Settlements
  <1>4. CASE \E o \in Outer : Refuses(o) BY <1>1, <1>3, <1>4 DEF Refuses
  <1>5. CASE \E o \in Outer, i \in Inner : Mints(o, i)
    <2>1. PICK o \in Outer : UNCHANGED told \/ Tell(o, "rejected") BY <1>5, Zenon DEF Mints
    <2> QED BY <1>1, <1>2, <1>3, <2>1
  <1>6. CASE Quiet \/ (\E i \in Inner : Runs(i) \/ Asks(i)) \/ Leaves
    <2>1. UNCHANGED told BY <1>6 DEF Quiet, Runs, Asks, Leaves
    <2> QED BY <1>2, <2>1
  <1>7. CASE \E o \in Outer, ids \in SUBSET Inner, how \in Settlements : Settles(o, ids, how)
    <2>1. PICK o \in Outer, how \in Settlements : Tell(o, how) BY <1>7, Zenon DEF Settles
    <2> QED BY <1>1, <2>1
  <1> QED BY <1>4, <1>5, <1>6, <1>7, Zenon DEF Moves

\* A call the gate stops holding: its source hears of it, or said so itself,
\* or the wire rejected the request, or the gate died.
LEMMA MovesForget ==
    ASSUME TypeOK, DecisionInv, HoldInv, Moves, CallsKept, NEW i \in pending, i \notin pending'
    PROVE  \/ \A s \in Sources : call[i].source = s => Asking(s, i, "cancel")'
           \/ Abandoned(i)'
           \/ gate' = "failed"
           \/ \E s \in Sources : \E k \in 1..Len(fromSource[s]) :
                 fromSource[s][k].kind = "result" /\ fromSource[s][k].id = i
  <1>0. i \in DOMAIN call /\ i \in DOMAIN call' /\ call'[i] = call[i] /\ call[i].outer \in Outer
    BY HeldFacts DEF CallsKept
  <1>1. ASSUME NEW ids, i \in ids, Posts(ids, "cancel"), NEW s \in Sources, call[i].source = s
        PROVE  Asking(s, i, "cancel")'
    BY <1>0, <1>1, PostsAsking
  <1>2. CASE Leaves
    <2>1. Posts(pending, "cancel") \/ gate' = "failed" BY <1>2, Zenon DEF Leaves
    <2> QED BY <1>1, <2>1
  <1>3. ASSUME NEW o \in Outer, NEW ids \in SUBSET Inner, NEW how \in Settlements,
               Settles(o, ids, how)
        PROVE  \/ \A s \in Sources : call[i].source = s => Asking(s, i, "cancel")'
               \/ Abandoned(i)'
               \/ \E s \in Sources : \E k \in 1..Len(fromSource[s]) :
                     fromSource[s][k].kind = "result" /\ fromSource[s][k].id = i
    <2>1. i \in ids /\ call[i].outer = o BY <1>3 DEF Settles, HeldFor
    <2>2. Posts(ids, "cancel") \/ how = "rejected" \/ how \in {"refused", "ended"}
      BY <1>3, Zenon DEF Settles
    <2>3. CASE Posts(ids, "cancel") BY <1>1, <2>1, <2>3
    <2>4. CASE how = "rejected"
      <3>1. Range(told'[o]) = Range(told[o]) \cup {how} BY <1>3, ToldRange DEF Settles
      <3>2. "rejected" \in Range(told'[call'[i].outer]) BY <1>0, <2>1, <2>4, <3>1
      <3> QED BY <1>0, <3>2 DEF Abandoned
    <2>5. CASE how \in {"refused", "ended"}
      <3>1. PICK s \in Sources : /\ 1 \in 1..Len(fromSource[s])
                                 /\ fromSource[s][1].kind = "result"
                                 /\ ids = {fromSource[s][1].id}
        BY <1>3, <2>5, Zenon DEF Settles
      <3> QED BY <2>1, <3>1
    <2> QED BY <2>2, <2>3, <2>4, <2>5
  <1>4. ASSUME pending \subseteq pending' PROVE FALSE BY <1>4
  <1>5. ASSUME NEW o \in Outer, NEW j \in Inner, Mints(o, j) PROVE FALSE
    <2>1. pending' = pending \cup {j} \/ pending' = pending BY <1>5, Zenon DEF Mints
    <2> QED BY <1>4, <2>1
  <1>6. CASE Quiet \/ (\E o \in Outer : Refuses(o)) \/ (\E j \in Inner : Runs(j) \/ Asks(j))
    BY <1>4, <1>6 DEF Quiet, Refuses, Runs, Asks
  <1> QED BY <1>2, <1>3, <1>5, <1>6, Zenon DEF Moves

\* What a source still has of a call that it ended after answering, it has
\* from the invoke.
LEMMA CutForwarded ==
    ASSUME TypeOK, DecisionInv, HoldInv, LifeInv, NEW s \in Sources, NEW i \in cut,
           phase[s][i] # "none" \/ Asking(s, i, "prepare") \/ Asking(s, i, "invoke")
    PROVE  i \in forwarded
  <1>1. i \in Inner /\ phase[s][i] \in Phases BY DEF TypeOK, SourceTypeOK
  <1>2. assessed[i] # "none" /\ phase[s][i] # "prepared" BY DEF LifeInv, CutIsAnswered
  <1>3. phase[s][i] # "prepare" BY <1>1, <1>2 DEF DecisionInv, PreparationsJustified
  <1>4. ~Asking(s, i, "prepare") BY <1>2, AskingFacts
  <1>5. CASE Asking(s, i, "invoke") BY <1>5, AskingFacts
  <1>6. CASE phase[s][i] = "execute" BY <1>1, <1>6 DEF HoldInv, StreamsForwarded
  <1> QED BY <1>1, <1>2, <1>3, <1>4, <1>5, <1>6 DEF Phases

LEMMA GateKeepsWork ==
    ASSUME TypeOK, DecisionInv, HoldInv, LifeInv, MaxUses = 1, GateMove, UNCHANGED sourceVars
    PROVE  WorkTracked'
  <1>1. Moves /\ CallsKept /\ Running BY DEF GateMove
  <1>2. PICK ids, kind : kind \in {"prepare", "invoke", "cancel"} /\ GatePosted(ids, kind)
    BY <1>1, MovesPost DEF GatePosts
  <1>3. /\ Posts(ids, kind)
        /\ kind \in {"prepare", "invoke"} => \A i \in ids : i \in pending'
    BY <1>2 DEF GatePosted
  <1>4. phase' = phase /\ cut' = cut BY DEF sourceVars
  <1> SUFFICES ASSUME NEW s \in Sources, NEW i \in Inner,
                      phase'[s][i] # "none" \/ Asking(s, i, "prepare")' \/ Asking(s, i, "invoke")'
               PROVE  \/ i \in pending' \/ Asking(s, i, "cancel")'
                      \/ Abandoned(i)' \/ Revived(i)' \/ gate' = "failed"
    BY DEF WorkTracked
  <1>5. CASE i \in pending' BY <1>5
  <1>6. CASE i \notin pending'
    <2>1. phase[s][i] # "none" \/ Asking(s, i, "prepare") \/ Asking(s, i, "invoke")
      BY <1>3, <1>4, <1>6, PostsAsking
    <2>2. i \in pending \/ Asking(s, i, "cancel") \/ Abandoned(i) \/ Revived(i) \/ gate = "failed"
      BY <2>1 DEF LifeInv, WorkTracked
    <2>3. CASE Asking(s, i, "cancel") BY <1>3, <2>3, PostsAsking
    <2>4. CASE Abandoned(i)
      <3>1. /\ i \in DOMAIN call /\ i \in DOMAIN call' /\ call'[i] = call[i]
            /\ call[i].outer \in Outer /\ "rejected" \in Range(told[call[i].outer])
        BY <1>1, <2>4, HeldFacts DEF Abandoned, CallsKept
      <3>2. Range(told[call[i].outer]) \subseteq Range(told'[call[i].outer])
        BY <1>1, <3>1, MovesTell
      <3>3. "rejected" \in Range(told'[call'[i].outer]) BY <3>1, <3>2
      <3> QED BY <3>1, <3>3 DEF Abandoned
    <2>5. CASE gate = "failed" BY <1>1, <2>5 DEF Running
    <2>7. Revived(i) => Revived(i)'
      <3>1. forwarded \subseteq forwarded' BY <1>1, MovesKeepHoldings
      <3> QED BY <1>4, <3>1 DEF Revived
    <2>6. CASE i \in pending
      <3>1. call[i].source = s
        BY <2>1, AskingFacts DEF LifeInv, AtHome
      <3>2. ASSUME NEW r \in Sources, NEW k \in 1..Len(fromSource[r]),
                   fromSource[r][k].kind = "result", fromSource[r][k].id = i
            PROVE  Revived(i)
        <4>1. ResultIsFinal(i, fromSource[r][k].how) BY <3>2 DEF LifeInv, ResultsFinal
        <4>2. i \in cut BY <2>1, <4>1 DEF ResultIsFinal
        <4>3. i \in forwarded BY <2>1, <4>2, CutForwarded
        <4> QED BY <4>2, <4>3 DEF Revived
      <3>3. \/ \A r \in Sources : call[i].source = r => Asking(r, i, "cancel")'
            \/ Abandoned(i)' \/ gate' = "failed" \/ Revived(i)
        BY <1>1, <1>6, <2>6, <3>2, MovesForget, Zenon
      <3> QED BY <2>7, <3>1, <3>3
    <2> QED BY <2>2, <2>3, <2>4, <2>5, <2>6, <2>7
  <1> QED BY <1>5, <1>6

LEMMA GateKeepsOneEach ==
    ASSUME TypeOK, DecisionInv, HoldInv, OneEach, MaxUses = 1, Moves, CallsKept
    PROVE  OneEach'
  <1>0. /\ \A i \in DOMAIN call : call'[i] = call[i] /\ call[i].outer \in Outer
        /\ asked \in [Outer -> 0..1]
    BY HeldFacts DEF CallsKept, TypeOK, GateTypeOK
  <1>1. ASSUME NEW o \in Outer, NEW i \in Inner, Mints(o, i) PROVE OneEach'
    <2>1. /\ asked[o] = 0 /\ asked' = [asked EXCEPT ![o] = @ + 1]
          /\ DOMAIN call' = DOMAIN call \cup {i} /\ call'[i].outer = o
      BY <1>0, <1>1 DEF Mints
    <2>2. asked'[o] = 1 /\ \A p \in Outer : p # o => asked'[p] = asked[p] BY <1>0, <2>1
    <2>3. \A j \in DOMAIN call : call[j].outer # o BY <2>1 DEF OneEach
    <2>4. \A j \in DOMAIN call' : asked'[call'[j].outer] # 0
      BY <1>0, <2>1, <2>2, <2>3 DEF OneEach
    <2>5. \A j, k \in DOMAIN call' : call'[j].outer = call'[k].outer => j = k
      BY <1>0, <2>1, <2>3 DEF OneEach
    <2> QED BY <2>4, <2>5 DEF OneEach
  <1>2. ASSUME NEW o \in Outer, Refuses(o) PROVE OneEach'
    <2>1. asked[o] = 0 /\ asked' = [asked EXCEPT ![o] = @ + 1] /\ call' = call
      BY <1>0, <1>2 DEF Refuses
    <2>2. \A p \in Outer : asked'[p] # 0 \/ asked'[p] = asked[p] BY <1>0, <2>1
    <2> QED BY <1>0, <2>1, <2>2 DEF OneEach
  <1>3. ASSUME UNCHANGED <<call, asked>> PROVE OneEach' BY <1>3 DEF OneEach
  <1>4. CASE Quiet \/ (\E i \in Inner : Runs(i) \/ Asks(i)) \/ Leaves
    BY <1>3, <1>4 DEF Quiet, Runs, Asks, Leaves
  <1>5. CASE \E o \in Outer, ids \in SUBSET Inner, how \in Settlements : Settles(o, ids, how)
    BY <1>3, <1>5 DEF Settles
  <1> QED BY <1>1, <1>2, <1>4, <1>5, Zenon DEF Moves
LEMMA GateKeepsTold ==
    ASSUME TypeOK, DecisionInv, HoldInv, LifeInv, MaxUses = 1, Moves, CallsKept, UNCHANGED sourceVars
    PROVE  ToldTruly'
  <1>0. /\ \A i \in DOMAIN call : call'[i] = call[i] /\ call[i].outer \in Outer /\ i \in Inner
        /\ DOMAIN call \subseteq DOMAIN call'
        /\ pending \subseteq DOMAIN call /\ forwarded \subseteq DOMAIN call
        /\ asked \in [Outer -> 0..1] /\ ran' = ran /\ cut' = cut /\ ran \subseteq forwarded
    BY HeldFacts DEF CallsKept, TypeOK, GateTypeOK, sourceVars, DecisionInv, ForwardedAllowed
  <1>a. PICK ids, kind : kind \in {"prepare", "invoke", "cancel"} /\ GatePosted(ids, kind)
    BY MovesPost DEF GatePosts
  <1>b. ASSUME NEW s \in Sources, NEW i, Asking(s, i, "invoke")'
        PROVE  Asking(s, i, "invoke") \/ told'[call'[i].outer] = <<>>
    BY <1>a, <1>b, PostsAsking DEF GatePosted
  <1>c. OneEach /\ ToldTruly /\ ResultsFinal BY DEF LifeInv
  \* A call whose caller is told nothing in this step.
  <1>1. ASSUME NEW i \in DOMAIN call', told'[call'[i].outer] = told[call'[i].outer],
               i \in DOMAIN call, i \in forwarded' => i \in forwarded \/ told'[call'[i].outer] = <<>>
        PROVE  /\ i \in forwarded' => Range(told'[call'[i].outer]) \cap {"denied", "withdrawn"} = {}
               /\ "refused" \in Range(told'[call'[i].outer]) /\ i \notin cut' =>
                     i \notin ran' /\ \A s \in Sources : ~Asking(s, i, "invoke")'
    <2>1. call'[i] = call[i] BY <1>0, <1>1
    <2>2. CASE told'[call'[i].outer] = <<>> BY <2>2, NothingTold
    <2>3. CASE told'[call'[i].outer] # <<>>
      BY <1>0, <1>b, <1>c, <1>1, <2>1, <2>3 DEF ToldTruly
    <2> QED BY <2>2, <2>3
  \* A call that has just been minted.
  <1>2. ASSUME NEW o \in Outer, NEW i \in Inner, Mints(o, i) PROVE ToldTruly'
    <2>1. /\ asked[o] = 0 /\ DOMAIN call' = DOMAIN call \cup {i} /\ call'[i].outer = o
          /\ i \notin DOMAIN call
      BY <1>0, <1>2 DEF Mints
    <2>2. told[o] = <<>> BY <2>1, NothingToldYet
    <2>3. \A j \in DOMAIN call : call[j].outer # o BY <1>c, <2>1 DEF OneEach
    <2>4. UNCHANGED told \/ Tell(o, "rejected") BY <1>2, Zenon DEF Mints
    <2>5. /\ Range(told'[o]) \subseteq {"rejected"}
          /\ \A p \in Outer : p # o => told'[p] = told[p]
      <3>1. "rejected" \in Settlements BY DEF Settlements
      <3>2. CASE UNCHANGED told BY <2>2, <3>2, NothingTold
      <3>3. CASE Tell(o, "rejected")
        <4>1. /\ Range(told'[o]) = Range(told[o]) \cup {"rejected"}
              /\ \A p \in Outer : p # o => told'[p] = told[p]
          BY <3>1, <3>3, ToldRange
        <4> QED BY <2>2, <4>1, NothingTold
      <3> QED BY <2>4, <3>2, <3>3
    <2>6. forwarded' \subseteq forwarded \cup {i} BY <1>2 DEF Mints
    <2> SUFFICES ASSUME NEW j \in DOMAIN call'
                 PROVE  /\ j \in forwarded' => Range(told'[call'[j].outer]) \cap {"denied", "withdrawn"} = {}
                        /\ "refused" \in Range(told'[call'[j].outer]) /\ j \notin cut' =>
                              j \notin ran' /\ \A s \in Sources : ~Asking(s, j, "invoke")'
      BY DEF ToldTruly
    <2>7. CASE j = i BY <2>1, <2>5, <2>7
    <2>8. CASE j # i
      <3>1. j \in DOMAIN call /\ call'[j].outer \in Outer /\ call'[j].outer # o
        BY <1>0, <2>1, <2>3, <2>8
      <3>2. told'[call'[j].outer] = told[call'[j].outer] BY <2>5, <3>1
      <3>3. j \in forwarded' => j \in forwarded BY <2>6, <2>8
      <3> QED BY <1>1, <3>1, <3>2, <3>3
    <2> QED BY <2>7, <2>8
  <1>3. ASSUME NEW o \in Outer, Refuses(o) PROVE ToldTruly'
    <2>1. asked[o] = 0 /\ call' = call /\ Tell(o, "denied") /\ forwarded' = forwarded
      BY <1>0, <1>3 DEF Refuses
    <2>2. \A j \in DOMAIN call : call[j].outer # o BY <1>c, <2>1 DEF OneEach
    <2>3. \A p \in Outer : p # o => told'[p] = told[p] BY <2>1, ToldRange DEF Settlements
    <2> SUFFICES ASSUME NEW j \in DOMAIN call'
                 PROVE  /\ j \in forwarded' => Range(told'[call'[j].outer]) \cap {"denied", "withdrawn"} = {}
                        /\ "refused" \in Range(told'[call'[j].outer]) /\ j \notin cut' =>
                              j \notin ran' /\ \A s \in Sources : ~Asking(s, j, "invoke")'
      BY DEF ToldTruly
    <2>4. j \in DOMAIN call /\ told'[call'[j].outer] = told[call'[j].outer]
      BY <1>0, <2>1, <2>2, <2>3
    <2> QED BY <1>1, <2>1, <2>4
  <1>4. ASSUME NEW o \in Outer, NEW is \in SUBSET Inner, NEW how \in Settlements,
               Settles(o, is, how)
        PROVE  ToldTruly'
    <2>1. /\ call' = call /\ forwarded' = forwarded /\ is # {} /\ is \subseteq HeldFor(o)
          /\ how \in {"denied", "withdrawn"} => is \cap forwarded = {}
      BY <1>4 DEF Settles
    <2>2. HeldFor(o) # {} BY <2>1
    <2>3. told[o] = <<>> BY <2>2, NothingToldYet
    <2>4. Range(told'[o]) = {how} /\ \A p \in Outer : p # o => told'[p] = told[p]
      <3>1. /\ Range(told'[o]) = Range(told[o]) \cup {how}
            /\ \A p \in Outer : p # o => told'[p] = told[p]
        BY <1>4, ToldRange DEF Settles
      <3> QED BY <2>3, <3>1, NothingTold
    <2> SUFFICES ASSUME NEW j \in DOMAIN call'
                 PROVE  /\ j \in forwarded' => Range(told'[call'[j].outer]) \cap {"denied", "withdrawn"} = {}
                        /\ "refused" \in Range(told'[call'[j].outer]) /\ j \notin cut' =>
                              j \notin ran' /\ \A s \in Sources : ~Asking(s, j, "invoke")'
      BY DEF ToldTruly
    <2>5. CASE call[j].outer # o
      <3>1. told'[call'[j].outer] = told[call'[j].outer] BY <1>0, <2>1, <2>4, <2>5
      <3> QED BY <1>1, <2>1, <3>1
    <2>6. CASE call[j].outer = o
      <3>1. is = {j} BY <1>0, <1>c, <2>1, <2>6 DEF OneEach, HeldFor
      <3>2. j \in forwarded' => Range(told'[call'[j].outer]) \cap {"denied", "withdrawn"} = {}
        BY <2>1, <2>4, <2>6, <3>1
      <3>3. ASSUME how = "refused", j \notin cut
            PROVE  j \notin ran' /\ \A s \in Sources : ~Asking(s, j, "invoke")'
        <4>1. PICK s \in Sources : /\ 1 \in 1..Len(fromSource[s])
                                   /\ fromSource[s][1].kind = "result"
                                   /\ fromSource[s][1].how = how
                                   /\ is = {fromSource[s][1].id}
          BY <1>4, <3>3, Zenon DEF Settles
        <4>2. ResultIsFinal(fromSource[s][1].id, fromSource[s][1].how)
          BY <1>c, <4>1 DEF ResultsFinal
        <4>3. fromSource[s][1].id = j BY <3>1, <4>1
        <4>4. j \notin ran /\ \A r \in Sources : ~Asking(r, j, "invoke")
          BY <3>3, <4>1, <4>2, <4>3 DEF ResultIsFinal
        <4>5. told'[call'[j].outer] # <<>> BY <2>1, <2>4, <2>6, NothingTold
        <4> QED BY <1>0, <1>b, <4>4, <4>5
      <3> QED BY <1>0, <2>1, <2>4, <2>6, <3>2, <3>3
    <2> QED BY <2>5, <2>6
  <1>5. ASSUME UNCHANGED <<call, told>>, \A i \in forwarded' : i \in forwarded \/ told[call[i].outer] = <<>>
        PROVE  ToldTruly'
    BY <1>1, <1>5 DEF ToldTruly
  <1>6. ASSUME NEW i \in Inner, Runs(i) PROVE ToldTruly'
    <2>1. i \in pending /\ forwarded' = forwarded \cup {i} /\ UNCHANGED <<call, told>>
      BY <1>6 DEF Runs
    <2>2. i \in HeldFor(call[i].outer) /\ call[i].outer \in Outer BY <1>0, <2>1 DEF HeldFor
    <2>3. HeldFor(call[i].outer) # {} BY <2>2
    <2>4. told[call[i].outer] = <<>> BY <2>2, <2>3, NothingToldYet
    <2> QED BY <1>5, <2>1, <2>4
  <1>7. CASE Quiet \/ (\E i \in Inner : Asks(i)) \/ Leaves
    <2>1. forwarded' = forwarded /\ UNCHANGED <<call, told>> BY <1>7 DEF Quiet, Asks, Leaves
    <2> QED BY <1>5, <2>1
  <1> QED BY <1>2, <1>3, <1>4, <1>6, <1>7, Zenon DEF Moves

LEMMA GateKeepsUnsettled ==
    ASSUME TypeOK, DecisionInv, HoldInv, LifeInv, MaxUses = 1, GateMove
    PROVE  UnsettledIsHeld'
  <1>0. /\ Moves /\ CallsKept /\ Running
        /\ \A i \in DOMAIN call : call'[i] = call[i] /\ call[i].outer \in Outer
        /\ pending \subseteq DOMAIN call /\ asked \in [Outer -> 0..1]
        /\ \A o \in Outer : Len(told[o]) \in Nat
    <2>1. \A o \in Outer : told[o] \in Seq(Settlements) BY DEF TypeOK, GateTypeOK
    <2> QED BY <2>1, HeldFacts DEF GateMove, CallsKept, TypeOK, GateTypeOK
  <1>1. \A o \in Outer : Len(told[o]) < asked[o] => \E i \in pending : call[i].outer = o
    BY <1>0 DEF LifeInv, UnsettledIsHeld
  <1> SUFFICES ASSUME gate' = "running", NEW p \in Outer, Len(told'[p]) < asked'[p]
               PROVE  \E i \in pending' : call'[i].outer = p
    BY DEF UnsettledIsHeld, Running
  \* Nothing happens to the calls of p.
  <1>2. ASSUME told'[p] = told[p], asked'[p] = asked[p],
               \A i \in pending : call[i].outer = p => i \in pending'
        PROVE  \E i \in pending' : call'[i].outer = p
    <2>1. PICK i \in pending : call[i].outer = p BY <1>1, <1>2
    <2> QED BY <1>0, <1>2, <2>1
  <1>3. ASSUME NEW o \in Outer, Refuses(o) PROVE \E i \in pending' : call'[i].outer = p
    <2>1. /\ asked[o] = 0 /\ asked'[o] = 1 /\ \A q \in Outer : q # o => asked'[q] = asked[q]
          /\ pending' = pending
      BY <1>0, <1>3 DEF Refuses
    <2>2. Len(told'[o]) = Len(told[o]) + 1 /\ \A q \in Outer : q # o => told'[q] = told[q]
      BY <1>3, Told DEF Refuses, Settlements
    <2>3. CASE p = o BY <1>0, <2>1, <2>2, <2>3
    <2>4. CASE p # o BY <1>2, <2>1, <2>2, <2>4
    <2> QED BY <2>3, <2>4
  <1>4. ASSUME NEW o \in Outer, NEW i \in Inner, Mints(o, i)
        PROVE  \E j \in pending' : call'[j].outer = p
    <2>1. /\ asked[o] = 0 /\ asked'[o] = 1 /\ \A q \in Outer : q # o => asked'[q] = asked[q]
          /\ call'[i].outer = o
      BY <1>0, <1>4 DEF Mints
    <2>2. \/ pending' = pending \cup {i} /\ UNCHANGED told
          \/ Tell(o, "rejected") /\ UNCHANGED pending
      BY <1>4, Zenon DEF Mints
    <2>3. CASE pending' = pending \cup {i} /\ UNCHANGED told
      <3>1. CASE p = o BY <2>1, <2>3, <3>1
      <3>2. CASE p # o BY <1>2, <2>1, <2>3, <3>2
      <3> QED BY <3>1, <3>2
    <2>4. CASE Tell(o, "rejected") /\ UNCHANGED pending
      <3>1. Len(told'[o]) = Len(told[o]) + 1 /\ \A q \in Outer : q # o => told'[q] = told[q]
        BY <2>4, Told DEF Settlements
      <3>2. CASE p = o BY <1>0, <2>1, <3>1, <3>2
      <3>3. CASE p # o BY <1>2, <2>1, <2>4, <3>1, <3>3
      <3> QED BY <3>2, <3>3
    <2> QED BY <2>2, <2>3, <2>4
  <1>5. ASSUME NEW o \in Outer, NEW ids \in SUBSET Inner, NEW how \in Settlements,
               Settles(o, ids, how)
        PROVE  \E j \in pending' : call'[j].outer = p
    <2>1. Len(told'[o]) = Len(told[o]) + 1 /\ \A q \in Outer : q # o => told'[q] = told[q]
      BY <1>5, Told DEF Settles
    <2>2. asked' = asked /\ pending' = pending \ ids /\ ids \subseteq HeldFor(o)
      BY <1>5 DEF Settles
    <2>3. CASE p = o BY <1>0, <2>1, <2>2, <2>3
    <2>4. CASE p # o
      <3>1. \A i \in pending : call[i].outer = p => i \in pending' BY <2>2, <2>4 DEF HeldFor
      <3> QED BY <1>2, <2>1, <2>2, <2>4, <3>1
    <2> QED BY <2>3, <2>4
  <1>6. CASE Quiet \/ (\E i \in Inner : Runs(i) \/ Asks(i))
    <2>1. pending' = pending /\ told' = told /\ asked' = asked BY <1>6 DEF Quiet, Runs, Asks
    <2> QED BY <1>2, <2>1
  <1>7. CASE Leaves BY <1>7 DEF Leaves
  <1> QED BY <1>0, <1>3, <1>4, <1>5, <1>6, <1>7, Zenon DEF Moves
\* Reports a held call still needs are not taken.
LEMMA ReportsStay ==
    ASSUME ReportsHeeded, NEW i, NEW kind, Heard(i, kind),
           \/ kind = "prepared" /\ i \in preparing'
           \/ kind = "result" /\ i \in pending'
    PROVE  Heard(i, kind)'
  <1>0. PICK s \in Sources : \E j \in 1..Len(fromSource[s]) :
            fromSource[s][j].kind = kind /\ fromSource[s][j].id = i
    BY DEF Heard
  <1>1. PICK j \in 1..Len(fromSource[s]) : fromSource[s][j].kind = kind /\ fromSource[s][j].id = i
    BY <1>0
  <1>2. \/ \E k \in 1..Len(fromSource'[s]) : fromSource'[s][k] = fromSource[s][j]
        \/ fromSource[s][j].kind = "prepared" /\ fromSource[s][j].id \notin preparing'
        \/ fromSource[s][j].kind = "stream"
        \/ fromSource[s][j].kind = "result" /\ fromSource[s][j].id \notin pending'
    BY DEF ReportsHeeded
  <1>3. PICK k \in 1..Len(fromSource'[s]) : fromSource'[s][k] = fromSource[s][j] BY <1>1, <1>2
  <1> QED BY <1>1, <1>3, Zenon DEF Heard

LEMMA GateKeepsWaiting ==
    ASSUME TypeOK, DecisionInv, HoldInv, LifeInv, MaxUses = 1, GateMove, UNCHANGED sourceVars
    PROVE  NothingStranded'
  <1>0. /\ Moves /\ CallsKept /\ Running /\ ReportsHeeded
        /\ \A i \in DOMAIN call : call'[i] = call[i] /\ call[i].outer \in Outer
        /\ pending \subseteq DOMAIN call /\ preparing \subseteq pending
        /\ awaiting \in [Outer -> 0..MaxCalls]
    BY HeldFacts DEF GateMove, CallsKept
  <1>1. phase' = phase BY DEF sourceVars
  <1>2. PICK posted, kind : kind \in {"prepare", "invoke", "cancel"} /\ GatePosted(posted, kind)
    BY <1>0, MovesPost DEF GatePosts
  <1>3. ASSUME NEW i, NEW k, Sent(i, k) PROVE Sent(i, k)'
    BY <1>2, <1>3, PostsAsking DEF Sent, GatePosted
  <1>4. ASSUME NEW i, NEW k, NEW s \in Sources, call'[i].source = s, Posts({i}, k) PROVE Sent(i, k)'
    BY <1>4, PostsAsking DEF Sent
  <1>5. forwarded \subseteq forwarded' BY <1>0, MovesKeepHoldings
  <1> SUFFICES ASSUME gate' = "running", NEW i \in pending'
               PROVE  \/ i \in preparing' /\ (Sent(i, "prepare")' \/ InPhase(i, "prepare")'
                                               \/ Heard(i, "prepared")' \/ Heard(i, "result")')
                      \/ awaiting'[call'[i].outer] = i
                      \/ i \in forwarded' /\ (Sent(i, "invoke")' \/ InPhase(i, "execute")'
                                               \/ Heard(i, "result")')
    BY DEF NothingStranded, Running
  <1> DEFINE Waits ==
        \/ i \in preparing' /\ (Sent(i, "prepare")' \/ InPhase(i, "prepare")'
                                 \/ Heard(i, "prepared")' \/ Heard(i, "result")')
        \/ awaiting'[call'[i].outer] = i
        \/ i \in forwarded' /\ (Sent(i, "invoke")' \/ InPhase(i, "execute")'
                                 \/ Heard(i, "result")')
  \* Nothing happens to i itself.
  <1>6. ASSUME i \in pending, i \in preparing => i \in preparing',
               awaiting[call[i].outer] = i => awaiting'[call[i].outer] = i
        PROVE  Waits
    <2>1. call'[i] = call[i] BY <1>0, <1>6
    <2>2. \A p : InPhase(i, p)' <=> InPhase(i, p) BY <1>1 DEF InPhase
    <2>3. \/ i \in preparing /\ (Sent(i, "prepare") \/ InPhase(i, "prepare")
                                  \/ Heard(i, "prepared") \/ Heard(i, "result"))
          \/ awaiting[call[i].outer] = i
          \/ i \in forwarded /\ (Sent(i, "invoke") \/ InPhase(i, "execute") \/ Heard(i, "result"))
      BY <1>0, <1>6 DEF LifeInv, NothingStranded
    <2>4. Heard(i, "result") => Heard(i, "result")' BY <1>0, ReportsStay
    <2>5. CASE i \in preparing /\ (Sent(i, "prepare") \/ InPhase(i, "prepare")
                                     \/ Heard(i, "prepared") \/ Heard(i, "result"))
      <3>1. Heard(i, "prepared") => Heard(i, "prepared")' BY <1>0, <1>6, <2>5, ReportsStay
      <3> QED BY <1>3, <1>6, <2>2, <2>4, <2>5, <3>1
    <2>6. CASE awaiting[call[i].outer] = i BY <1>6, <2>1, <2>6
    <2>7. CASE i \in forwarded /\ (Sent(i, "invoke") \/ InPhase(i, "execute") \/ Heard(i, "result"))
      BY <1>3, <1>5, <2>2, <2>4, <2>7
    <2> QED BY <2>3, <2>5, <2>6, <2>7
  <1> HIDE DEF Waits
  <1>7. ASSUME NEW o \in Outer, NEW j \in Inner, Mints(o, j) PROVE Waits
    <2>1. awaiting' = awaiting /\ call'[j] \in Calls BY <1>7 DEF Mints
    <2>2. call'[j].source \in Sources BY <2>1 DEF Calls
    <2>3. \/ /\ Posts({j}, "invoke") /\ pending' = pending \cup {j} /\ preparing' = preparing
             /\ j \in forwarded'
          \/ /\ Posts({j}, "prepare") /\ pending' = pending \cup {j}
             /\ preparing' = preparing \cup {j}
          \/ pending' = pending /\ preparing' = preparing
      BY <1>7, Zenon DEF Mints
    <2>4. CASE i \in pending BY <1>6, <2>1, <2>3, <2>4
    <2>5. CASE i \notin pending
      <3>1. i = j BY <2>3, <2>5
      <3>2. /\ Posts({j}, "invoke") => Sent(j, "invoke")'
            /\ Posts({j}, "prepare") => Sent(j, "prepare")'
        BY <1>4, <2>2
      <3> QED BY <2>3, <2>5, <3>1, <3>2 DEF Waits
    <2> QED BY <2>4, <2>5
  <1>8. ASSUME NEW j \in Inner, Runs(j) PROVE Waits
    <2>1. /\ j \in pending /\ Posts({j}, "invoke") /\ j \in forwarded' /\ call' = call
          /\ preparing' = preparing \ {j} /\ pending' = pending
          /\ \A o \in Outer : awaiting'[o] = IF awaiting[o] = j THEN 0 ELSE awaiting[o]
      BY <1>8 DEF Runs
    <2>2. CASE i = j
      <3>1. call'[j].source \in Sources BY <2>1, HeldFacts
      <3>2. Sent(j, "invoke")' BY <1>4, <2>1, <3>1
      <3> QED BY <2>1, <2>2, <3>2 DEF Waits
    <2>3. CASE i # j
      <3>1. i \in pending /\ call[i].outer \in Outer BY <1>0, <2>1
      <3> QED BY <1>6, <2>1, <2>3, <3>1
    <2> QED BY <2>2, <2>3
  <1>9. ASSUME NEW j \in Inner, Asks(j) PROVE Waits
    <2>1. /\ j \in preparing /\ preparing' = preparing \ {j} /\ call' = call /\ pending' = pending
          /\ awaiting' = [awaiting EXCEPT ![call[j].outer] = j]
      BY <1>9 DEF Asks
    <2>2. i \in DOMAIN call /\ j \in DOMAIN call BY <1>0, <2>1
    <2>3. \A p \in Outer : awaiting'[p] = IF p = call[j].outer THEN j ELSE awaiting[p]
      BY <1>0, <2>1, <2>2
    <2>4. CASE i = j BY <1>0, <2>1, <2>2, <2>3, <2>4 DEF Waits
    <2>5. CASE i # j
      <3>1. call[i].outer # call[j].outer /\ call[i].outer \in Outer
        BY <1>0, <2>2, <2>5 DEF LifeInv, OneEach
      <3> QED BY <1>6, <2>1, <2>3, <2>5, <3>1
    <2> QED BY <2>4, <2>5
  <1>10. ASSUME NEW o \in Outer, NEW ids \in SUBSET Inner, NEW how \in Settlements,
                Settles(o, ids, how)
         PROVE  Waits
    <2>1. /\ pending' = pending \ ids /\ preparing' = preparing \ ids
          /\ \A p \in Outer : awaiting'[p] = IF awaiting[p] \in ids THEN 0 ELSE awaiting[p]
      BY <1>10 DEF Settles
    <2>2. i \in pending /\ i \notin ids BY <2>1
    <2>3. call[i].outer \in Outer BY <1>0, <2>2
    <2> QED BY <1>6, <2>1, <2>2, <2>3
  <1>11. ASSUME UNCHANGED <<pending, preparing, awaiting>> PROVE Waits BY <1>6, <1>11
  <1>12. ASSUME Quiet PROVE Waits BY <1>11, <1>12 DEF Quiet
  <1>13. ASSUME NEW o \in Outer, Refuses(o) PROVE Waits BY <1>11, <1>13 DEF Refuses
  <1>14. ASSUME Leaves PROVE FALSE BY <1>14 DEF Leaves
  <1>15. Waits BY <1>0, <1>7, <1>8, <1>9, <1>10, <1>12, <1>13, <1>14, Zenon DEF Moves
  <1> QED BY <1>15 DEF Waits

LEMMA GateStepLife ==
    ASSUME TypeOK, DecisionInv, HoldInv, LifeInv, MaxUses = 1, UNCHANGED sourceVars,
           Requested \/ Stop \/ WriterClosed \/ \E s \in Sources : Reported(s)
    PROVE  LifeInv'
  <1>1. GateMove /\ Moves /\ CallsKept /\ ReportsTaken BY GateMoves DEF GateMove
  <1>2. AtHome' /\ AnsweredFirst' /\ InvokedOnce' /\ CancelIsLast' /\ CutIsAnswered' /\ ResultsFinal'
    BY <1>1, GateKeepsWire
  <1>3. WorkTracked' BY <1>1, GateKeepsWork
  <1>4. OneEach' BY <1>1, GateKeepsOneEach DEF LifeInv
  <1>5. ToldTruly' BY <1>1, GateKeepsTold
  <1>6. UnsettledIsHeld' /\ NothingStranded' BY <1>1, GateKeepsUnsettled, GateKeepsWaiting
  <1> QED BY <1>2, <1>3, <1>4, <1>5, <1>6 DEF LifeInv-----------------------------------------------------------------------------
\* What a source has to do with a call before and after it was decided.
Early(s, i) == phase[s][i] = "prepare" \/ Asking(s, i, "prepare")
Late(s, i) == phase[s][i] = "execute" \/ Asking(s, i, "invoke")
Working(s, i) == phase[s][i] # "none" \/ Asking(s, i, "prepare") \/ Asking(s, i, "invoke")

LEMMA EarlyFacts ==
    ASSUME TypeOK, DecisionInv, LifeInv, NEW s \in Sources, NEW i \in Inner, Early(s, i)
    PROVE  /\ i \in DOMAIN call /\ call[i].source = s /\ assessed[i] = "none"
           /\ i \notin forwarded /\ i \notin ran
           /\ \A r \in Sources : ~Asking(r, i, "invoke")
  <1>1. i \in DOMAIN call /\ call[i].source = s /\ assessed[i] = "none"
    BY AskingFacts DEF Early, DecisionInv, PreparationsJustified, LifeInv
  <1>2. i \notin forwarded BY <1>1 DEF LifeInv, AnsweredFirst, Early
  <1>3. i \notin ran BY <1>2 DEF DecisionInv, ForwardedAllowed
  <1>4. \A r \in Sources : ~Asking(r, i, "invoke") BY <1>2, AskingFacts
  <1> QED BY <1>1, <1>2, <1>3, <1>4

LEMMA LateFacts ==
    ASSUME TypeOK, DecisionInv, HoldInv, LifeInv, NEW s \in Sources, NEW i \in Inner, Late(s, i)
    PROVE  /\ i \in DOMAIN call /\ call[i].source = s /\ i \in forwarded
           /\ \A r \in Sources : ~Early(r, i)
  <1>1. i \in forwarded BY AskingFacts DEF Late, HoldInv, StreamsForwarded
  <1>2. i \in DOMAIN call /\ call[i].source = s
    BY AskingFacts DEF Late, LifeInv, AtHome
  <1>3. \A r \in Sources : ~Early(r, i) BY <1>1, EarlyFacts
  <1> QED BY <1>1, <1>2, <1>3

\* Requests are only dropped.
LEMMA DroppedAsking ==
    ASSUME TypeOK, RequestsDropped, NEW s \in Sources, NEW i, NEW k, Asking(s, i, k)'
    PROVE  Asking(s, i, k)
  <1>1. PICK n \in 1..Len(toSource'[s]) : toSource'[s][n] = Request(k, i) BY DEF Asking
  <1>2. PICK d \in {0, 1} :
          /\ Len(toSource'[s]) = Len(toSource[s]) - d
          /\ \A j \in 1..Len(toSource'[s]) : toSource'[s][j] = toSource[s][j + d]
    BY DEF RequestsDropped
  <1>3. Len(toSource[s]) \in Nat
    <2>1. toSource[s] \in Seq(Requests) BY DEF TypeOK, WireTypeOK
    <2> QED BY <2>1
  <1>4. n + d \in 1..Len(toSource[s]) BY <1>2, <1>3
  <1>5. toSource[s][n + d] = Request(k, i) BY <1>1, <1>2
  <1> QED BY <1>4, <1>5 DEF Asking

\* What taking the head of a source's requests leaves.
LEMMA TakenHead ==
    ASSUME TypeOK, DecisionInv, LifeInv, NEW s \in Sources, NEW kind \in {"prepare", "invoke", "cancel"},
           Addressed(s, kind), Take(s), NEW i, i = Head(toSource[s]).id
    PROVE  /\ i \in Inner /\ Asking(s, i, kind) /\ RequestsDropped
           /\ \A r \in Sources, j \in Inner : \A k :
                Asking(r, j, k) => Asking(r, j, k)' \/ (r = s /\ j = i /\ k = kind)
           /\ kind # "cancel" => ~Asking(s, i, kind)'
           /\ kind = "cancel" => i \notin pending /\ ~Asking(s, i, "prepare")' /\ ~Asking(s, i, "invoke")'
  <1> DEFINE q == toSource[s]
  <1>1. /\ RequestsDropped /\ Head(q) = q[1] /\ 1 \in 1..Len(q) /\ Head(q) \in Requests
        /\ \A k \in 1..Len(toSource'[s]) :
             k + 1 \in 1..Len(q) /\ k + 1 # 1 /\ toSource'[s][k] = q[k + 1]
        /\ \A r \in Sources : r # s => toSource'[r] = toSource[r]
    BY HeadDropped DEF Addressed
  <1>2. Head(q) = Request(kind, i) /\ i \in Inner BY <1>1, RequestEq DEF Addressed
  <1>3. Asking(s, i, kind) BY <1>1, <1>2, Zenon DEF Asking
  <1>4. q \in Seq(Requests) /\ q # <<>> /\ toSource'[s] = Tail(q)
    BY DEF TypeOK, WireTypeOK, Addressed, Take
  <1>5. ASSUME NEW r \in Sources, NEW j \in Inner, NEW k, Asking(r, j, k)
        PROVE  Asking(r, j, k)' \/ (r = s /\ j = i /\ k = kind)
    <2>1. CASE r # s BY <1>1, <1>5, <2>1, Zenon DEF Asking
    <2>2. CASE r = s
      <3>1. PICK n \in 1..Len(q) : q[n] = Request(k, j) BY <1>5, <2>2 DEF Asking
      <3>2. CASE n = 1 BY <1>1, <1>2, <2>2, <3>1, <3>2 DEF Request
      <3>3. CASE n # 1
        <4> HIDE DEF q
        <4>1. Len(Tail(q)) = Len(q) - 1 /\ Len(q) \in Nat BY <1>4, TailFacts
        <4>2. n - 1 \in 1..Len(toSource'[s]) /\ (n - 1) + 1 = n BY <1>4, <3>3, <4>1
        <4>3. toSource'[s][n - 1] = q[n] BY <1>1, <4>2
        <4> QED BY <2>2, <3>1, <4>2, <4>3 DEF Asking
      <3> QED BY <3>2, <3>3
    <2> QED BY <2>1, <2>2
  <1>6. ASSUME kind # "cancel", Asking(s, i, kind)' PROVE FALSE
    <2>1. PICK n \in 1..Len(toSource'[s]) : toSource'[s][n] = Request(kind, i) BY <1>6 DEF Asking
    <2>2. n + 1 \in 1..Len(q) /\ n + 1 # 1 /\ q[n + 1] = q[1] BY <1>1, <1>2, <2>1
    <2>3. q[1].kind = kind BY <1>1 DEF Addressed
    <2>4. CASE kind = "prepare"
      <3>1. \A j \in 1..Len(q) : q[j] = q[1] => j = 1
        BY <1>1, <2>3, <2>4 DEF DecisionInv, RequestsJustified
      <3> QED BY <2>2, <3>1
    <2>5. CASE kind = "invoke"
      <3>1. \A j \in 1..Len(q) : q[j] = q[1] => j = 1
        BY <1>1, <2>3, <2>5 DEF LifeInv, InvokedOnce
      <3> QED BY <2>2, <3>1
    <2> QED BY <1>6, <2>4, <2>5
  <1>7. ASSUME kind = "cancel"
        PROVE  i \notin pending /\ ~Asking(s, i, "prepare")' /\ ~Asking(s, i, "invoke")'
    <2>1. q[1].kind = "cancel" /\ q[1].id = i BY <1>1, <1>7 DEF Addressed
    <2>2. /\ i \notin pending
          /\ \A j \in 1..Len(q) : q[j].id = i /\ q[j].kind # "cancel" => j < 1
      BY <1>1, <2>1 DEF LifeInv, CancelIsLast
    <2>3. ASSUME NEW k \in {"prepare", "invoke"}, Asking(s, i, k)' PROVE FALSE
      <3>1. Asking(s, i, k) BY <1>1, <2>3, DroppedAsking
      <3>2. PICK n \in 1..Len(q) : q[n] = Request(k, i) BY <3>1 DEF Asking
      <3>3. q[n].id = i /\ q[n].kind = k BY <3>2 DEF Request
      <3>4. n < 1 BY <2>2, <2>3, <3>3
      <3> QED BY <3>2, <3>4
    <2> QED BY <2>2, <2>3
  <1> QED BY <1>1, <1>2, <1>3, <1>5, <1>6, <1>7

LEMMA NothingTaken ==
    ASSUME TypeOK, UNCHANGED toSource
    PROVE  /\ RequestsDropped
           /\ \A r \in Sources : \A j, k : Asking(r, j, k)' <=> Asking(r, j, k)
  BY NoRequestDropped DEF Asking

\* A step of source s about call i.
RequestsMove(s, i) ==
    /\ RequestsDropped
    /\ \A r \in Sources, j \in Inner : \A k :
          Asking(r, j, k) => Asking(r, j, k)' \/ (r = s /\ j = i)
    /\ Asking(s, i, "cancel") /\ ~Asking(s, i, "cancel")' =>
          phase'[s][i] = "none" /\ ~Asking(s, i, "prepare")' /\ ~Asking(s, i, "invoke")'

PhaseMoves(s, i) ==
    /\ \A r \in Sources, j \in Inner : r # s \/ j # i => phase'[r][j] = phase[r][j]
    /\ phase'[s][i] # "none" => Working(s, i)
    /\ phase'[s][i] = "prepare" => Early(s, i)
    /\ phase'[s][i] = "execute" => i \in ran'
    /\ phase'[s][i] = "prepared" => Early(s, i) /\ assessed'[i] # "none"

CutMoves(s, i) ==
    /\ cut \subseteq cut'
    /\ \A j \in cut' : j \in cut \/ (j = i /\ phase[s][i] = "prepared" /\ phase'[s][i] = "none")

HistoryMoves(s, i) ==
    /\ \A j \in Inner : assessed'[j] # assessed[j] => j = i /\ assessed[i] = "none" /\ Early(s, i)
    /\ ran \subseteq ran'
    /\ \A j \in ran' : j \in ran \/ (j = i /\ Asking(s, i, "invoke") /\ ~Asking(s, i, "invoke")')

\* A result is the last of its call, refused only if its tool did not run,
\* unless a prepared call is ended.
LastWord(s, i, how) ==
    /\ phase'[s][i] = "none" /\ ~Asking(s, i, "prepare")' /\ ~Asking(s, i, "invoke")'
    /\ assessed'[i] = "none" \/ i \in forwarded
    /\ how = "refused" => i \notin ran'

ReportsMove(s, i) ==
    /\ \A r \in Sources : \A j \in 1..Len(fromSource[r]) :
          \E k \in 1..Len(fromSource'[r]) : fromSource'[r][k] = fromSource[r][j]
    /\ \A r \in Sources : \A k \in 1..Len(fromSource'[r]) :
          \/ \E j \in 1..Len(fromSource[r]) : fromSource'[r][k] = fromSource[r][j]
          \/ fromSource'[r][k].kind # "result"
          \/ fromSource'[r][k].id = i /\ (LastWord(s, i, fromSource'[r][k].how) \/ i \in cut')

WaitMoves(s, i) ==
    /\ i \in preparing /\ Early(s, i) => Early(s, i)' \/ Heard(i, "prepared")' \/ Heard(i, "result")'
    /\ i \in pending /\ Late(s, i) => Late(s, i)' \/ Heard(i, "result")'

SourceMove(s, i) ==
    /\ i \in DOMAIN call /\ call[i].source = s
    /\ RequestsMove(s, i) /\ PhaseMoves(s, i) /\ HistoryMoves(s, i)
    /\ ReportsMove(s, i) /\ WaitMoves(s, i) /\ CutMoves(s, i)

\* What was heard of a call stays heard.
LEMMA HeardStays ==
    ASSUME NEW s, NEW i, ReportsMove(s, i), NEW j, NEW kind, Heard(j, kind) PROVE Heard(j, kind)'
  <1>1. PICK r \in Sources : \E k \in 1..Len(fromSource[r]) :
            fromSource[r][k].kind = kind /\ fromSource[r][k].id = j
    BY DEF Heard
  <1>2. PICK k \in 1..Len(fromSource[r]) : fromSource[r][k].kind = kind /\ fromSource[r][k].id = j
    BY <1>1
  <1>3. PICK n \in 1..Len(fromSource'[r]) : fromSource'[r][n] = fromSource[r][k]
    BY DEF ReportsMove
  <1> QED BY <1>2, <1>3, Zenon DEF Heard

LEMMA SourceKeepsLife ==
    ASSUME TypeOK, TypeOK', DecisionInv, HoldInv, LifeInv, UNCHANGED gateVars,
           NEW s \in Sources, NEW i \in Inner, SourceMove(s, i)
    PROVE  LifeInv'
  <1>0. /\ call' = call /\ pending' = pending /\ preparing' = preparing /\ forwarded' = forwarded
        /\ awaiting' = awaiting /\ told' = told /\ asked' = asked /\ gate' = gate
    BY DEF gateVars, gateState, gateHistory
  <1>1. /\ AtHome /\ AnsweredFirst /\ InvokedOnce /\ CancelIsLast /\ CutIsAnswered /\ ResultsFinal
        /\ WorkTracked /\ OneEach /\ ToldTruly /\ UnsettledIsHeld /\ NothingStranded
    BY DEF LifeInv
  <1>2. /\ i \in DOMAIN call /\ call[i].source = s /\ RequestsDropped
        /\ RequestsMove(s, i) /\ PhaseMoves(s, i) /\ HistoryMoves(s, i)
        /\ ReportsMove(s, i) /\ WaitMoves(s, i) /\ CutMoves(s, i) /\ cut \subseteq cut'
    BY DEF SourceMove, CutMoves, RequestsMove
  <1>3. ASSUME NEW r \in Sources, NEW j, NEW k, Asking(r, j, k)' PROVE Asking(r, j, k)
    BY <1>2, <1>3, DroppedAsking
  <1>4. \A j \in Inner : assessed[j] # "none" => assessed'[j] # "none" BY <1>2 DEF HistoryMoves
  \* The requests that are left, at their old places.
  <1>5. ASSUME NEW r \in Sources
        PROVE  \E d \in {0, 1} : \A k \in 1..Len(toSource'[r]) :
                  k \in Int /\ k + d \in 1..Len(toSource[r]) /\ toSource'[r][k] = toSource[r][k + d]
    <2>1. PICK d \in {0, 1} :
            /\ Len(toSource'[r]) = Len(toSource[r]) - d
            /\ \A j \in 1..Len(toSource'[r]) : toSource'[r][j] = toSource[r][j + d]
      BY <1>2 DEF RequestsDropped
    <2>2. Len(toSource[r]) \in Nat
      <3>1. toSource[r] \in Seq(Requests) BY DEF TypeOK, WireTypeOK
      <3> QED BY <3>1
    <2>3. \A k \in 1..Len(toSource'[r]) : k \in Int /\ k + d \in 1..Len(toSource[r]) BY <2>1, <2>2
    <2> QED BY <2>1, <2>3
  <1>6. AtHome'
    <2>1. ASSUME NEW r \in Sources, NEW j \in Inner, phase'[r][j] # "none"
          PROVE  j \in DOMAIN call /\ call[j].source = r
      BY <1>1, <1>2, <2>1 DEF AtHome, PhaseMoves
    <2>2. ASSUME NEW r \in Sources, NEW k \in 1..Len(toSource'[r])
          PROVE  call[toSource'[r][k].id].source = r
      <3>1. PICK d \in {0, 1} : \A n \in 1..Len(toSource'[r]) :
                n \in Int /\ n + d \in 1..Len(toSource[r]) /\ toSource'[r][n] = toSource[r][n + d]
        BY <1>5
      <3>2. k + d \in 1..Len(toSource[r]) /\ toSource'[r][k] = toSource[r][k + d] BY <3>1
      <3>3. call[toSource[r][k + d].id].source = r BY <1>1, <3>2 DEF AtHome
      <3> QED BY <3>2, <3>3
    <2> QED BY <1>0, <2>1, <2>2 DEF AtHome
  <1>7. AnsweredFirst'
    <2>1. \A j \in forwarded : assessed'[j] # "none" \/ call[j].policy = "workflow"
      BY <1>1, <1>4 DEF AnsweredFirst, TypeOK, GateTypeOK
    <2>2. ASSUME NEW r \in Sources, NEW j \in Inner,
                 phase'[r][j] = "prepare" \/ Asking(r, j, "prepare")'
          PROVE  call[j].policy # "workflow"
      <3>1. Early(r, j) BY <1>2, <1>3, <2>2 DEF PhaseMoves, Early
      <3> QED BY <1>1, <3>1 DEF AnsweredFirst, Early
    <2> QED BY <1>0, <2>1, <2>2 DEF AnsweredFirst
  <1>8. InvokedOnce'
    <2>1. ASSUME NEW r \in Sources, NEW j \in Inner, phase'[r][j] = "execute" PROVE j \in ran'
      BY <1>1, <1>2, <2>1 DEF InvokedOnce, PhaseMoves, HistoryMoves
    <2>2. ASSUME NEW r \in Sources, NEW k \in 1..Len(toSource'[r]), toSource'[r][k].kind = "invoke"
          PROVE  /\ toSource'[r][k].id \notin ran'
                 /\ \A j \in 1..Len(toSource'[r]) : toSource'[r][j] = toSource'[r][k] => j = k
      <3>1. PICK d \in {0, 1} : \A n \in 1..Len(toSource'[r]) :
                n \in Int /\ n + d \in 1..Len(toSource[r]) /\ toSource'[r][n] = toSource[r][n + d]
        BY <1>5
      <3> DEFINE m == toSource'[r][k]
      <3>2. k + d \in 1..Len(toSource[r]) /\ m = toSource[r][k + d] BY <3>1
      <3>3. /\ m.id \notin ran
            /\ \A j \in 1..Len(toSource[r]) : toSource[r][j] = m => j = k + d
            /\ call[m.id].source = r
        BY <1>1, <2>2, <3>2 DEF InvokedOnce, AtHome
      <3>4. toSource'[r] \in Seq(Requests) BY DEF TypeOK, WireTypeOK
      <3>5. m \in Requests BY <3>4
      <3>6. m = Request("invoke", m.id) /\ m.id \in Inner BY <2>2, <3>5, RequestEq
      <3>7. ASSUME m.id \in ran' PROVE FALSE
        <4>1. m.id = i /\ ~Asking(s, i, "invoke")' BY <1>2, <3>3, <3>7 DEF HistoryMoves
        <4>2. r = s BY <1>2, <3>3, <4>1
        <4>3. m = Request("invoke", i) BY <3>6, <4>1
        <4>4. Asking(r, i, "invoke")' BY <4>3 DEF Asking
        <4> QED BY <4>1, <4>2, <4>4
      <3>8. ASSUME NEW j \in 1..Len(toSource'[r]), toSource'[r][j] = m PROVE j = k
        <4>1. j + d \in 1..Len(toSource[r]) /\ toSource[r][j + d] = m /\ j \in Int /\ k \in Int
          BY <3>1, <3>8
        <4>2. j + d = k + d BY <3>3, <4>1
        <4> QED BY <4>1, <4>2
      <3> QED BY <3>7, <3>8
    <2> QED BY <2>1, <2>2 DEF InvokedOnce
  <1>9. CancelIsLast'
    <2> SUFFICES ASSUME NEW r \in Sources, NEW k \in 1..Len(toSource'[r]), toSource'[r][k].kind = "cancel"
                 PROVE  /\ toSource'[r][k].id \notin pending
                        /\ \A j \in 1..Len(toSource'[r]) :
                              toSource'[r][j].id = toSource'[r][k].id /\ toSource'[r][j].kind # "cancel" => j < k
      BY <1>0 DEF CancelIsLast
    <2>1. PICK d \in {0, 1} : \A n \in 1..Len(toSource'[r]) :
              n \in Int /\ n + d \in 1..Len(toSource[r]) /\ toSource'[r][n] = toSource[r][n + d]
      BY <1>5
    <2> DEFINE m == toSource'[r][k]
    <2>2. k + d \in 1..Len(toSource[r]) /\ m = toSource[r][k + d] BY <2>1
    <2>3. /\ m.id \notin pending
          /\ \A j \in 1..Len(toSource[r]) :
                toSource[r][j].id = m.id /\ toSource[r][j].kind # "cancel" => j < k + d
      BY <1>1, <2>2 DEF CancelIsLast
    <2>4. ASSUME NEW j \in 1..Len(toSource'[r]), toSource'[r][j].id = m.id, toSource'[r][j].kind # "cancel"
          PROVE  j < k
      <3>1. j + d \in 1..Len(toSource[r]) /\ toSource'[r][j] = toSource[r][j + d] /\ j \in Int /\ k \in Int
        BY <2>1
      <3>2. j + d < k + d BY <2>3, <2>4, <3>1
      <3> QED BY <3>1, <3>2
    <2> QED BY <2>3, <2>4
  <1>10. ResultsFinal'
    <2> SUFFICES ASSUME NEW r \in Sources, NEW k \in 1..Len(fromSource'[r]), NEW j, NEW how,
                        fromSource'[r][k].kind = "result",
                        j = fromSource'[r][k].id, how = fromSource'[r][k].how
                 PROVE  ResultIsFinal(j, how)'
      BY Zenon DEF ResultsFinal, ResultIsFinal, Asking
    <2>0. CASE j \in cut'
      <3>1. j \in DOMAIN call
        <4>1. CASE j = i BY <1>2, <4>1
        <4>2. CASE j # i
          <5>1. PICK n \in 1..Len(fromSource[r]) : fromSource'[r][k] = fromSource[r][n]
            BY <1>2, <4>2 DEF ReportsMove
          <5> QED BY <1>1, <5>1 DEF ResultsFinal, ResultIsFinal
        <4> QED BY <4>1, <4>2
      <3> QED BY <1>0, <2>0, <3>1 DEF ResultIsFinal
    <2>1. CASE j \notin cut' /\ \E n \in 1..Len(fromSource[r]) : fromSource'[r][k] = fromSource[r][n]
      <3>1. PICK n \in 1..Len(fromSource[r]) : fromSource'[r][k] = fromSource[r][n] BY <2>1
      <3>2. ResultIsFinal(j, how) /\ j \notin cut BY <1>1, <1>2, <2>1, <3>1, Zenon DEF ResultsFinal
      <3>3. /\ j \in DOMAIN call /\ (assessed[j] = "none" \/ j \in forwarded)
            /\ how = "refused" => j \notin ran
            /\ \A q \in Sources : ~Working(q, j)
        BY <3>2 DEF ResultIsFinal, Working
      <3>4. j \in Inner BY <3>3, Minted
      <3>5. assessed'[j] = assessed[j] BY <1>2, <3>3, <3>4 DEF HistoryMoves, Early, Working
      <3>6. j \in ran' => j \in ran BY <1>2, <3>3 DEF HistoryMoves, Working
      <3>7. \A q \in Sources : phase'[q][j] = "none"
        BY <1>2, <3>3, <3>4 DEF PhaseMoves, Working
      <3>8. \A q \in Sources : ~Asking(q, j, "prepare")' /\ ~Asking(q, j, "invoke")'
        BY <1>3, <3>3 DEF Working
      <3> QED BY <1>0, <3>3, <3>5, <3>6, <3>7, <3>8 DEF ResultIsFinal
    <2>2. CASE j = i /\ LastWord(s, i, how) /\ j \notin cut'
      <3>1. /\ phase'[s][i] = "none" /\ ~Asking(s, i, "prepare")' /\ ~Asking(s, i, "invoke")'
            /\ assessed'[i] = "none" \/ i \in forwarded
            /\ how = "refused" => i \notin ran'
        BY <2>2 DEF LastWord
      <3>2. ASSUME NEW q \in Sources, q # s
            PROVE  phase'[q][i] = "none" /\ ~Asking(q, i, "prepare")' /\ ~Asking(q, i, "invoke")'
        <4>1. phase[q][i] = "none" BY <1>1, <1>2, <3>2 DEF AtHome
        <4>2. \A kind : ~Asking(q, i, kind) BY <1>1, <1>2, <3>2, AskingFacts
        <4> QED BY <1>2, <1>3, <3>2, <4>1, <4>2 DEF PhaseMoves
      <3> QED BY <1>0, <1>2, <2>2, <3>1, <3>2 DEF ResultIsFinal
    <2> QED BY <1>2, <2>0, <2>1, <2>2 DEF ReportsMove
  <1>11. WorkTracked'
    <2> SUFFICES ASSUME NEW r \in Sources, NEW j \in Inner,
                        phase'[r][j] # "none" \/ Asking(r, j, "prepare")' \/ Asking(r, j, "invoke")'
                 PROVE  j \in pending \/ Asking(r, j, "cancel")' \/ Abandoned(j) \/ Revived(j) \/ gate = "failed"
      BY <1>0, <1>2 DEF WorkTracked, Abandoned, Revived
    <2>1. Working(r, j) BY <1>2, <1>3 DEF PhaseMoves, Working
    <2>2. j \in pending \/ Asking(r, j, "cancel") \/ Abandoned(j) \/ Revived(j) \/ gate = "failed"
      BY <1>1, <2>1 DEF WorkTracked, Working
    <2>3. Asking(r, j, "cancel") => Asking(r, j, "cancel")' BY <1>2 DEF RequestsMove
    <2> QED BY <2>2, <2>3
  <1>12. OneEach' BY <1>0, <1>1 DEF OneEach
  <1>13. ToldTruly'
    <2> SUFFICES ASSUME NEW j \in DOMAIN call, "refused" \in Range(told[call[j].outer]), j \notin cut
                 PROVE  j \notin ran' /\ \A r \in Sources : ~Asking(r, j, "invoke")'
      BY <1>0, <1>1, <1>2 DEF ToldTruly
    <2>1. j \notin ran /\ \A r \in Sources : ~Asking(r, j, "invoke") BY <1>1 DEF ToldTruly
    <2> QED BY <1>2, <1>3, <2>1 DEF HistoryMoves
  <1>14. UnsettledIsHeld' BY <1>0, <1>1 DEF UnsettledIsHeld, Running
  <1>15. NothingStranded'
    <2> SUFFICES ASSUME gate = "running", NEW j \in pending
                 PROVE  \/ j \in preparing /\ (Sent(j, "prepare")' \/ InPhase(j, "prepare")'
                                                \/ Heard(j, "prepared")' \/ Heard(j, "result")')
                        \/ awaiting[call[j].outer] = j
                        \/ j \in forwarded /\ (Sent(j, "invoke")' \/ InPhase(j, "execute")'
                                                \/ Heard(j, "result")')
      BY <1>0 DEF NothingStranded, Running
    <2>1. j \in Inner BY DEF TypeOK, GateTypeOK
    <2>2. \A kind : Heard(j, kind) => Heard(j, kind)' BY <1>2, HeardStays
    <2>3. ASSUME NEW r \in Sources, Early(r, j), j \in preparing
          PROVE  Sent(j, "prepare")' \/ InPhase(j, "prepare")' \/ Heard(j, "prepared")' \/ Heard(j, "result")'
      <3>1. CASE r = s /\ j = i BY <1>2, <2>3, <3>1 DEF WaitMoves, Early, Sent, InPhase
      <3>2. CASE r # s \/ j # i
        <4>1. phase'[r][j] = phase[r][j] BY <1>2, <2>1, <3>2 DEF PhaseMoves
        <4>2. Asking(r, j, "prepare") => Asking(r, j, "prepare")' BY <1>2, <2>1, <3>2 DEF RequestsMove
        <4> QED BY <2>3, <4>1, <4>2 DEF Early, Sent, InPhase
      <3> QED BY <3>1, <3>2
    <2>4. ASSUME NEW r \in Sources, Late(r, j)
          PROVE  Sent(j, "invoke")' \/ InPhase(j, "execute")' \/ Heard(j, "result")'
      <3>1. CASE r = s /\ j = i BY <1>2, <2>4, <3>1 DEF WaitMoves, Late, Sent, InPhase
      <3>2. CASE r # s \/ j # i
        <4>1. phase'[r][j] = phase[r][j] BY <1>2, <2>1, <3>2 DEF PhaseMoves
        <4>2. Asking(r, j, "invoke") => Asking(r, j, "invoke")' BY <1>2, <2>1, <3>2 DEF RequestsMove
        <4> QED BY <2>4, <4>1, <4>2 DEF Late, Sent, InPhase
      <3> QED BY <3>1, <3>2
    <2>5. \/ j \in preparing /\ (Sent(j, "prepare") \/ InPhase(j, "prepare")
                                  \/ Heard(j, "prepared") \/ Heard(j, "result"))
          \/ awaiting[call[j].outer] = j
          \/ j \in forwarded /\ (Sent(j, "invoke") \/ InPhase(j, "execute") \/ Heard(j, "result"))
      BY <1>1 DEF NothingStranded, Running
    <2>6. Sent(j, "prepare") \/ InPhase(j, "prepare") => \E r \in Sources : Early(r, j)
      BY DEF Sent, InPhase, Early
    <2>7. Sent(j, "invoke") \/ InPhase(j, "execute") => \E r \in Sources : Late(r, j)
      BY DEF Sent, InPhase, Late
    <2> QED BY <2>2, <2>3, <2>4, <2>5, <2>6, <2>7
  <1>16. CutIsAnswered'
    <2>1. ASSUME NEW r \in Sources, NEW j \in Inner, phase'[r][j] = "prepared" PROVE assessed'[j] # "none"
      BY <1>1, <1>2, <1>4, <2>1 DEF CutIsAnswered, PhaseMoves
    <2>2. ASSUME NEW j \in cut'
          PROVE  assessed'[j] # "none" /\ \A r \in Sources : phase'[r][j] # "prepared"
      <3>0. j \in Inner BY DEF TypeOK, SourceTypeOK
      <3>1. CASE j \in cut
        <4>1. assessed[j] # "none" /\ \A r \in Sources : phase[r][j] # "prepared"
          BY <1>1, <3>1 DEF CutIsAnswered
        <4>2. ASSUME NEW r \in Sources, phase'[r][j] = "prepared" PROVE FALSE
          <5>1. Early(s, j) BY <1>2, <3>0, <4>1, <4>2 DEF PhaseMoves
          <5> QED BY <3>0, <4>1, <5>1, EarlyFacts
        <4> QED BY <1>4, <3>0, <4>1, <4>2
      <3>2. CASE j \notin cut
        <4>1. j = i /\ phase[s][i] = "prepared" /\ phase'[s][i] = "none"
          BY <1>2, <3>2 DEF CutMoves
        <4>2. assessed[i] # "none" BY <1>1, <4>1 DEF CutIsAnswered
        <4>3. ASSUME NEW r \in Sources, r # s PROVE phase'[r][i] # "prepared"
          BY <1>1, <1>2, <4>3 DEF AtHome, PhaseMoves
        <4> QED BY <1>4, <3>0, <4>1, <4>2, <4>3
      <3> QED BY <3>1, <3>2
    <2> QED BY <2>1, <2>2 DEF CutIsAnswered
  <1> QED BY <1>16, <1>6, <1>7, <1>8, <1>9, <1>10, <1>11, <1>12, <1>13, <1>14, <1>15 DEF LifeInv
LEMMA Emitted ==
    ASSUME TypeOK, NEW s \in Sources, NEW m \in Reports, Emit(s, m)
    PROVE  /\ \A r \in Sources : \A j \in 1..Len(fromSource[r]) :
                 \E k \in 1..Len(fromSource'[r]) : fromSource'[r][k] = fromSource[r][j]
           /\ \A r \in Sources : \A k \in 1..Len(fromSource'[r]) :
                 \/ \E j \in 1..Len(fromSource[r]) : fromSource'[r][k] = fromSource[r][j]
                 \/ fromSource'[r][k] = m
           /\ Heard(m.id, m.kind)'
  <1>1. fromSource[s] \in Seq(Reports) BY DEF TypeOK, WireTypeOK
  <1>2. /\ fromSource'[s] = Append(fromSource[s], m)
        /\ \A r \in Sources : r # s => fromSource'[r] = fromSource[r]
    BY DEF Emit, TypeOK, WireTypeOK
  <1>3. /\ Len(Append(fromSource[s], m)) = Len(fromSource[s]) + 1
        /\ \A k \in 1..Len(fromSource[s]) : Append(fromSource[s], m)[k] = fromSource[s][k]
        /\ Append(fromSource[s], m)[Len(fromSource[s]) + 1] = m
        /\ Len(fromSource[s]) \in Nat
    BY <1>1, AppendFacts
  <1>4. /\ \A k \in 1..Len(fromSource[s]) : k \in 1..Len(fromSource'[s])
        /\ Len(fromSource[s]) + 1 \in 1..Len(fromSource'[s])
    BY <1>2, <1>3
  <1>5. ASSUME NEW r \in Sources, NEW j \in 1..Len(fromSource[r])
        PROVE  \E k \in 1..Len(fromSource'[r]) : fromSource'[r][k] = fromSource[r][j]
    <2>1. CASE r = s BY <1>2, <1>3, <1>4, <2>1, Zenon
    <2>2. CASE r # s BY <1>2, <2>2, Zenon
    <2> QED BY <2>1, <2>2
  <1>6. ASSUME NEW a, NEW b, a = m.id, b = m.kind PROVE Heard(a, b)'
    <2>1. fromSource'[s][Len(fromSource[s]) + 1] = m BY <1>2, <1>3
    <2> QED BY <1>4, <1>6, <2>1, Zenon DEF Heard
  <1>7. \A r \in Sources : \A k \in 1..Len(fromSource'[r]) :
            \/ \E j \in 1..Len(fromSource[r]) : fromSource'[r][k] = fromSource[r][j]
            \/ fromSource'[r][k] = m
    BY EmittedLast
  <1> QED BY <1>5, <1>6, <1>7

LEMMA NothingEmitted ==
    ASSUME UNCHANGED fromSource, NEW s, NEW i PROVE ReportsMove(s, i)
  BY DEF ReportsMove

LEMMA EnterMoves ==
    ASSUME TypeOK, NEW s \in Sources, NEW i \in Inner, NEW p \in Phases, Enter(s, i, p)
    PROVE  /\ phase'[s][i] = p
           /\ \A r \in Sources, j \in Inner : r # s \/ j # i => phase'[r][j] = phase[r][j]
  BY DEF Enter, TypeOK, SourceTypeOK

\* What taking the prepare request, or nothing when the call is being
\* prepared, leaves of an undecided call.
LEMMA UndecidedMoves ==
    ASSUME TypeOK, DecisionInv, HoldInv, LifeInv, NEW s \in Sources, NEW i \in Inner, Early(s, i),
           RequestsDropped, ~Asking(s, i, "prepare")',
           \A r \in Sources, j \in Inner : \A k :
              Asking(r, j, k) => Asking(r, j, k)' \/ (r = s /\ j = i /\ k = "prepare"),
           UNCHANGED <<ran, cut, gateVars>>,
           \/ Settle(s, i, "refused") /\ UNCHANGED assessed
           \/ \E a \in SourceAnswers : Answer(s, i, a)
           \/ Enter(s, i, "prepare") /\ UNCHANGED <<assessed, fromSource>>
    PROVE  SourceMove(s, i)
  <1>1. /\ i \in DOMAIN call /\ call[i].source = s /\ assessed[i] = "none"
        /\ i \notin forwarded /\ i \notin ran /\ \A r \in Sources : ~Asking(r, i, "invoke")
    BY EarlyFacts
  <1>2. RequestsMove(s, i) BY DEF RequestsMove
  <1>3. ~Late(s, i) BY <1>1, LateFacts
  <1>4. ~Asking(s, i, "invoke")' BY <1>1, DroppedAsking
  <1>5. Working(s, i) BY DEF Early, Working
  <1>6. ran' = ran OBVIOUS
  <1>7. CASE Settle(s, i, "refused") /\ UNCHANGED assessed
    <2> DEFINE m == Result(i, "refused")
    <2>1. m \in Reports /\ m.kind = "result" /\ m.id = i /\ m.how = "refused"
      BY DEF Result, Reports
    <2> HIDE DEF m
    <2>2. Enter(s, i, "none") /\ Emit(s, m) BY <1>7 DEF Settle, m
    <2>3. /\ phase'[s][i] = "none"
          /\ \A r \in Sources, j \in Inner : r # s \/ j # i => phase'[r][j] = phase[r][j]
      BY <2>2, EnterMoves DEF Phases
    <2>4. PhaseMoves(s, i) BY <2>3 DEF PhaseMoves
    <2>5. HistoryMoves(s, i) BY <1>6, <1>7 DEF HistoryMoves
    <2>6. LastWord(s, i, "refused") BY <1>1, <1>4, <1>6, <1>7, <2>3 DEF LastWord
    <2>7. ReportsMove(s, i) BY <2>1, <2>2, <2>6, Emitted DEF ReportsMove
    <2>8. Heard(i, "result")' BY <2>1, <2>2, Emitted
    <2>9. WaitMoves(s, i) BY <1>3, <2>8 DEF WaitMoves
    <2> QED BY <1>1, <1>2, <2>4, <2>5, <2>7, <2>9 DEF SourceMove, CutMoves
  <1>8. ASSUME NEW a \in SourceAnswers, Answer(s, i, a) PROVE SourceMove(s, i)
    <2> DEFINE m == Prepared(i, a)
    <2>1. m \in Reports /\ m.kind = "prepared" /\ m.id = i
      <3>1. a \in Answers BY DEF SourceAnswers, Answers
      <3> QED BY <3>1 DEF Prepared, Reports
    <2> HIDE DEF m
    <2>2. Enter(s, i, "prepared") /\ Emit(s, m) /\ assessed' = [assessed EXCEPT ![i] = a]
      BY <1>8 DEF Answer, m
    <2>3. /\ phase'[s][i] = "prepared"
          /\ \A r \in Sources, j \in Inner : r # s \/ j # i => phase'[r][j] = phase[r][j]
      BY <2>2, EnterMoves DEF Phases
    <2>10. assessed'[i] # "none"
      <3>1. assessed'[i] = a BY <2>2 DEF TypeOK, SourceTypeOK
      <3> QED BY <3>1 DEF SourceAnswers
    <2>4. PhaseMoves(s, i) BY <1>5, <2>3, <2>10 DEF PhaseMoves
    <2>5. \A j \in Inner : j # i => assessed'[j] = assessed[j] BY <2>2 DEF TypeOK, SourceTypeOK
    <2>6. HistoryMoves(s, i) BY <1>1, <1>6, <2>5 DEF HistoryMoves
    <2>7. ReportsMove(s, i) BY <2>1, <2>2, Emitted DEF ReportsMove
    <2>8. Heard(i, "prepared")' BY <2>1, <2>2, Emitted
    <2>9. WaitMoves(s, i) BY <1>3, <2>8 DEF WaitMoves
    <2> QED BY <1>1, <1>2, <2>4, <2>6, <2>7, <2>9 DEF SourceMove, CutMoves
  <1>9. CASE Enter(s, i, "prepare") /\ UNCHANGED <<assessed, fromSource>>
    <2>1. /\ phase'[s][i] = "prepare"
          /\ \A r \in Sources, j \in Inner : r # s \/ j # i => phase'[r][j] = phase[r][j]
      BY <1>9, EnterMoves DEF Phases
    <2>2. PhaseMoves(s, i) BY <1>5, <2>1 DEF PhaseMoves
    <2>3. HistoryMoves(s, i) BY <1>6, <1>9 DEF HistoryMoves
    <2>4. ReportsMove(s, i) BY <1>9, NothingEmitted
    <2>5. WaitMoves(s, i) BY <1>3, <2>1 DEF WaitMoves, Early
    <2> QED BY <1>1, <1>2, <2>2, <2>3, <2>4, <2>5 DEF SourceMove, CutMoves
  <1> QED BY <1>7, <1>8, <1>9

\* The same for a call that has been forwarded.
LEMMA ForwardedMoves ==
    ASSUME TypeOK, DecisionInv, HoldInv, LifeInv, NEW s \in Sources, NEW i \in Inner, Late(s, i),
           RequestsDropped, ~Asking(s, i, "invoke")',
           \A r \in Sources, j \in Inner : \A k :
              Asking(r, j, k) => Asking(r, j, k)' \/ (r = s /\ j = i /\ k = "invoke"),
           UNCHANGED <<assessed, cut, gateVars>>,
           \/ Settle(s, i, "refused") /\ i \notin ran /\ UNCHANGED ran
           \/ Settle(s, i, "ended") /\ UNCHANGED ran
           \/ Settle(s, i, "ended") /\ Asking(s, i, "invoke") /\ ran' = ran \cup {i}
           \/ Enter(s, i, "execute") /\ Asking(s, i, "invoke") /\ ran' = ran \cup {i} /\ UNCHANGED fromSource
    PROVE  SourceMove(s, i)
  <1>1. /\ i \in DOMAIN call /\ call[i].source = s /\ i \in forwarded
        /\ \A r \in Sources : ~Early(r, i)
    BY LateFacts
  <1>2. RequestsMove(s, i) BY DEF RequestsMove
  <1>3. ~Asking(s, i, "prepare")' BY <1>1, DroppedAsking DEF Early
  <1>4. Working(s, i) BY DEF Late, Working
  <1>5. HistoryMoves(s, i) BY DEF HistoryMoves
  <1>6. ASSUME NEW how \in {"refused", "ended"}, Settle(s, i, how), how = "refused" => i \notin ran'
        PROVE  SourceMove(s, i)
    <2> DEFINE m == Result(i, how)
    <2>1. m \in Reports /\ m.kind = "result" /\ m.id = i /\ m.how = how
      BY DEF Result, Reports
    <2> HIDE DEF m
    <2>2. Enter(s, i, "none") /\ Emit(s, m) BY <1>6 DEF Settle, m
    <2>3. /\ phase'[s][i] = "none"
          /\ \A r \in Sources, j \in Inner : r # s \/ j # i => phase'[r][j] = phase[r][j]
      BY <2>2, EnterMoves DEF Phases
    <2>4. PhaseMoves(s, i) BY <2>3 DEF PhaseMoves
    <2>5. LastWord(s, i, how) BY <1>1, <1>3, <1>6, <2>3 DEF LastWord
    <2>6. ReportsMove(s, i) BY <2>1, <2>2, <2>5, Emitted DEF ReportsMove
    <2>7. Heard(i, "result")' BY <2>1, <2>2, Emitted
    <2>8. WaitMoves(s, i) BY <1>1, <2>7 DEF WaitMoves
    <2> QED BY <1>1, <1>2, <1>5, <2>4, <2>6, <2>8 DEF SourceMove, CutMoves
  <1>7. CASE Enter(s, i, "execute") /\ ran' = ran \cup {i} /\ UNCHANGED fromSource
    <2>1. /\ phase'[s][i] = "execute"
          /\ \A r \in Sources, j \in Inner : r # s \/ j # i => phase'[r][j] = phase[r][j]
      BY <1>7, EnterMoves DEF Phases
    <2>2. PhaseMoves(s, i) BY <1>4, <1>7, <2>1 DEF PhaseMoves
    <2>3. ReportsMove(s, i) BY <1>7, NothingEmitted
    <2>4. WaitMoves(s, i) BY <1>1, <2>1 DEF WaitMoves, Late
    <2> QED BY <1>1, <1>2, <1>5, <2>2, <2>3, <2>4 DEF SourceMove, CutMoves
  <1> QED BY <1>6, <1>7

LEMMA SourceStepMoves ==
    ASSUME TypeOK, DecisionInv, HoldInv, LifeInv, StreamsLate, UNCHANGED gateVars,
           NEW s \in Sources, SourceReceives(s) \/ SourceActs(s)
    PROVE  \E i \in Inner : SourceMove(s, i)
  <1>1. ASSUME ReceivePrepare(s) PROVE \E i \in Inner : SourceMove(s, i)
    <2>1. PICK i : i = Head(toSource[s]).id OBVIOUS
    <2>2. Addressed(s, "prepare") /\ Take(s) /\ ran' = ran /\ cut' = cut BY <1>1 DEF ReceivePrepare
    <2>3. \/ Settle(s, i, "refused") /\ UNCHANGED assessed
          \/ \E a \in SourceAnswers : Answer(s, i, a)
          \/ Enter(s, i, "prepare") /\ UNCHANGED <<assessed, fromSource>>
      BY <1>1, <2>1, Zenon DEF ReceivePrepare
    <2>4. /\ i \in Inner /\ Early(s, i) /\ RequestsDropped /\ ~Asking(s, i, "prepare")'
          /\ \A r \in Sources, j \in Inner : \A k :
                Asking(r, j, k) => Asking(r, j, k)' \/ (r = s /\ j = i /\ k = "prepare")
      BY <2>1, <2>2, TakenHead DEF Early
    <2>5. SourceMove(s, i) BY <2>2, <2>3, <2>4, UndecidedMoves
    <2> QED BY <2>4, <2>5
  <1>2. ASSUME NEW i \in Inner, DecideLater(s, i) PROVE SourceMove(s, i)
    <2>1. /\ phase[s][i] = "prepare" /\ UNCHANGED toSource /\ ran' = ran /\ cut' = cut
          /\ \E a \in SourceAnswers : Answer(s, i, a)
      BY <1>2 DEF DecideLater
    <2>2. ~Asking(s, i, "prepare")
      BY <2>1 DEF DecisionInv, PreparationsJustified, Asking
    <2> QED BY <2>1, <2>2, NothingTaken, UndecidedMoves DEF Early
  <1>3. ASSUME ReceiveInvoke(s) PROVE \E i \in Inner : SourceMove(s, i)
    <2>1. PICK i : i = Head(toSource[s]).id OBVIOUS
    <2>2. Addressed(s, "invoke") /\ Take(s) /\ assessed' = assessed /\ cut' = cut BY <1>3 DEF ReceiveInvoke
    <2>3. \/ Settle(s, i, "refused") /\ UNCHANGED ran
          \/ Settle(s, i, "ended") /\ ran' = ran \cup {i}
          \/ Enter(s, i, "execute") /\ ran' = ran \cup {i} /\ UNCHANGED fromSource
      BY <1>3, <2>1, Zenon DEF ReceiveInvoke
    <2>4. /\ i \in Inner /\ Asking(s, i, "invoke") /\ RequestsDropped /\ ~Asking(s, i, "invoke")'
          /\ \A r \in Sources, j \in Inner : \A k :
                Asking(r, j, k) => Asking(r, j, k)' \/ (r = s /\ j = i /\ k = "invoke")
      BY <2>1, <2>2, TakenHead
    <2>5. i \notin ran
      <3>1. PICK k \in 1..Len(toSource[s]) : toSource[s][k] = Request("invoke", i)
        BY <2>4 DEF Asking
      <3>2. toSource[s][k].kind = "invoke" /\ toSource[s][k].id = i BY <3>1 DEF Request
      <3>3. toSource[s][k].id \notin ran BY <3>2 DEF LifeInv, InvokedOnce
      <3> QED BY <3>2, <3>3
    <2>6. SourceMove(s, i) BY <2>2, <2>3, <2>4, <2>5, ForwardedMoves DEF Late
    <2> QED BY <2>4, <2>6
  <1>4. ASSUME ReceiveCancel(s) PROVE \E i \in Inner : SourceMove(s, i)
    <2>1. PICK i : i = Head(toSource[s]).id OBVIOUS
    <2>2. /\ Addressed(s, "cancel") /\ Take(s) /\ Enter(s, i, "none")
          /\ UNCHANGED <<fromSource, assessed, ran, cut>>
      BY <1>4, <2>1 DEF ReceiveCancel
    <2>3. /\ i \in Inner /\ Asking(s, i, "cancel") /\ RequestsDropped /\ i \notin pending
          /\ ~Asking(s, i, "prepare")' /\ ~Asking(s, i, "invoke")'
          /\ \A r \in Sources, j \in Inner : \A k :
                Asking(r, j, k) => Asking(r, j, k)' \/ (r = s /\ j = i /\ k = "cancel")
      BY <2>1, <2>2, TakenHead
    <2>4. i \in DOMAIN call /\ call[i].source = s BY <2>3, AskingFacts DEF LifeInv
    <2>5. /\ phase'[s][i] = "none"
          /\ \A r \in Sources, j \in Inner : r # s \/ j # i => phase'[r][j] = phase[r][j]
      BY <2>2, <2>3, EnterMoves DEF Phases
    <2>6. RequestsMove(s, i) /\ PhaseMoves(s, i) BY <2>3, <2>5 DEF RequestsMove, PhaseMoves
    <2>7. HistoryMoves(s, i) /\ ReportsMove(s, i) BY <2>2, NothingEmitted DEF HistoryMoves
    <2>8. i \notin preparing BY <2>3, HeldFacts
    <2>9. WaitMoves(s, i) BY <2>3, <2>8 DEF WaitMoves
    <2> QED BY <2>2, <2>3, <2>4, <2>6, <2>7, <2>9 DEF SourceMove, CutMoves
  <1>5. ASSUME NEW i \in Inner, EndCall(s, i) PROVE SourceMove(s, i)
    <2>1. UNCHANGED <<toSource, assessed, ran>> BY <1>5 DEF EndCall
    <2>2. \/ phase[s][i] = "execute" /\ Settle(s, i, "ended") /\ cut' = cut
          \/ phase[s][i] = "prepare" /\ Settle(s, i, "refused") /\ cut' = cut
          \/ phase[s][i] = "prepared" /\ Settle(s, i, "refused") /\ cut' = cut \cup {i}
      BY <1>5 DEF EndCall
    <2>3. CASE phase[s][i] = "execute" /\ Settle(s, i, "ended") /\ cut' = cut
      <3>1. ~Asking(s, i, "invoke")
        <4>1. i \in ran BY <2>3 DEF LifeInv, InvokedOnce
        <4> SUFFICES ASSUME Asking(s, i, "invoke") PROVE FALSE OBVIOUS
        <4>2. PICK k \in 1..Len(toSource[s]) : toSource[s][k] = Request("invoke", i) BY DEF Asking
        <4>3. toSource[s][k].kind = "invoke" /\ toSource[s][k].id = i BY <4>2 DEF Request
        <4>4. toSource[s][k].id \notin ran BY <4>3 DEF LifeInv, InvokedOnce
        <4> QED BY <4>1, <4>3, <4>4
      <3> QED BY <2>1, <2>3, <3>1, NothingTaken, ForwardedMoves DEF Late
    <2>4. CASE phase[s][i] = "prepare" /\ Settle(s, i, "refused") /\ cut' = cut
      <3>1. ~Asking(s, i, "prepare")
        BY <2>4 DEF DecisionInv, PreparationsJustified, Asking
      <3> QED BY <2>1, <2>4, <3>1, NothingTaken, UndecidedMoves DEF Early
    <2>5. CASE phase[s][i] = "prepared" /\ Settle(s, i, "refused") /\ cut' = cut \cup {i}
      <3> DEFINE m == Result(i, "refused")
      <3>1. m \in Reports /\ m.kind = "result" /\ m.id = i BY DEF Result, Reports
      <3> HIDE DEF m
      <3>2. Enter(s, i, "none") /\ Emit(s, m) BY <2>5 DEF Settle, m
      <3>3. /\ phase'[s][i] = "none"
            /\ \A r \in Sources, j \in Inner : r # s \/ j # i => phase'[r][j] = phase[r][j]
        BY <3>2, EnterMoves DEF Phases
      <3>4. i \in DOMAIN call /\ call[i].source = s BY <2>5 DEF LifeInv, AtHome
      <3>5. RequestsMove(s, i) BY <2>1, <3>3, NothingTaken DEF RequestsMove
      <3>6. PhaseMoves(s, i) /\ CutMoves(s, i) BY <2>5, <3>3 DEF PhaseMoves, CutMoves
      <3>7. HistoryMoves(s, i) BY <2>1 DEF HistoryMoves
      <3>8. ReportsMove(s, i) BY <2>5, <3>1, <3>2, Emitted DEF ReportsMove
      <3>9. Heard(i, "result")' BY <3>1, <3>2, Emitted
      <3>10. WaitMoves(s, i) BY <3>9 DEF WaitMoves
      <3> QED BY <3>4, <3>5, <3>6, <3>7, <3>8, <3>10 DEF SourceMove
    <2> QED BY <2>2, <2>3, <2>4, <2>5
  <1>6. ASSUME NEW i \in Inner, EmitStream(s, i) PROVE SourceMove(s, i)
    <2> DEFINE m == Stream(i)
    <2>1. m \in Reports /\ m.kind = "stream" BY DEF Stream, Reports
    <2> HIDE DEF m
    <2>2. /\ phase[s][i] = "execute" /\ Emit(s, m)
          /\ UNCHANGED <<toSource, phase, assessed, ran, cut>>
      BY <1>6 DEF EmitStream, StreamsLate, m
    <2>3. i \in DOMAIN call /\ call[i].source = s BY <2>2 DEF LifeInv, AtHome
    <2>4. i \in ran BY <2>2 DEF LifeInv, InvokedOnce
    <2>5. RequestsMove(s, i) BY <2>2, NothingTaken DEF RequestsMove
    <2>6. PhaseMoves(s, i) BY <2>2, <2>4 DEF PhaseMoves, Working
    <2>7. HistoryMoves(s, i) BY <2>2 DEF HistoryMoves
    <2>8. ReportsMove(s, i) BY <2>1, <2>2, Emitted DEF ReportsMove
    <2>9. ~Early(s, i) BY <2>2, LateFacts DEF Late
    <2>10. WaitMoves(s, i) BY <2>2, <2>9 DEF WaitMoves, Late
    <2> QED BY <2>2, <2>3, <2>5, <2>6, <2>7, <2>8, <2>10 DEF SourceMove, CutMoves
  <1> QED BY <1>1, <1>2, <1>3, <1>4, <1>5, <1>6, Zenon DEF SourceReceives, SourceActs

LEMMA LifeInit == Init => LifeInv
  <1> SUFFICES ASSUME Init PROVE LifeInv OBVIOUS
  <1> USE DEF Init, WireInit, GateInit, SourceInit
  <1>1. \A s \in Sources : Len(toSource[s]) = 0 /\ Len(fromSource[s]) = 0 OBVIOUS
  <1>2. /\ pending = {} /\ forwarded = {} /\ DOMAIN call = {}
        /\ \A s \in Sources, i \in Inner : phase[s][i] = "none"
    OBVIOUS
  <1>3. \A s \in Sources, i \in Inner : \A k : ~Asking(s, i, k) BY <1>1 DEF Asking
  <1>4. AtHome /\ InvokedOnce /\ CancelIsLast BY <1>1, <1>2 DEF AtHome, InvokedOnce, CancelIsLast
  <1>5. ResultsFinal BY <1>1 DEF ResultsFinal
  <1>6. AnsweredFirst BY <1>2, <1>3 DEF AnsweredFirst
  <1>7. WorkTracked BY <1>2, <1>3 DEF WorkTracked
  <1>8. OneEach /\ ToldTruly BY <1>2 DEF OneEach, ToldTruly
  <1>12. CutIsAnswered BY <1>2 DEF CutIsAnswered
  <1>9. \A o \in Outer : Len(told[o]) = 0 /\ asked[o] = 0 OBVIOUS
  <1>10. UnsettledIsHeld BY <1>9 DEF UnsettledIsHeld
  <1>11. NothingStranded BY <1>2 DEF NothingStranded
  <1> QED BY <1>4, <1>5, <1>6, <1>7, <1>8, <1>10, <1>11, <1>12 DEF LifeInv

LEMMA StutterKeepsLife ==
    ASSUME LifeInv, UNCHANGED vars PROVE LifeInv'
  <1>1. /\ call' = call /\ pending' = pending /\ preparing' = preparing /\ forwarded' = forwarded
        /\ awaiting' = awaiting /\ told' = told /\ asked' = asked /\ gate' = gate
        /\ toSource' = toSource /\ fromSource' = fromSource
        /\ phase' = phase /\ assessed' = assessed /\ ran' = ran /\ cut' = cut
    BY DEF vars, gateVars, gateState, gateHistory, wire, sourceVars
  <1>2. \A s, i, k : Asking(s, i, k)' <=> Asking(s, i, k) BY <1>1 DEF Asking
  <1>3. \A i, k : (Sent(i, k)' <=> Sent(i, k)) /\ (Heard(i, k)' <=> Heard(i, k))
    BY <1>1, <1>2 DEF Sent, Heard
  <1>4. \A i, p : InPhase(i, p)' <=> InPhase(i, p) BY <1>1 DEF InPhase
  <1>5. AtHome' /\ AnsweredFirst' BY <1>1, <1>2 DEF LifeInv, AtHome, AnsweredFirst
  <1>6. InvokedOnce' BY <1>1 DEF LifeInv, InvokedOnce
  <1>7. CancelIsLast' BY <1>1 DEF LifeInv, CancelIsLast
  <1>8. ResultsFinal' BY <1>1, <1>2 DEF LifeInv, ResultsFinal, ResultIsFinal
  <1>9. WorkTracked' BY <1>1, <1>2 DEF LifeInv, WorkTracked, Abandoned, Revived
  <1>10. OneEach' /\ ToldTruly' BY <1>1, <1>2 DEF LifeInv, OneEach, ToldTruly
  <1>11. UnsettledIsHeld' BY <1>1 DEF LifeInv, UnsettledIsHeld, Running
  <1>12. NothingStranded' BY <1>1, <1>3, <1>4 DEF LifeInv, NothingStranded, Running
  <1>13. CutIsAnswered' BY <1>1 DEF LifeInv, CutIsAnswered
  <1> QED BY <1>5, <1>6, <1>7, <1>8, <1>9, <1>10, <1>11, <1>12, <1>13 DEF LifeInv

LEMMA LifeStep ==
    ASSUME StreamsLate, MaxUses = 1
    PROVE  TypeOK /\ TypeOK' /\ DecisionInv /\ HoldInv /\ LifeInv /\ [Next]_vars => LifeInv'
  <1> SUFFICES ASSUME TypeOK, TypeOK', DecisionInv, HoldInv, LifeInv, [Next]_vars PROVE LifeInv'
    OBVIOUS
  <1>1. CASE /\ Requested \/ Stop \/ WriterClosed \/ \E s \in Sources : Reported(s)
             /\ UNCHANGED sourceVars
    BY <1>1, GateStepLife
  <1>2. ASSUME NEW s \in Sources, SourceReceives(s) \/ SourceActs(s), UNCHANGED gateVars
        PROVE  LifeInv'
    BY <1>2, SourceStepMoves, SourceKeepsLife
  <1>3. CASE UNCHANGED vars BY <1>3, StutterKeepsLife
  <1> QED BY <1>1, <1>2, <1>3, Zenon DEF Next

\* Where no tool streams before it executes, and an outer id is used once, a
\* caller told that its call was denied or withdrawn has it on the gate's word
\* that the tool never ran, and that word is kept: neither a late approval,
\* answer, mode change nor an invoke still on the wire executes the call.  A
\* refusal by the source is as good, unless the source had prepared the call
\* and ended it while the invoke was under way.
THEOREM NotRunWasNotRun ==
    ASSUME StreamsLate, MaxUses = 1 PROVE Spec => []NotRunMeansNotRun
  <1>1. DecisionInv /\ LifeInv => NotRunMeansNotRun
    <2> SUFFICES ASSUME DecisionInv, LifeInv, NEW i \in ran
                 PROVE  /\ Range(told[call[i].outer]) \cap {"denied", "withdrawn"} = {}
                        /\ "refused" \in Range(told[call[i].outer]) => Revived(i)
      BY DEF NotRunMeansNotRun
    <2>1. i \in forwarded /\ i \in DOMAIN call
      BY DEF DecisionInv, ForwardedAllowed, IdsMinted
    <2>2. /\ Range(told[call[i].outer]) \cap {"denied", "withdrawn"} = {}
          /\ "refused" \in Range(told[call[i].outer]) => i \in cut
      BY <2>1 DEF LifeInv, ToldTruly
    <2> QED BY <2>1, <2>2 DEF Revived
  <1>2. TypeOK /\ DecisionInv /\ HoldInv /\ [Next]_vars => HoldInv' BY HoldStep
  <1>3. TypeOK /\ TypeOK' /\ DecisionInv /\ HoldInv /\ LifeInv /\ [Next]_vars => LifeInv'
    BY LifeStep
  <1> QED BY <1>1, <1>2, <1>3, LifeInit, HoldInit, DecisionInit, DecisionStep,
             ToolCallsTypeCorrect, PTL DEF Spec

\* Under the same conditions gate, caller and source agree on a call: it is
\* held until its caller is told, somebody who holds it can end it, and no
\* source keeps one the gate has forgotten without a cancel on its way, but a
\* call whose invoke the wire rejected (Abandoned), one its source had ended
\* and was asked to invoke nevertheless (Revived), or any when the gate failed.
THEOREM CallsAreHeld ==
    ASSUME StreamsLate, MaxUses = 1 PROVE Spec => []CallsHeld
  <1>1. LifeInv => CallsHeld
    <2> SUFFICES ASSUME LifeInv PROVE SourceWorkTracked BY DEF LifeInv, CallsHeld
    <2> SUFFICES ASSUME NEW i \in Inner, NEW s \in Sources, phase[s][i] # "none"
                 PROVE  \/ i \in pending \/ Sent(i, "cancel") \/ Abandoned(i)
                        \/ Revived(i) \/ gate = "failed"
      BY DEF SourceWorkTracked
    <2>1. i \in pending \/ Asking(s, i, "cancel") \/ Abandoned(i) \/ Revived(i) \/ gate = "failed"
      BY DEF LifeInv, WorkTracked
    <2> QED BY <2>1 DEF Sent
  <1>2. TypeOK /\ DecisionInv /\ HoldInv /\ [Next]_vars => HoldInv' BY HoldStep
  <1>3. TypeOK /\ TypeOK' /\ DecisionInv /\ HoldInv /\ LifeInv /\ [Next]_vars => LifeInv'
    BY LifeStep
  <1> QED BY <1>1, <1>2, <1>3, LifeInit, HoldInit, DecisionInit, DecisionStep,
             ToolCallsTypeCorrect, PTL DEF Spec
=============================================================================
