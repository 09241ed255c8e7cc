---------------------------- MODULE MagRunsProofs ----------------------------
(***************************************************************************)
(* Proofs about MagRuns: for any finite sets of runs and actors, any       *)
(* sessions and any bounds, what the runs check on two of each.            *)
(*                                                                         *)
(* Nothing the module claims "between two events" is inductive, since a    *)
(* handler works one emission at a time and any of them may be refused.    *)
(* The argument is that the handler's remaining steps are promises: what   *)
(* does not hold yet is going to be made true by a step of todo.           *)
(*                                                                         *)
(*   RunsInv   the order of the steps, the run each of them is about, and  *)
(*             who owes an execute its reply;                              *)
(*   WorkInv   from RunsInv: what is queued and not sent, against what is  *)
(*             worked on outside and what an actor waits for;              *)
(*   LossInv   from both: a refused emission is on record, and the run it  *)
(*             belonged to is going to be settled.                         *)
(*                                                                         *)
(* What an activated actor may do is summed up once, in Acts; the handlers *)
(* that activate one are then all of one shape.                            *)
(***************************************************************************)
EXTENDS MagRuns, SequenceLemmas

-----------------------------------------------------------------------------
(* What the kernel's operators return. *)

LEMMA BoundsAreNaturals ==
    MaxRequests \in Nat \ {0} /\ MaxCaps \in Nat /\ MaxRefusals \in Nat /\ IsFiniteSet(Runs)
BY BoundsAssumption

LEMMA EmissionFields ==
    ASSUME NEW kind, NEW r, NEW c
    PROVE  /\ Emission(kind, r, c).kind = kind /\ Emission(kind, r, c).run = r
           /\ Emission(kind, r, c).id = c
BY DEF Emission

LEMMA EventShape ==
    ASSUME NEW r \in Runs
    PROVE  /\ Event(r) \in Emissions /\ Event(r).run = r
           /\ ~IsAsk(Event(r)) /\ ~IsCancel(Event(r))
           /\ Emission("killed", r, 0) \in Emissions /\ Emission("killed", r, 0).run = r
           /\ ~IsAsk(Emission("killed", r, 0)) /\ ~IsCancel(Emission("killed", r, 0))
BY BoundsAreNaturals DEF Event, Emission, Emissions, IsAsk, IsCancel

LEMMA InvokeShape ==
    ASSUME NEW r \in Runs, NEW c \in 1..MaxCaps, NEW class \in Classes
    PROVE  /\ InvokeOf(r, c, class) \in Emissions
           /\ InvokeOf(r, c, class).run = r /\ InvokeOf(r, c, class).id = c
           /\ IsAsk(InvokeOf(r, c, class)) /\ ~IsCancel(InvokeOf(r, c, class))
           /\ InvokeOf(r, c, class).kind = "compact" <=> class = "compaction"
           /\ InvokeOf(r, c, class).kind = "query" <=> class = "query"
           /\ InvokeOf(r, c, class).kind # "compactCancel"
<1>1. c \in 0..MaxCaps
    BY BoundsAreNaturals
<1> QED BY <1>1 DEF InvokeOf, Emission, Emissions, IsAsk, IsCancel

LEMMA CancelShape ==
    ASSUME NEW r \in Runs, NEW c \in 1..MaxCaps, NEW class \in Classes
    PROVE  /\ CancelOf(r, c, class) \in Emissions
           /\ CancelOf(r, c, class).run = r /\ CancelOf(r, c, class).id = c
           /\ IsCancel(CancelOf(r, c, class)) /\ ~IsAsk(CancelOf(r, c, class))
           /\ CancelOf(r, c, class).kind = "compactCancel" <=> class = "compaction"
           /\ CancelOf(r, c, class).kind \notin {"compact", "query"}
<1>1. c \in 0..MaxCaps
    BY BoundsAreNaturals
<1> QED BY <1>1 DEF CancelOf, Emission, Emissions, IsAsk, IsCancel

LEMMA AscendingShape ==
    ASSUME NEW ids \in SUBSET (1..MaxCaps)
    PROVE  /\ Ascending(ids) \in SetToSeqs(ids)
           /\ Ascending(ids) \in Seq(ids) /\ ToSet(Ascending(ids)) = ids
<1>1. PICK f \in SetToSeqs(ids) : Ascends(f)
    BY BoundsAreNaturals, AscendingOrder
<1>2. IsFiniteSet(ids)
  <2>1. IsFiniteSet(1..MaxCaps)
    BY BoundsAreNaturals, FS_Interval
  <2> QED BY <2>1, FS_Subset
<1>3. f \in Seq(ids)
    BY <1>2, OrderOfSet
<1>4. \A i, j \in DOMAIN f : i < j => f[i] < f[j]
  <2>1. DOMAIN f = 1..Len(f)
    BY <1>3
  <2> QED BY <1>1, <2>1, Zenon DEF Ascends
<1>5. Ascending(ids) \in SetToSeqs(ids)
    BY <1>4, Zenon DEF Ascending
<1> QED BY <1>2, <1>5, OrderOfSet

(* The cancellations for "ids": one for each that is not a query, of its kind. *)
CancelsAll(em, r, ids, table) ==
    /\ em \in Seq(Emissions)
    /\ \A e \in ToSet(em) : /\ IsCancel(e) /\ ~IsAsk(e) /\ e.run = r /\ e.id \in ids
                            /\ Fits(e, table)
    /\ \A c \in ids : table[c].class = "query" \/ \E e \in ToSet(em) : e.id = c

LEMMA CancelsShape ==
    ASSUME NEW r \in Runs, NEW table \in Seq(Capabilities), Len(table) <= MaxCaps,
           NEW ids \in SUBSET (1..Len(table))
    PROVE  CancelsAll(Cancels(r, ids, table), r, ids, table)
<1> DEFINE work == Cancellable(ids, table)
           f == Ascending(work)
           em == Cancels(r, ids, table)
           E(c) == CancelOf(r, c, table[c].class)
<1>0. MaxCaps \in Nat /\ Len(table) \in Nat /\ DOMAIN table = 1..Len(table)
    BY BoundsAreNaturals, LenProperties
<1>1. /\ work \in SUBSET (1..MaxCaps) /\ work \in SUBSET ids
      /\ \A c \in work : table[c].class # "query"
      /\ \A c \in ids : table[c].class = "query" \/ c \in work
  <2>1. work \in SUBSET ids
    BY DEF Cancellable
  <2>2. /\ \A c \in work : table[c].class # "query"
        /\ \A c \in ids : table[c].class = "query" \/ c \in work
    BY Zenon DEF Cancellable
  <2> HIDE DEF work
  <2>3. \A c \in ids : c \in 1..MaxCaps
    BY <1>0
  <2> QED BY <2>1, <2>2, <2>3
<1>2. f \in Seq(work) /\ ToSet(f) = work
    BY <1>1, AscendingShape
<1>3. DOMAIN f = 1..Len(f) /\ Len(f) \in Nat /\ \A i \in 1..Len(f) : f[i] \in work
    BY <1>2, LenProperties, ElementOfSeq
<1>4. em = [i \in 1..Len(f) |-> E(f[i])]
    BY <1>3 DEF Cancels
<1> HIDE DEF em, f, work
<1>5. ASSUME NEW c \in work
      PROVE  /\ E(c) \in Emissions /\ IsCancel(E(c)) /\ ~IsAsk(E(c)) /\ E(c).run = r
             /\ E(c).id = c /\ Fits(E(c), table)
  <2>1. c \in 1..MaxCaps /\ c \in DOMAIN table
    BY <1>0, <1>1
  <2>2. table[c].class \in Classes
    <3>1. table[c] \in Capabilities
      BY <1>0, <2>1, ElementOfSeq
    <3> QED BY <3>1, Zenon DEF Capabilities
  <2>3. /\ E(c) \in Emissions /\ E(c).run = r /\ E(c).id = c
        /\ IsCancel(E(c)) /\ ~IsAsk(E(c))
        /\ E(c).kind = "compactCancel" <=> table[c].class = "compaction"
        /\ E(c).kind \notin {"compact", "query"}
    BY <2>1, <2>2, CancelShape
  <2> HIDE DEF E
  <2>4. Fits(E(c), table)
    BY <1>1, <2>1, <2>3, Zenon DEF Fits
  <2> QED BY <2>3, <2>4
<1> HIDE DEF E
<1>6. \A i \in 1..Len(f) : em[i] = E(f[i]) /\ f[i] \in work
    BY <1>3, <1>4
<1>7. em \in Seq(Emissions) /\ Len(em) = Len(f)
  <2>1. em \in [1..Len(f) -> Emissions]
    BY <1>3, <1>4, <1>5
  <2> QED BY <1>3, <2>1
<1>8. ToSet(em) = {em[i] : i \in 1..Len(f)} /\ work = {f[i] : i \in 1..Len(f)}
    BY <1>2, <1>7, ToSetByIndex
<1>9. \A e \in ToSet(em) : \E c \in work : e = E(c)
    BY <1>6, <1>8, Zenon
<1>10. \A c \in work : E(c) \in ToSet(em)
    BY <1>6, <1>8, Zenon
<1> QED BY <1>1, <1>5, <1>7, <1>9, <1>10, Zenon DEF CancelsAll, em

(* The context of a live run. *)
LEMMA LiveContext ==
    ASSUME KernelTyped, NEW r \in Live
    PROVE  /\ r \in Runs /\ runs[r] \in Contexts /\ runs[r] # NoRun
           /\ runs[r].session \in Sessions /\ runs[r].request \in Requests
           /\ runs[r].alive \in SUBSET Actors /\ runs[r].dead \in SUBSET Actors
           /\ runs[r].open \in SUBSET (1..MaxCaps) /\ runs[r].outputFailed \in BOOLEAN
           /\ runs[r].signal \in {"none", "complete", "failed"}
<1>1. r \in Runs /\ runs[r] # NoRun /\ runs[r] \in Contexts
    BY Zenon DEF KernelTyped, Live
<1> QED BY <1>1, Zenon DEF Contexts

(* Tearing run r down cancels the work it has open and asks for nothing. *)
Torn(rs, em) ==
    /\ em \in Seq(Emissions)
    /\ \A e \in ToSet(em) :
           /\ e.run \in rs /\ ~IsAsk(e)
           /\ IsCancel(e) => e.id \in runs[e.run].open /\ Fits(e, caps)
    /\ \A r \in rs : \A c \in runs[r].open :
           ~IsWork(c) \/ \E e \in ToSet(em) : IsCancel(e) /\ e.id = c

LEMMA TeardownShape ==
    ASSUME KernelTyped, OpenByAlive, NEW r \in Live
    PROVE  Torn({r}, TeardownOf(r))
<1>0. r \in Runs
    BY LiveContext
<1>1. runs[r].open \in SUBSET (1..Len(caps)) /\ caps \in Seq(Capabilities) /\ Len(caps) <= MaxCaps
  <2>1. caps \in Seq(Capabilities) /\ Len(caps) <= MaxCaps
    BY DEF KernelTyped
  <2>2. DOMAIN caps = 1..Len(caps)
    BY <2>1
  <2>3. \A c \in runs[r].open : c \in DOMAIN caps
    BY Zenon DEF OpenByAlive
  <2> QED BY <2>1, <2>2, <2>3
<1>2. CASE runs[r].alive = {}
  <2>1. TeardownOf(r) = <<>>
    BY <1>2 DEF TeardownOf
  <2>2. runs[r].open = {}
    BY <1>2, Zenon DEF OpenByAlive
  <2>3. <<>> \in Seq(Emissions) /\ ToSet(<<>>) = {}
    BY ToSetSmall, EmptySeq
  <2> QED BY <2>1, <2>2, <2>3 DEF Torn
<1>3. CASE runs[r].alive # {}
  <2> DEFINE cs == Cancels(r, runs[r].open, caps)
             k == Emission("killed", r, 0)
             ev == Event(r)
  <2>1. TeardownOf(r) = cs \o <<k, ev>>
    BY <1>3 DEF TeardownOf
  <2>2. CancelsAll(cs, r, runs[r].open, caps)
    BY <1>0, <1>1, CancelsShape
  <2>3. /\ k \in Emissions /\ ev \in Emissions /\ k.run = r /\ ev.run = r
        /\ ~IsAsk(k) /\ ~IsCancel(k) /\ ~IsAsk(ev) /\ ~IsCancel(ev)
    BY <1>0, EventShape
  <2> HIDE DEF cs, k, ev
  <2>4. <<k, ev>> \in Seq(Emissions) /\ ToSet(<<k, ev>>) = {k, ev}
    BY <2>3, ToSetSmall
  <2>5. cs \in Seq(Emissions)
    BY <2>2 DEF CancelsAll
  <2>6. cs \o <<k, ev>> \in Seq(Emissions) /\ ToSet(cs \o <<k, ev>>) = ToSet(cs) \cup {k, ev}
    BY <2>4, <2>5, ToSetConcat
  <2> DEFINE em == cs \o <<k, ev>>
  <2>7. ASSUME NEW e \in ToSet(em)
        PROVE  /\ e.run \in {r} /\ ~IsAsk(e)
               /\ IsCancel(e) => e.id \in runs[e.run].open /\ Fits(e, caps)
    <3>1. e \in ToSet(cs) \/ e = k \/ e = ev
      BY <2>6
    <3>2. CASE e \in ToSet(cs)
      BY <2>2, <3>2, Zenon DEF CancelsAll
    <3>3. CASE e = k \/ e = ev
      BY <2>3, <3>3, Zenon
    <3> QED BY <3>1, <3>2, <3>3
  <2>8. ASSUME NEW c \in runs[r].open, IsWork(c)
        PROVE  \E e \in ToSet(em) : IsCancel(e) /\ e.id = c
    <3>1. PICK e \in ToSet(cs) : IsCancel(e) /\ e.id = c
      BY <2>2, <2>8, Zenon DEF CancelsAll, IsWork
    <3> QED BY <2>6, <3>1
  <2>9. em \in Seq(Emissions) /\ em = TeardownOf(r)
    BY <2>1, <2>6
  <2> HIDE DEF em
  <2>10. Torn({r}, em)
    BY <2>7, <2>8, <2>9, Zenon DEF Torn
  <2> QED BY <2>9, <2>10
<1> QED BY <1>2, <1>3

LEMMA TeardownsShape ==
    ASSUME KernelTyped, OpenByAlive, NEW rs \in SUBSET Live, NEW order \in SetToSeqs(rs)
    PROVE  Torn(rs, FlattenSeq(Each(TeardownOf, order)))
<1>1. IsFiniteSet(rs)
  <2>1. rs \subseteq Runs
    BY DEF Live
  <2> QED BY <2>1, BoundsAreNaturals, FS_Subset
<1>2. order \in Seq(rs) /\ ToSet(order) = rs
    BY <1>1, OrderOfSet
<1>3. DOMAIN order = 1..Len(order) /\ Len(order) \in Nat /\ \A i \in 1..Len(order) : order[i] \in rs
    BY <1>2, LenProperties, ElementOfSeq
<1> DEFINE s == Each(TeardownOf, order)
<1>4. s = [i \in 1..Len(order) |-> TeardownOf(order[i])]
    BY <1>3 DEF Each
<1> HIDE DEF s
<1>5. \A r \in rs : Torn({r}, TeardownOf(r))
    BY TeardownShape
<1>6. \A r \in rs : TeardownOf(r) \in Seq(Emissions)
    BY <1>5 DEF Torn
<1>7. s \in Seq(Seq(Emissions)) /\ Len(s) = Len(order)
  <2>1. s \in [1..Len(order) -> Seq(Emissions)]
    BY <1>3, <1>4, <1>6
  <2> QED BY <1>3, <2>1
<1>8. ToSet(s) = {s[i] : i \in 1..Len(order)} /\ rs = {order[i] : i \in 1..Len(order)}
    BY <1>2, <1>7, ToSetByIndex
<1>9. \A i \in 1..Len(order) : s[i] = TeardownOf(order[i])
    BY <1>4
<1>10. /\ \A x \in ToSet(s) : \E r \in rs : x = TeardownOf(r)
       /\ \A r \in rs : TeardownOf(r) \in ToSet(s)
    BY <1>3, <1>8, <1>9, Zenon
<1>11. /\ FlattenSeq(s) \in Seq(Emissions)
       /\ ToSet(FlattenSeq(s)) = UNION {ToSet(x) : x \in ToSet(s)}
    BY <1>7, FlattenType, FlattenToSet
<1>12. ASSUME NEW e \in ToSet(FlattenSeq(s))
       PROVE  /\ e.run \in rs /\ ~IsAsk(e)
              /\ IsCancel(e) => e.id \in runs[e.run].open /\ Fits(e, caps)
  <2>1. PICK x \in ToSet(s) : e \in ToSet(x)
    BY <1>11, Zenon
  <2>2. PICK r \in rs : x = TeardownOf(r)
    BY <1>10
  <2>3. Torn({r}, x)
    BY <1>5, <2>2
  <2> QED BY <2>1, <2>3, Zenon DEF Torn
<1>13. ASSUME NEW r \in rs, NEW c \in runs[r].open, IsWork(c)
       PROVE  \E e \in ToSet(FlattenSeq(s)) : IsCancel(e) /\ e.id = c
  <2>1. PICK e \in ToSet(TeardownOf(r)) : IsCancel(e) /\ e.id = c
    BY <1>5, <1>13, Zenon DEF Torn
  <2>2. e \in ToSet(FlattenSeq(s))
    BY <1>10, <1>11, Zenon
  <2> QED BY <2>1, <2>2
<1>14. Torn(rs, FlattenSeq(s))
    BY <1>11, <1>12, <1>13, Zenon DEF Torn
<1> QED BY <1>14 DEF s

(* Ending runs: their contexts go, and what they tear down is emitted. *)
LEMMA EndRunsShape ==
    ASSUME KernelTyped, OpenByAlive, NEW rs \in SUBSET Live, EndRuns(rs)
    PROVE  /\ \E em : Torn(rs, em) /\ emits' = emits \o em
           /\ runs' = [r \in Runs |-> IF r \in rs THEN NoRun ELSE runs[r]]
           /\ caps' = caps
<1>1. PICK order \in SetToSeqs(rs) : emits' = emits \o FlattenSeq(Each(TeardownOf, order))
    BY DEF EndRuns
<1>2. Torn(rs, FlattenSeq(Each(TeardownOf, order)))
    BY TeardownsShape
<1> QED BY <1>1, <1>2 DEF EndRuns

-----------------------------------------------------------------------------
(* What actors do to a run: context x over the table t0 of capabilities      *)
(* becomes context y over t1, and em is emitted.                             *)
FollowsRel == {p \in Emissions \X Emissions : Follows(p[1], p[2])}
Newer(t0, t1) == Len(t0) + 1 .. Len(t1)
New(table) == Len(caps) + 1 .. Len(table)

Grows(table) ==
    /\ table \in Seq(Capabilities) /\ Len(caps) <= Len(table) /\ Len(table) <= MaxCaps
    /\ \A c \in 1..Len(caps) : table[c] = caps[c]

(* Context x is one over the table t. *)
Sound(x, t) ==
    /\ t \in Seq(Capabilities) /\ Len(t) <= MaxCaps
    /\ x \in Contexts /\ x.alive \cap x.dead = {}
    /\ \A c \in x.open : c \in 1..Len(t) /\ t[c].actor \in x.alive

(* What is opened is asked for; what else is closed is cancelled, or a query. *)
Worked(r, x, t0, y, t1, em) ==
    /\ Sound(y, t1) /\ Len(t0) <= Len(t1)
    /\ \A c \in 1..Len(t0) : t1[c] = t0[c]
    /\ y.session = x.session /\ y.request = x.request /\ y.outputFailed = x.outputFailed
    /\ y.open \subseteq x.open \cup Newer(t0, t1)
    /\ x.alive \cup x.dead \subseteq y.alive \cup y.dead
    /\ \A c \in Newer(t0, t1) : /\ t1[c].request = x.request
                                /\ t1[c].actor \in y.alive \cup y.dead
                                /\ \E e \in ToSet(em) : IsAsk(e) /\ e.id = c
    /\ em \in Seq(Emissions) /\ Pairwise(FollowsRel, em)
    /\ \A e \in ToSet(em) :
           /\ e.run = r /\ Fits(e, t1)
           /\ IsAsk(e) => e.id \in Newer(t0, t1)
           /\ IsCancel(e) => e.id \in (x.open \cup Newer(t0, t1)) \ y.open
    /\ \A c \in (x.open \cup Newer(t0, t1)) \ y.open :
           t1[c].class = "query" \/ \E e \in ToSet(em) : IsCancel(e) /\ e.id = c

LEMMA FollowsPair ==
    ASSUME NEW a \in Emissions, NEW b \in Emissions
    PROVE  <<a, b>> \in FollowsRel <=> Follows(a, b)
BY DEF FollowsRel

LEMMA TableShape ==
    ASSUME NEW t \in Seq(Capabilities)
    PROVE  /\ Len(t) \in Nat /\ MaxCaps \in Nat /\ DOMAIN t = 1..Len(t)
           /\ \A c \in 1..Len(t) : t[c] \in Capabilities /\ t[c].class \in Classes
<1>1. Len(t) \in Nat /\ MaxCaps \in Nat /\ DOMAIN t = 1..Len(t)
    BY BoundsAreNaturals, LenProperties
<1>2. ASSUME NEW c \in 1..Len(t) PROVE t[c] \in Capabilities /\ t[c].class \in Classes
  <2>1. t[c] \in Capabilities
    BY ElementOfSeq
  <2> QED BY <2>1, Zenon DEF Capabilities
<1> QED BY <1>1, <1>2

(* An emission about a capability of t0 fits any table that extends it. *)
LEMMA FitsLonger ==
    ASSUME NEW t0 \in Seq(Capabilities), NEW t1 \in Seq(Capabilities), Len(t0) <= Len(t1),
           \A c \in 1..Len(t0) : t1[c] = t0[c], NEW e, Fits(e, t0)
    PROVE  Fits(e, t1)
<1>1. /\ Len(t0) \in Nat /\ Len(t1) \in Nat
      /\ DOMAIN t0 = 1..Len(t0) /\ DOMAIN t1 = 1..Len(t1)
    BY TableShape
<1>2. \A c \in DOMAIN t0 : c \in DOMAIN t1 /\ t1[c] = t0[c]
    BY <1>1
<1> QED BY <1>2, Zenon DEF Fits

LEMMA OpeningsShape ==
    ASSUME NEW t, NEW x, Sound(x, t), NEW o \in Openings(x, t)
    PROVE  /\ o \in Seq(Capabilities) /\ Len(o) \in Nat /\ Len(t) + Len(o) <= MaxCaps
           /\ \A i \in 1..Len(o) : /\ o[i].request = x.request /\ o[i].actor \in x.alive
                                   /\ o[i].class \in Classes
<1>0. Len(t) \in Nat /\ MaxCaps \in Nat /\ Len(t) <= MaxCaps
    BY TableShape DEF Sound
<1>1. x.request \in Requests /\ x.alive \in SUBSET Actors
    BY Zenon DEF Sound, Contexts
<1> DEFINE asks == [request : {x.request}, actor : x.alive, class : Classes]
<1>2. PICK m \in 0..(MaxCaps - Len(t)) : o \in [1..m -> asks]
    BY DEF Openings, SeqOf
<1>3. \A a \in asks : /\ a \in Capabilities /\ a.request = x.request /\ a.actor \in x.alive
                      /\ a.class \in Classes
    BY <1>1 DEF Capabilities
<1> HIDE DEF asks
<1>4. m \in Nat /\ Len(t) + m <= MaxCaps
    BY <1>0, <1>2
<1>5. o \in Seq(asks) /\ Len(o) = m /\ \A i \in 1..m : o[i] \in asks
    BY <1>2, <1>4
<1>6. o \in [1..m -> Capabilities]
    BY <1>2, <1>3
<1>7. o \in Seq(Capabilities)
    BY <1>4, <1>6
<1> QED BY <1>3, <1>4, <1>5, <1>7

LEMMA ReactionWorks ==
    ASSUME NEW r \in Runs, NEW x, NEW t, Sound(x, t), NEW o \in Openings(x, t),
           NEW s \in {"none", "complete", "failed"}
    PROVE  LET z == Reaction(r, x, t, o, s)
           IN  Worked(r, x, t, z.context, z.caps, z.emits)
<1>0. t \in Seq(Capabilities) /\ Len(t) <= MaxCaps /\ x \in Contexts
    BY DEF Sound
<1>n. Len(t) \in Nat /\ MaxCaps \in Nat /\ DOMAIN t = 1..Len(t)
    BY <1>0, TableShape
<1>x. /\ x.session \in Sessions /\ x.request \in Requests
      /\ x.alive \in SUBSET Actors /\ x.dead \in SUBSET Actors
      /\ x.open \in SUBSET (1..MaxCaps) /\ x.outputFailed \in BOOLEAN
      /\ x.signal \in {"none", "complete", "failed"}
    BY <1>0, Zenon DEF Contexts
<1>3. /\ o \in Seq(Capabilities) /\ Len(o) \in Nat /\ Len(t) + Len(o) <= MaxCaps
      /\ \A i \in 1..Len(o) : /\ o[i].request = x.request /\ o[i].actor \in x.alive
                              /\ o[i].class \in Classes
    BY OpeningsShape
<1>4. PICK n \in Nat : n = Len(o)
    BY <1>3
<1>d. DOMAIN o = 1..n
    BY <1>3, <1>4
<1> DEFINE table == t \o o
           y == [x EXCEPT !.open = @ \cup {Len(t) + i : i \in DOMAIN o}, !.signal = s]
           mid == [i \in DOMAIN o |-> InvokeOf(r, Len(t) + i, o[i].class)]
           ev == Event(r)
<1>5. /\ table \in Seq(Capabilities) /\ Len(table) = Len(t) + n
      /\ \A c \in 1..Len(t) : table[c] = t[c]
      /\ \A i \in 1..n : table[Len(t) + i] = o[i]
  <2>1. /\ table \in Seq(Capabilities) /\ Len(table) = Len(t) + Len(o)
        /\ \A i \in 1..Len(t) + Len(o) :
               table[i] = IF i <= Len(t) THEN t[i] ELSE o[i - Len(t)]
    BY <1>0, <1>3, ConcatProperties
  <2> HIDE DEF table
  <2>2. \A c \in 1..Len(t) : c \in 1..Len(t) + Len(o) /\ c <= Len(t)
    BY <1>n, <1>4
  <2>3. \A i \in 1..n : /\ Len(t) + i \in 1..Len(t) + Len(o)
                        /\ ~(Len(t) + i <= Len(t)) /\ Len(t) + i - Len(t) = i
    BY <1>n, <1>4
  <2> QED BY <1>4, <2>1, <2>2, <2>3
<1> HIDE DEF table
<1>6. /\ Newer(t, table) = {Len(t) + i : i \in 1..n}
      /\ Len(t) <= Len(table) /\ Len(table) <= MaxCaps
  <2>1. Len(t) <= Len(table) /\ Len(table) <= MaxCaps
    BY <1>n, <1>3, <1>4, <1>5
  <2>2. Newer(t, table) = {Len(t) + i : i \in 1..n}
    BY <1>n, <1>5 DEF Newer
  <2> QED BY <2>1, <2>2
<1>7. \A i \in 1..n : Len(t) + i \in 1..MaxCaps
    BY <1>n, <1>3, <1>4
<1>8. /\ y \in Contexts /\ y.session = x.session /\ y.request = x.request
      /\ y.alive = x.alive /\ y.dead = x.dead /\ y.outputFailed = x.outputFailed
      /\ y.open = x.open \cup Newer(t, table)
  <2>1. y = [x EXCEPT !.open = x.open \cup {Len(t) + i : i \in 1..n}, !.signal = s]
    BY <1>d
  <2>2. PICK op : op = x.open \cup {Len(t) + i : i \in 1..n}
    OBVIOUS
  <2>3. op \in SUBSET (1..MaxCaps)
    BY <1>x, <1>7, <2>2
  <2>5. y = [x EXCEPT !.open = op, !.signal = s]
    BY <2>1, <2>2
  <2> HIDE DEF y
  <2> QED BY <1>0, <1>6, <2>2, <2>3, <2>5 DEF Contexts
<1>9. /\ mid \in Seq(Emissions) /\ Len(mid) = n
      /\ \A i \in 1..n : mid[i] = InvokeOf(r, Len(t) + i, o[i].class)
  <2>1. \A i \in 1..n : InvokeOf(r, Len(t) + i, o[i].class) \in Emissions
    BY <1>3, <1>4, <1>7, InvokeShape
  <2>2. mid = [i \in 1..n |-> InvokeOf(r, Len(t) + i, o[i].class)]
    BY <1>d
  <2>3. mid \in [1..n -> Emissions]
    BY <2>1, <2>2
  <2> QED BY <2>2, <2>3
<1>10. \A i \in 1..n :
          /\ mid[i].run = r /\ ~IsCancel(mid[i]) /\ IsAsk(mid[i])
          /\ mid[i].id = Len(t) + i /\ Fits(mid[i], table)
  <2> TAKE i \in 1..n
  <2> DEFINE m == InvokeOf(r, Len(t) + i, o[i].class)
  <2>1. /\ m.run = r /\ ~IsCancel(m) /\ IsAsk(m) /\ m.id = Len(t) + i
        /\ m.kind = "compact" <=> o[i].class = "compaction"
        /\ m.kind = "query" <=> o[i].class = "query"
        /\ m.kind # "compactCancel"
    BY <1>3, <1>4, <1>7, InvokeShape
  <2>2. mid[i] = m
    BY <1>9
  <2>3. Len(t) + i \in DOMAIN table
    BY <1>n, <1>5
  <2> HIDE DEF m, mid
  <2>4. Fits(m, table)
    BY <1>5, <2>1, <2>3, Zenon DEF Fits
  <2> QED BY <2>1, <2>2, <2>4
<1>11. /\ ev \in Emissions /\ ev.run = r /\ ~IsAsk(ev) /\ ~IsCancel(ev)
    BY EventShape
<1> HIDE DEF mid, ev, y
<1>e. PICK one : one = <<ev>>
    OBVIOUS
<1>12. one \in Seq(Emissions) /\ ToSet(one) = {ev}
  <2>1. <<ev>> \in Seq(Emissions)
    BY <1>11
  <2> QED BY <1>e, <2>1, ToSetSmall
<1> DEFINE em == one \o mid
<1>14. em \in Seq(Emissions) /\ ToSet(em) = {ev} \cup ToSet(mid)
    BY <1>9, <1>12, ToSetConcat
<1>15. ToSet(mid) = {mid[i] : i \in 1..n} /\ ToSet(mid) \subseteq Emissions
    BY <1>9, ToSetByIndex
<1>16. Pairwise(FollowsRel, em)
  <2>1. Pairwise(FollowsRel, mid)
    <3>1. \A i, j \in 1..n : i < j => Len(t) + i # Len(t) + j
      BY <1>n
    <3>2. \A i, j \in 1..n : i < j => Follows(mid[i], mid[j])
      BY <1>10, <3>1, Zenon DEF Follows
    <3>3. \A i \in 1..n : mid[i] \in Emissions
      BY <1>15
    <3>4. \A i, j \in 1..n : i < j => <<mid[i], mid[j]>> \in FollowsRel
      BY <3>2, <3>3, FollowsPair
    <3> QED BY <1>9, <3>4 DEF Pairwise
  <2>2. \A e \in Emissions : Follows(ev, e)
    BY <1>11 DEF Follows
  <2>3. \A e \in Emissions : <<ev, e>> \in FollowsRel
    BY <1>11, <2>2, FollowsPair
  <2>4. Pairwise(FollowsRel, one)
    BY <1>e, PairwiseSmall
  <2> QED BY <1>9, <1>12, <1>15, <2>1, <2>3, <2>4, PairwiseConcat
<1> HIDE DEF em
<1>17. \A e \in ToSet(em) :
           /\ e.run = r /\ Fits(e, table)
           /\ IsAsk(e) => e.id \in Newer(t, table)
           /\ IsCancel(e) => e.id \in (x.open \cup Newer(t, table)) \ y.open
  <2>1. Fits(ev, table)
    BY <1>11, Zenon DEF Fits
  <2>2. \A i \in 1..n : Len(t) + i \in Newer(t, table)
    BY <1>6
  <2> QED BY <1>10, <1>11, <1>14, <1>15, <2>1, <2>2, Zenon
<1>18. ASSUME NEW c \in Newer(t, table)
       PROVE  /\ table[c].request = x.request /\ table[c].actor \in x.alive
              /\ c \in 1..Len(table)
              /\ \E e \in ToSet(em) : IsAsk(e) /\ e.id = c
  <2>1. PICK i \in 1..n : c = Len(t) + i
    BY <1>6
  <2>2. table[c] = o[i] /\ o[i].request = x.request /\ o[i].actor \in x.alive
    BY <1>3, <1>4, <1>5, <2>1
  <2>3. mid[i] \in ToSet(em) /\ IsAsk(mid[i]) /\ mid[i].id = c
    BY <1>10, <1>14, <1>15, <2>1, Zenon
  <2>4. c \in 1..Len(table)
    BY <1>n, <1>5, <2>1
  <2> QED BY <2>2, <2>3, <2>4
<1>s. Sound(y, table)
  <2>1. \A c \in x.open : c \in 1..Len(t) /\ t[c].actor \in x.alive
    BY Zenon DEF Sound
  <2>2. \A c \in 1..Len(t) : c \in 1..Len(table)
    BY <1>n, <1>5
  <2>3. \A c \in y.open : c \in 1..Len(table) /\ table[c].actor \in y.alive
    <3> TAKE c \in y.open
    <3>1. CASE c \in x.open
      BY <1>5, <1>8, <2>1, <2>2, <3>1, Zenon
    <3>2. CASE c \in Newer(t, table)
      BY <1>8, <1>18, <3>2
    <3> QED BY <1>8, <3>1, <3>2
  <2>4. x.alive \cap x.dead = {}
    BY DEF Sound
  <2> QED BY <1>5, <1>6, <1>8, <2>3, <2>4 DEF Sound
<1>19. /\ Reaction(r, x, t, o, s).context = y /\ Reaction(r, x, t, o, s).caps = table
       /\ Reaction(r, x, t, o, s).emits = em
    BY <1>e DEF Reaction, table, y, em, ev, mid
<1>20. Worked(r, x, t, y, table, em)
  <2>1. (x.open \cup Newer(t, table)) \ y.open = {} /\ y.open \subseteq x.open \cup Newer(t, table)
    BY <1>8
  <2>2. x.alive \cup x.dead \subseteq y.alive \cup y.dead
    BY <1>8
  <2>3. \A c \in Newer(t, table) : table[c].actor \in y.alive \cup y.dead
    BY <1>8, <1>18
  <2> QED BY <1>5, <1>6, <1>8, <1>14, <1>16, <1>17, <1>18, <1>s, <2>1, <2>2, <2>3, Zenon DEF Worked
<1> QED BY <1>19, <1>20

LEMMA DeltaWorks ==
    ASSUME NEW r \in Runs, NEW x, NEW t, Sound(x, t), NEW delta \in Deltas(r, x, t)
    PROVE  Worked(r, x, t, delta.context, t, delta.emits)
<1>0. t \in Seq(Capabilities) /\ Len(t) <= MaxCaps /\ x \in Contexts
      /\ x.alive \cap x.dead = {}
      /\ \A c \in x.open : c \in 1..Len(t) /\ t[c].actor \in x.alive
    BY Zenon DEF Sound
<1>n. Len(t) \in Nat
    BY <1>0, TableShape
<1>w. PICK new \in SUBSET (Actors \ (x.alive \cup x.dead)) :
          \E killed \in SUBSET (x.alive \cup new) : delta = Delta(r, x, t, new, killed)
    BY DEF Deltas
<1>1. PICK killed \in SUBSET (x.alive \cup new) : delta = Delta(r, x, t, new, killed)
    BY <1>w
<1> DEFINE dying == {c \in x.open : t[c].actor \in killed}
           y == [x EXCEPT !.alive = (@ \cup new) \ killed, !.dead = @ \cup killed,
                          !.open = @ \ dying]
           cs == Cancels(r, dying, t)
           kl == IF killed = {} THEN <<>> ELSE <<Emission("killed", r, 0)>>
           em == cs \o kl
<1>2. delta.context = y /\ delta.emits = em
    BY <1>1 DEF Delta
<1>3. /\ y \in Contexts /\ y.session = x.session /\ y.request = x.request
      /\ y.outputFailed = x.outputFailed /\ y.open = x.open \ dying
      /\ y.alive = (x.alive \cup new) \ killed /\ y.dead = x.dead \cup killed
  <2>1. dying \in SUBSET x.open
    OBVIOUS
  <2>2. (x.alive \cup new) \ killed \in SUBSET Actors /\ x.dead \cup killed \in SUBSET Actors
    BY <1>0, <1>1 DEF Contexts
  <2> HIDE DEF dying
  <2> QED BY <1>0, <2>1, <2>2 DEF Contexts
<1>4. y.alive \cap y.dead = {}
    BY <1>0, <1>1, <1>3
<1> HIDE DEF y
<1>5. \A c \in y.open : c \in 1..Len(t) /\ t[c].actor \in y.alive
    BY <1>0, <1>3
<1>6. Sound(y, t)
    BY <1>0, <1>3, <1>4, <1>5 DEF Sound
<1>7. dying \in SUBSET (1..Len(t))
    BY <1>0
<1>8. CancelsAll(cs, r, dying, t)
    BY <1>0, <1>7, CancelsShape
<1> HIDE DEF cs
<1>9. x.open \ y.open = dying /\ y.open \subseteq x.open
    BY <1>3
<1> HIDE DEF dying
<1>10. /\ kl \in Seq(Emissions)
       /\ \A e \in ToSet(kl) : e \in Emissions /\ e.run = r /\ ~IsAsk(e) /\ ~IsCancel(e)
  <2>1. CASE killed = {}
    <3>1. kl = <<>> /\ ToSet(<<>>) = {}
      BY <2>1, ToSetSmall
    <3> QED BY <3>1, EmptySeq
  <2>2. CASE killed # {}
    <3> DEFINE k == Emission("killed", r, 0)
    <3>1. k \in Emissions /\ k.run = r /\ ~IsAsk(k) /\ ~IsCancel(k)
      BY EventShape
    <3>2. kl = <<k>> /\ ToSet(<<k>>) = {k}
      BY <2>2, ToSetSmall
    <3> HIDE DEF k, kl
    <3>3. <<k>> \in Seq(Emissions)
      BY <3>1
    <3> QED BY <3>1, <3>2, <3>3
  <2> QED BY <2>1, <2>2
<1> HIDE DEF kl
<1>11. em \in Seq(Emissions) /\ ToSet(em) = ToSet(cs) \cup ToSet(kl)
  <2>1. cs \in Seq(Emissions)
    BY <1>8 DEF CancelsAll
  <2> QED BY <1>10, <2>1, ToSetConcat
<1> HIDE DEF em
<1>12. \A e \in ToSet(em) :
          /\ e \in Emissions /\ e.run = r /\ ~IsAsk(e)
          /\ IsCancel(e) => e.id \in dying
          /\ Fits(e, t)
  <2>1. \A e \in ToSet(cs) : /\ e.run = r /\ ~IsAsk(e) /\ e.id \in dying /\ Fits(e, t)
    BY <1>8 DEF CancelsAll
  <2>2. ToSet(em) \subseteq Emissions
    BY <1>11, ToSetByIndex
  <2>3. \A e \in ToSet(kl) : Fits(e, t)
    BY <1>10, Zenon DEF Fits
  <2> QED BY <1>10, <1>11, <2>1, <2>2, <2>3, Zenon
<1>13. Pairwise(FollowsRel, em)
  <2>1. \A a \in Emissions, b \in ToSet(em) : <<a, b>> \in FollowsRel
    BY <1>12, FollowsPair DEF Follows
  <2>2. \A i \in 1..Len(em) : em[i] \in ToSet(em) /\ em[i] \in Emissions
    <3>1. ToSet(em) = {em[i] : i \in 1..Len(em)} /\ ToSet(em) \subseteq Emissions
      BY <1>11, ToSetByIndex
    <3> QED BY <3>1
  <2> QED BY <2>1, <2>2, Zenon DEF Pairwise
<1>14. Newer(t, t) = {}
    BY <1>n DEF Newer
<1>15. \A c \in dying : t[c].class = "query" \/ \E e \in ToSet(em) : IsCancel(e) /\ e.id = c
    BY <1>8, <1>11, Zenon DEF CancelsAll
<1>16. /\ \A e \in ToSet(em) :
             /\ e.run = r /\ Fits(e, t)
             /\ IsAsk(e) => e.id \in Newer(t, t)
             /\ IsCancel(e) => e.id \in (x.open \cup Newer(t, t)) \ y.open
       /\ (x.open \cup Newer(t, t)) \ y.open = dying
  <2>1. (x.open \cup Newer(t, t)) \ y.open = dying
    BY <1>9, <1>14
  <2> QED BY <1>12, <2>1, Zenon
<1>17. Worked(r, x, t, y, t, em)
  <2>a. x.alive \cup x.dead \subseteq y.alive \cup y.dead
    BY <1>3
  <2>1. Len(t) <= Len(t) /\ y.open \subseteq x.open \cup Newer(t, t)
    BY <1>n, <1>9
  <2>2. \A c \in Newer(t, t) : /\ t[c].request = x.request /\ t[c].actor \in y.alive \cup y.dead
                              /\ \E e \in ToSet(em) : IsAsk(e) /\ e.id = c
    BY <1>14
  <2>3. \A c \in (x.open \cup Newer(t, t)) \ y.open :
            t[c].class = "query" \/ \E e \in ToSet(em) : IsCancel(e) /\ e.id = c
    BY <1>15, <1>16
  <2>4. \A e \in ToSet(em) :
            /\ e.run = r /\ Fits(e, t)
            /\ IsAsk(e) => e.id \in Newer(t, t)
            /\ IsCancel(e) => e.id \in (x.open \cup Newer(t, t)) \ y.open
    BY <1>16
  <2>5. \A c \in 1..Len(t) : t[c] = t[c]
    OBVIOUS
  <2> HIDE DEF em, y, dying
  <2> QED BY <1>3, <1>6, <1>11, <1>13, <2>a, <2>1, <2>2, <2>3, <2>4, <2>5, Zenon DEF Worked
<1> QED BY <1>2, <1>17

(* One thing after the other. *)
LEMMA WorkComposes ==
    ASSUME NEW r, NEW x, NEW t0, Sound(x, t0),
           NEW y, NEW t1, NEW em1, Worked(r, x, t0, y, t1, em1),
           NEW z, NEW t2, NEW em2, Worked(r, y, t1, z, t2, em2)
    PROVE  Worked(r, x, t0, z, t2, em1 \o em2)
<1>1. /\ t0 \in Seq(Capabilities) /\ t1 \in Seq(Capabilities) /\ t2 \in Seq(Capabilities)
      /\ Len(t0) <= Len(t1) /\ Len(t1) <= Len(t2) /\ Sound(z, t2)
      /\ \A c \in 1..Len(t0) : t1[c] = t0[c]
      /\ \A c \in 1..Len(t1) : t2[c] = t1[c]
    BY Zenon DEF Worked, Sound
<1>2. Len(t0) \in Nat /\ Len(t1) \in Nat /\ Len(t2) \in Nat
    BY <1>1, TableShape
<1>3. /\ Newer(t0, t2) = Newer(t0, t1) \cup Newer(t1, t2)
      /\ Newer(t0, t1) \cap Newer(t1, t2) = {}
      /\ Newer(t0, t1) \subseteq 1..Len(t1)
      /\ \A c \in 1..Len(t1) : c \notin Newer(t1, t2)
      /\ \A c \in 1..Len(t0) : c \in 1..Len(t1)
    BY <1>1, <1>2 DEF Newer
<1>4. x.open \subseteq 1..Len(t1)
  <2>1. \A c \in x.open : c \in 1..Len(t0)
    BY Zenon DEF Sound
  <2> QED BY <1>3, <2>1
<1>5. /\ em1 \in Seq(Emissions) /\ em2 \in Seq(Emissions)
      /\ Pairwise(FollowsRel, em1) /\ Pairwise(FollowsRel, em2)
    BY DEF Worked
<1>6. PICK em : em = em1 \o em2
    OBVIOUS
<1>7. /\ em \in Seq(Emissions) /\ ToSet(em) = ToSet(em1) \cup ToSet(em2)
      /\ ToSet(em1) \subseteq Emissions /\ ToSet(em2) \subseteq Emissions
    BY <1>5, <1>6, ToSetConcat, ToSetByIndex
<1>8. ASSUME NEW e \in ToSet(em1)
      PROVE  /\ e.run = r /\ Fits(e, t2)
             /\ IsAsk(e) => e.id \in Newer(t0, t1)
             /\ IsCancel(e) => /\ e.id \in (x.open \cup Newer(t0, t1)) \ y.open
                               /\ e.id \in (x.open \cup Newer(t0, t2)) \ z.open
             /\ IsAsk(e) \/ IsCancel(e) => e.id \in 1..Len(t1)
  <2>1. /\ e.run = r /\ Fits(e, t1)
        /\ IsAsk(e) => e.id \in Newer(t0, t1)
        /\ IsCancel(e) => e.id \in (x.open \cup Newer(t0, t1)) \ y.open
    BY Zenon DEF Worked
  <2>2. Fits(e, t2)
    BY <1>1, <2>1, FitsLonger
  <2>3. z.open \subseteq y.open \cup Newer(t1, t2)
    BY DEF Worked
  <2> QED BY <1>3, <1>4, <2>1, <2>2, <2>3
<1>9. ASSUME NEW e \in ToSet(em2)
      PROVE  /\ e.run = r /\ Fits(e, t2)
             /\ IsAsk(e) => e.id \in Newer(t1, t2)
             /\ IsCancel(e) => e.id \in (x.open \cup Newer(t0, t2)) \ z.open
  <2>1. /\ e.run = r /\ Fits(e, t2)
        /\ IsAsk(e) => e.id \in Newer(t1, t2)
        /\ IsCancel(e) => e.id \in (y.open \cup Newer(t1, t2)) \ z.open
    BY Zenon DEF Worked
  <2>2. y.open \subseteq x.open \cup Newer(t0, t1)
    BY DEF Worked
  <2> QED BY <1>3, <2>1, <2>2
<1>10. Pairwise(FollowsRel, em)
  <2>1. ASSUME NEW a \in ToSet(em1), NEW b \in ToSet(em2) PROVE <<a, b>> \in FollowsRel
    <3>1. IsAsk(b) => ~(a.id = b.id /\ (IsAsk(a) \/ IsCancel(a)))
      BY <1>3, <1>8, <1>9
    <3> QED BY <1>7, <3>1, FollowsPair DEF Follows
  <2> QED BY <1>5, <1>6, <2>1, PairwiseConcat
<1>a. /\ x.alive \cup x.dead \subseteq y.alive \cup y.dead
      /\ y.alive \cup y.dead \subseteq z.alive \cup z.dead
    BY DEF Worked
<1>11. ASSUME NEW c \in Newer(t0, t2)
       PROVE  /\ t2[c].request = x.request /\ t2[c].actor \in z.alive \cup z.dead
              /\ \E e \in ToSet(em) : IsAsk(e) /\ e.id = c
  <2>1. CASE c \in Newer(t0, t1)
    <3>1. /\ t1[c].request = x.request /\ t1[c].actor \in y.alive \cup y.dead
          /\ \E e \in ToSet(em1) : IsAsk(e) /\ e.id = c
      BY <2>1 DEF Worked
    <3>2. t2[c] = t1[c]
      BY <1>1, <1>3, <2>1
    <3> QED BY <1>a, <1>7, <3>1, <3>2
  <2>2. CASE c \in Newer(t1, t2)
    <3>1. /\ t2[c].request = y.request /\ t2[c].actor \in z.alive \cup z.dead
          /\ \E e \in ToSet(em2) : IsAsk(e) /\ e.id = c
      BY <2>2 DEF Worked
    <3>2. y.request = x.request
      BY DEF Worked
    <3> QED BY <1>7, <3>1, <3>2
  <2> QED BY <1>3, <2>1, <2>2
<1>12. ASSUME NEW c \in (x.open \cup Newer(t0, t2)) \ z.open
       PROVE  t2[c].class = "query" \/ \E e \in ToSet(em) : IsCancel(e) /\ e.id = c
  <2>1. CASE c \in y.open \cup Newer(t1, t2)
    <3>1. t2[c].class = "query" \/ \E e \in ToSet(em2) : IsCancel(e) /\ e.id = c
      BY <2>1 DEF Worked
    <3> QED BY <1>7, <3>1
  <2>2. CASE c \notin y.open \cup Newer(t1, t2)
    <3>1. c \in (x.open \cup Newer(t0, t1)) \ y.open
      BY <1>3, <2>2
    <3>2. t1[c].class = "query" \/ \E e \in ToSet(em1) : IsCancel(e) /\ e.id = c
      BY <3>1 DEF Worked
    <3>3. t2[c] = t1[c]
      BY <1>1, <1>3, <1>4, <3>1
    <3> QED BY <1>7, <3>2, <3>3
  <2> QED BY <2>1, <2>2
<1>13. z.open \subseteq x.open \cup Newer(t0, t2)
  <2>1. z.open \subseteq y.open \cup Newer(t1, t2) /\ y.open \subseteq x.open \cup Newer(t0, t1)
    BY DEF Worked
  <2> QED BY <1>3, <2>1
<1>14. \A c \in 1..Len(t0) : t2[c] = t0[c]
    BY <1>1, <1>3
<1>15. Len(t0) <= Len(t2)
    BY <1>1, <1>2
<1>16. z.session = x.session /\ z.request = x.request /\ z.outputFailed = x.outputFailed
    BY DEF Worked
<1>17. \A e \in ToSet(em) :
           /\ e.run = r /\ Fits(e, t2)
           /\ IsAsk(e) => e.id \in Newer(t0, t2)
           /\ IsCancel(e) => e.id \in (x.open \cup Newer(t0, t2)) \ z.open
  <2> TAKE e \in ToSet(em)
  <2>1. CASE e \in ToSet(em1)
    BY <1>3, <1>8, <2>1
  <2>2. CASE e \in ToSet(em2)
    BY <1>3, <1>9, <2>2
  <2> QED BY <1>7, <2>1, <2>2
<1>b. x.alive \cup x.dead \subseteq z.alive \cup z.dead
    BY <1>a
<1>18. Worked(r, x, t0, z, t2, em)
    BY <1>1, <1>b, <1>7, <1>10, <1>11, <1>12, <1>13, <1>14, <1>15, <1>16, <1>17, Zenon DEF Worked
<1> QED BY <1>6, <1>18

(***************************************************************************)
(* What an activation of run r does, whichever handler it is part of: the  *)
(* context becomes y, em is emitted, and capabilities "closed" have been   *)
(* answered before it.  What it opens it asks for, and what else it closes *)
(* it cancels, unless it is a query.                                       *)
(***************************************************************************)
Acts(r, y, em, closed) ==
    /\ runs' = [runs EXCEPT ![r] = y] /\ emits' = emits \o em
    /\ Grows(caps')
    /\ y \in Contexts /\ y.session = runs[r].session /\ y.request = runs[r].request
    /\ y.outputFailed = runs[r].outputFailed /\ y.alive \cap y.dead = {}
    /\ y.open \subseteq (runs[r].open \ closed) \cup New(caps')
    /\ runs[r].alive \cup runs[r].dead \subseteq y.alive \cup y.dead
    /\ \A c \in y.open : caps'[c].actor \in y.alive
    /\ \A c \in New(caps') : /\ caps'[c].request = runs[r].request
                             /\ caps'[c].actor \in y.alive \cup y.dead
                             /\ \E e \in ToSet(em) : IsAsk(e) /\ e.id = c
    /\ em \in Seq(Emissions) /\ Pairwise(FollowsRel, em)
    /\ \A e \in ToSet(em) :
           /\ e.run = r /\ Fits(e, caps')
           /\ IsAsk(e) => e.id \in New(caps')
           /\ IsCancel(e) => e.id \in ((runs[r].open \ closed) \cup New(caps')) \ y.open
    /\ \A c \in ((runs[r].open \ closed) \cup New(caps')) \ y.open :
           caps'[c].class = "query" \/ \E e \in ToSet(em) : IsCancel(e) /\ e.id = c

(* Context x is that of run r at the time it is activated. *)
Activated(r, x, closed) ==
    /\ x \in Contexts /\ x.session = runs[r].session /\ x.request = runs[r].request
    /\ x.outputFailed = runs[r].outputFailed /\ x.alive \cap x.dead = {}
    /\ x.open = runs[r].open \ closed
    /\ runs[r].alive \cup runs[r].dead \subseteq x.alive \cup x.dead
    /\ \A c \in x.open : caps[c].actor \in x.alive

LEMMA NotNew ==
    ASSUME KernelTyped, NEW c \in 1..Len(caps), NEW table
    PROVE  c \notin New(table)
<1>1. Len(caps) \in Nat
    BY LenProperties DEF KernelTyped
<1> QED BY <1>1 DEF New

LEMMA OpenKnown ==
    ASSUME KernelTyped, OpenByAlive, NEW r \in Live, NEW c \in runs[r].open
    PROVE  c \in 1..Len(caps) /\ c \in DOMAIN caps
<1>1. DOMAIN caps = 1..Len(caps)
    BY LenProperties DEF KernelTyped
<1>2. c \in DOMAIN caps
    BY Zenon DEF OpenByAlive
<1> QED BY <1>1, <1>2

LEMMA ActivatedSound ==
    ASSUME KernelTyped, OpenByAlive, NEW r \in Live, NEW x, NEW closed, Activated(r, x, closed)
    PROVE  Sound(x, caps)
<1>1. \A c \in x.open : c \in 1..Len(caps)
    BY OpenKnown DEF Activated
<1>2. \A c \in x.open : c \in 1..Len(caps) /\ caps[c].actor \in x.alive
    BY <1>1, Zenon DEF Activated
<1>3. caps \in Seq(Capabilities) /\ Len(caps) <= MaxCaps
    BY DEF KernelTyped
<1>4. x \in Contexts /\ x.alive \cap x.dead = {}
    BY DEF Activated
<1> QED BY <1>2, <1>3, <1>4 DEF Sound

LEMMA WorkedActs ==
    ASSUME NEW r, NEW x, NEW closed, Activated(r, x, closed),
           NEW y, NEW em, Worked(r, x, caps, y, caps', em),
           runs' = [runs EXCEPT ![r] = y], emits' = emits \o em
    PROVE  Acts(r, y, em, closed)
<1>1. Newer(caps, caps') = New(caps')
    BY DEF Newer, New
<1>2. /\ x.session = runs[r].session /\ x.request = runs[r].request
      /\ x.outputFailed = runs[r].outputFailed /\ x.open = runs[r].open \ closed
    BY DEF Activated
<1>3. /\ y \in Contexts /\ y.alive \cap y.dead = {}
      /\ \A c \in y.open : caps'[c].actor \in y.alive
      /\ caps' \in Seq(Capabilities) /\ Len(caps') <= MaxCaps
    BY Zenon DEF Worked, Sound
<1>4. Grows(caps')
    BY <1>3, Zenon DEF Worked, Grows
<1>5. runs[r].alive \cup runs[r].dead \subseteq y.alive \cup y.dead
    BY DEF Worked, Activated
<1>6. \A c \in New(caps') : /\ caps'[c].request = runs[r].request
                            /\ caps'[c].actor \in y.alive \cup y.dead
                            /\ \E e \in ToSet(em) : IsAsk(e) /\ e.id = c
    BY <1>1, <1>2 DEF Worked
<1>7. /\ em \in Seq(Emissions) /\ Pairwise(FollowsRel, em)
      /\ \A e \in ToSet(em) :
             /\ e.run = r /\ Fits(e, caps')
             /\ IsAsk(e) => e.id \in New(caps')
             /\ IsCancel(e) => e.id \in ((runs[r].open \ closed) \cup New(caps')) \ y.open
      /\ \A c \in ((runs[r].open \ closed) \cup New(caps')) \ y.open :
             caps'[c].class = "query" \/ \E e \in ToSet(em) : IsCancel(e) /\ e.id = c
      /\ y.open \subseteq (runs[r].open \ closed) \cup New(caps')
      /\ y.session = x.session /\ y.request = x.request /\ y.outputFailed = x.outputFailed
    BY <1>1, <1>2, Zenon DEF Worked
<1> QED BY <1>2, <1>3, <1>4, <1>5, <1>6, <1>7, Zenon DEF Acts

LEMMA ActivateActs ==
    ASSUME KernelTyped, OpenByAlive, NEW r \in Live, NEW x, NEW closed,
           Activated(r, x, closed), Activate(r, x)
    PROVE  \E y, em : Acts(r, y, em, closed)
<1>0. r \in Runs
    BY LiveContext
<1>1. PICK first \in Reactions(r, x, caps) :
          \E delta \in Deltas(r, first.context, first.caps) :
          \E last \in Reactions(r, delta.context, first.caps) :
              /\ runs' = [runs EXCEPT ![r] = last.context]
              /\ caps' = last.caps
              /\ emits' = emits \o (first.emits \o (delta.emits \o last.emits))
    BY Zenon DEF Activate
<1>2. PICK delta \in Deltas(r, first.context, first.caps) :
          \E last \in Reactions(r, delta.context, first.caps) :
              /\ runs' = [runs EXCEPT ![r] = last.context]
              /\ caps' = last.caps
              /\ emits' = emits \o (first.emits \o (delta.emits \o last.emits))
    BY <1>1, Zenon
<1>3. PICK last \in Reactions(r, delta.context, first.caps) :
          /\ runs' = [runs EXCEPT ![r] = last.context]
          /\ caps' = last.caps
          /\ emits' = emits \o (first.emits \o (delta.emits \o last.emits))
    BY <1>2, Zenon
<1>4. Sound(x, caps)
    BY ActivatedSound
<1>5. Worked(r, x, caps, first.context, first.caps, first.emits)
  <2>1. PICK o \in Openings(x, caps), s \in Signals(x) : first = Reaction(r, x, caps, o, s)
    BY DEF Reactions
  <2>2. s \in {"none", "complete", "failed"}
    BY DEF Signals
  <2> QED BY <1>0, <1>4, <2>1, <2>2, ReactionWorks
<1>6. Sound(first.context, first.caps)
    BY <1>5 DEF Worked
<1>7. Worked(r, first.context, first.caps, delta.context, first.caps, delta.emits)
    BY <1>0, <1>2, <1>6, DeltaWorks
<1>8. Sound(delta.context, first.caps)
    BY <1>7 DEF Worked
<1>9. Worked(r, delta.context, first.caps, last.context, last.caps, last.emits)
  <2>1. PICK o \in Openings(delta.context, first.caps), s \in Signals(delta.context) :
            last = Reaction(r, delta.context, first.caps, o, s)
    BY <1>3 DEF Reactions
  <2>2. s \in {"none", "complete", "failed"}
    BY DEF Signals
  <2> QED BY <1>0, <1>8, <2>1, <2>2, ReactionWorks
<1>10. Worked(r, first.context, first.caps, last.context, last.caps, delta.emits \o last.emits)
    BY <1>6, <1>7, <1>9, WorkComposes
<1>11. Worked(r, x, caps, last.context, last.caps, first.emits \o (delta.emits \o last.emits))
    BY <1>4, <1>5, <1>10, WorkComposes
<1>12. Acts(r, last.context, first.emits \o (delta.emits \o last.emits), closed)
    BY <1>3, <1>11, WorkedActs
<1> QED BY <1>12

-----------------------------------------------------------------------------
(* The steps of a handler. *)

LEMMA StepFields ==
    /\ Flush \in Steplike /\ Flush.op = "flush"
    /\ \A r \in Runs :
           /\ Settle(r) \in Steplike /\ Settle(r).op = "settle" /\ Settle(r).run = r
           /\ Decide(r) \in Steplike /\ Decide(r).op = "decide" /\ Decide(r).run = r
           /\ Start(r) \in Steplike /\ Start(r).op = "start" /\ Start(r).run = r
           /\ Reaped(r) \in Steplike /\ Reaped(r).op = "reaped" /\ Reaped(r).run = r
           /\ Mark(r) \in Steplike /\ Mark(r).op = "mark" /\ Mark(r).run = r
    /\ \A r \in Runs, s \in {"killed", "failed"} :
           /\ End(r, s) \in Steplike /\ End(r, s).op = "end" /\ End(r, s).run = r
           /\ End(r, s).status = s
    /\ \A r \in Runs, c \in 1..MaxCaps :
           /\ Deliver(r, c) \in Steplike /\ Deliver(r, c).op = "deliver"
           /\ Deliver(r, c).run = r /\ Deliver(r, c).id = c
    /\ \A q \in Requests, s \in {"completed", "failed", "killed"} :
           /\ Reply(q, s) \in Steplike /\ Reply(q, s).op = "reply"
           /\ Reply(q, s).request = q /\ Reply(q, s).status = s
BY DEF Flush, Settle, Decide, Start, Reaped, Mark, End, Deliver, Reply, Steplike

LEMMA StepKinds ==
    ASSUME NEW t \in Steplike
    PROVE  /\ t.op \in {"flush", "settle", "decide", "start", "reaped", "mark", "end",
                        "deliver", "reply"}
           /\ t.op = "flush" => t = Flush
           /\ t.op = "settle" => t.run \in Runs /\ t = Settle(t.run)
           /\ t.op = "decide" => t.run \in Runs /\ t = Decide(t.run)
           /\ t.op = "start" => t.run \in Runs /\ t = Start(t.run)
           /\ t.op = "reaped" => t.run \in Runs /\ t = Reaped(t.run)
           /\ t.op = "mark" => t.run \in Runs /\ t = Mark(t.run)
           /\ t.op = "end" => t.run \in Runs /\ t.status \in {"killed", "failed"}
           /\ t.op = "deliver" => /\ t.run \in Runs /\ t.id \in 1..MaxCaps
                                  /\ t = Deliver(t.run, t.id)
           /\ t.op = "reply" => t.request \in Requests /\ t.status \in {"completed", "failed", "killed"}
<1>1. CASE t \in [op : {"flush"}]
    BY <1>1 DEF Flush
<1>2. CASE t \in [op : {"settle", "decide", "start", "reaped", "mark"}, run : Runs]
    BY <1>2 DEF Settle, Decide, Start, Reaped, Mark
<1>3. CASE t \in [op : {"end"}, run : Runs, status : {"killed", "failed"}]
    BY <1>3
<1>4. CASE t \in [op : {"deliver"}, run : Runs, id : 1..MaxCaps]
    BY <1>4 DEF Deliver
<1>5. CASE t \in [op : {"reply"}, request : Requests, status : {"completed", "failed", "killed"}]
    BY <1>5
<1> QED BY <1>1, <1>2, <1>3, <1>4, <1>5 DEF Steplike

OrderedRel == {p \in Steplike \X Steplike : Ordered(p[1], p[2])}

LEMMA OrderedPair ==
    ASSUME NEW a \in Steplike, NEW b \in Steplike
    PROVE  <<a, b>> \in OrderedRel <=> Ordered(a, b)
BY DEF OrderedRel

LEMMA ProgramPairwise ==
    ASSUME NEW p \in Seq(Steplike)
    PROVE  (\A j, k \in 1..Len(p) : j < k => Ordered(p[j], p[k])) <=> Pairwise(OrderedRel, p)
<1>1. \A j \in 1..Len(p) : p[j] \in Steplike
    BY ElementOfSeq
<1>2. \A j, k \in 1..Len(p) : <<p[j], p[k]>> \in OrderedRel <=> Ordered(p[j], p[k])
    BY <1>1, OrderedPair
<1> QED BY <1>2, Zenon DEF Pairwise

Rest == ToSet(Tail(todo))

LEMMA HeadShape ==
    ASSUME HostTyped, ProgramOrdered, todo # <<>>
    PROVE  /\ Head(todo) \in Steplike /\ Tail(todo) \in Seq(Steplike)
           /\ Steps = {Head(todo)} \cup Rest /\ Rest \subseteq Steplike
           /\ \A b \in Rest : Ordered(Head(todo), b)
           /\ Pairwise(OrderedRel, Tail(todo))
<1>1. todo \in Seq(Steplike)
    BY DEF HostTyped
<1>2. /\ Head(todo) \in Steplike /\ Tail(todo) \in Seq(Steplike)
      /\ Steps = {Head(todo)} \cup Rest
    BY <1>1, ToSetHead DEF Steps, Rest
<1>3. Pairwise(OrderedRel, todo)
    BY <1>1, ProgramPairwise DEF ProgramOrdered
<1>4. Pairwise(OrderedRel, Tail(todo)) /\ \A b \in Rest : <<Head(todo), b>> \in OrderedRel
    BY <1>1, <1>3, PairwiseHead DEF Rest
<1>5. Rest \subseteq Steplike
    BY <1>2, ToSetByIndex DEF Rest
<1> QED BY <1>2, <1>4, <1>5, OrderedPair

(* The program becomes "steps" and then the rest of what it was. *)
LEMMA ThenShape ==
    ASSUME HostTyped, ProgramOrdered, todo # <<>>, NEW steps \in Seq(Steplike),
           Then(steps), Pairwise(OrderedRel, steps),
           \A a \in ToSet(steps), b \in Rest : Ordered(a, b)
    PROVE  todo' \in Seq(Steplike) /\ ProgramOrdered' /\ Steps' = ToSet(steps) \cup Rest
<1>1. Tail(todo) \in Seq(Steplike) /\ Pairwise(OrderedRel, Tail(todo)) /\ Rest \subseteq Steplike
    BY HeadShape
<1>2. todo' = steps \o Tail(todo)
    BY DEF Then
<1>3. todo' \in Seq(Steplike) /\ Steps' = ToSet(steps) \cup Rest
    BY <1>1, <1>2, ToSetConcat DEF Steps, Rest
<1>4. \A a \in ToSet(steps), b \in ToSet(Tail(todo)) : <<a, b>> \in OrderedRel
  <2>1. ToSet(steps) \subseteq Steplike
    BY ToSetByIndex
  <2> QED BY <1>1, <2>1, OrderedPair DEF Rest
<1>5. Pairwise(OrderedRel, todo')
    BY <1>1, <1>2, <1>4, PairwiseConcat
<1>6. ProgramOrdered'
    BY <1>3, <1>5, ProgramPairwise DEF ProgramOrdered
<1> QED BY <1>3, <1>6

LEMMA ThenNothing ==
    ASSUME HostTyped, ProgramOrdered, todo # <<>>, Then(<<>>)
    PROVE  todo' = Tail(todo) /\ todo' \in Seq(Steplike) /\ ProgramOrdered' /\ Steps' = Rest
<1>1. Tail(todo) \in Seq(Steplike) /\ Pairwise(OrderedRel, Tail(todo))
    BY HeadShape
<1>2. todo' = Tail(todo)
    BY <1>1, ConcatEmptySeq DEF Then
<1>3. ProgramOrdered'
    BY <1>1, <1>2, ProgramPairwise DEF ProgramOrdered
<1> QED BY <1>1, <1>2, <1>3 DEF Steps, Rest

(* Programs of one and of two steps. *)
LEMMA ThenOne ==
    ASSUME HostTyped, ProgramOrdered, todo # <<>>, NEW a \in Steplike, Then(<<a>>),
           \A b \in Rest : Ordered(a, b)
    PROVE  /\ todo' \in Seq(Steplike) /\ ProgramOrdered' /\ Steps' = {a} \cup Rest
           /\ todo' # <<>> /\ Head(todo') = a
<1>1. PICK steps : steps = <<a>>
    OBVIOUS
<1>2. steps \in Seq(Steplike) /\ ToSet(steps) = {a} /\ Pairwise(OrderedRel, steps)
  <2>1. <<a>> \in Seq(Steplike)
    OBVIOUS
  <2> QED BY <1>1, <2>1, ToSetSmall, PairwiseSmall
<1>3. Then(steps)
    BY <1>1
<1>4. todo' \in Seq(Steplike) /\ ProgramOrdered' /\ Steps' = ToSet(steps) \cup Rest
    BY <1>2, <1>3, ThenShape
<1>5. todo' # <<>> /\ Head(todo') = a
  <2>1. Tail(todo) \in Seq(Steplike) /\ todo' = <<a>> \o Tail(todo)
    BY HeadShape DEF Then
  <2> QED BY <2>1
<1> QED BY <1>2, <1>4, <1>5

LEMMA ThenTwo ==
    ASSUME HostTyped, ProgramOrdered, todo # <<>>, NEW a \in Steplike, NEW c \in Steplike,
           Then(<<a, c>>), Ordered(a, c), \A b \in Rest : Ordered(a, b) /\ Ordered(c, b)
    PROVE  /\ todo' \in Seq(Steplike) /\ ProgramOrdered' /\ Steps' = {a, c} \cup Rest
           /\ todo' # <<>> /\ Head(todo') = a
<1>1. PICK steps : steps = <<a, c>>
    OBVIOUS
<1>2. steps \in Seq(Steplike) /\ ToSet(steps) = {a, c} /\ Pairwise(OrderedRel, steps)
  <2>1. <<a, c>> \in Seq(Steplike)
    OBVIOUS
  <2>2. <<a, c>> \in OrderedRel
    BY OrderedPair
  <2> QED BY <1>1, <2>1, <2>2, ToSetSmall, PairwiseSmall
<1>3. Then(steps)
    BY <1>1
<1>4. todo' \in Seq(Steplike) /\ ProgramOrdered' /\ Steps' = ToSet(steps) \cup Rest
    BY <1>2, <1>3, ThenShape
<1>5. todo' # <<>> /\ Head(todo') = a
  <2>1. Tail(todo) \in Seq(Steplike) /\ todo' = <<a, c>> \o Tail(todo)
    BY HeadShape DEF Then
  <2> QED BY <2>1
<1> QED BY <1>2, <1>4, <1>5

(* A handler's whole program. *)
LEMMA NewProgram ==
    ASSUME todo' \in Seq(Steplike), Pairwise(OrderedRel, todo')
    PROVE  ProgramOrdered'
BY ProgramPairwise DEF ProgramOrdered

LEMMA ProgramOfOne ==
    ASSUME NEW a \in Steplike, todo' = <<a>>
    PROVE  /\ todo' \in Seq(Steplike) /\ ProgramOrdered' /\ Steps' = {a}
           /\ todo' # <<>> /\ Head(todo') = a
<1>1. todo' \in Seq(Steplike) /\ Steps' = {a} /\ Pairwise(OrderedRel, todo')
  <2>1. <<a>> \in Seq(Steplike)
    OBVIOUS
  <2> QED BY <2>1, ToSetSmall, PairwiseSmall DEF Steps
<1>2. ProgramOrdered'
    BY <1>1, NewProgram
<1> QED BY <1>1, <1>2

LEMMA ProgramOfTwo ==
    ASSUME NEW a \in Steplike, NEW c \in Steplike, todo' = <<a, c>>, Ordered(a, c)
    PROVE  /\ todo' \in Seq(Steplike) /\ ProgramOrdered' /\ Steps' = {a, c}
           /\ todo' # <<>> /\ Head(todo') = a
<1>1. todo' \in Seq(Steplike) /\ Steps' = {a, c} /\ Pairwise(OrderedRel, todo')
  <2>1. <<a, c>> \in Seq(Steplike)
    OBVIOUS
  <2>2. <<a, c>> \in OrderedRel
    BY OrderedPair
  <2> QED BY <2>1, <2>2, ToSetSmall, PairwiseSmall DEF Steps
<1>2. ProgramOrdered'
    BY <1>1, NewProgram
<1> QED BY <1>1, <1>2

LEMMA NoProgram ==
    ASSUME todo' = <<>>
    PROVE  todo' \in Seq(Steplike) /\ ProgramOrdered' /\ Steps' = {}
<1>1. todo' \in Seq(Steplike) /\ Steps' = {} /\ Pairwise(OrderedRel, todo')
    BY ToSetSmall, PairwiseSmall, EmptySeq DEF Steps
<1>2. ProgramOrdered'
    BY <1>1, NewProgram
<1> QED BY <1>1, <1>2

-----------------------------------------------------------------------------
(***************************************************************************)
(* The runs.  Most steps leave alone which runs are live and what is owed: *)
(* it is enough that no promise is dropped from the program and that what  *)
(* it gains is sound.                                                      *)
(***************************************************************************)
LEMMA RunsKept ==
    ASSUME RunsInv, Live' = Live,
           UNCHANGED <<active, requests, replied, process>>,
           \A r \in Live : /\ runs'[r].request = runs[r].request
                           /\ runs'[r].session = runs[r].session,
           \A t \in Steps' : t \notin Steps => StepSound(t)',
           \A t \in Steps : t \notin Steps' => /\ t.op \notin {"reaped", "reply"}
                                               /\ t.op = "settle" => \A b \in Steps' :
                                                      b.op \notin {"deliver", "mark"},
           \A t \in Steps : t.op = "start" => /\ runs'[t.run].alive = runs[t.run].alive
                                              /\ runs'[t.run].dead = runs[t.run].dead
                                              /\ runs'[t.run].open = runs[t.run].open
    PROVE  StepsSound' /\ RepliesOwed' /\ SameSession'
<1>1. ASSUME NEW t \in Steps', t \in Steps PROVE StepSound(t)'
  <2>1. StepSound(t)
    BY <1>1 DEF RunsInv, StepsSound
  <2>2. t.op \in {"deliver", "mark"} => Settle(t.run)' \in Steps'
    <3> SUFFICES ASSUME t.op \in {"deliver", "mark"} PROVE Settle(t.run) \in Steps'
      BY DEF Settle
    <3>1. Settle(t.run) \in Steps /\ Settle(t.run).op = "settle"
      BY <2>1 DEF StepSound, Settle
    <3> QED BY <1>1, <3>1
  <2>3. (t.op \in OfRun)' = (t.op \in OfRun)
    BY DEF OfRun
  <2> QED BY <1>1, <2>1, <2>2, <2>3 DEF StepSound
<1>2. StepsSound'
    BY <1>1 DEF StepsSound
<1>3. ASSUME NEW r \in Runs, Reaped(r) \in Steps PROVE Reaped(r) \in Steps'
    BY <1>3, StepFields
<1>4. ASSUME NEW t \in Steps, t.op = "reply" PROVE t \in Steps'
    BY <1>4
<1>5. RepliesOwed
    BY DEF RunsInv
<1>6. \A r \in Live' : active'[r] = runs'[r].request
    BY <1>5 DEF RepliesOwed
<1>7. \A r \in Runs : active'[r] # 0 =>
           /\ active'[r] <= requests' /\ replied'[active'[r]] = <<>>
           /\ r \notin Live' => Reaped(r) \in Steps'
    BY <1>3, <1>5, Zenon DEF RepliesOwed
<1>8. \A r, x \in Runs : active'[r] = active'[x] /\ active'[r] # 0 => r = x
    BY <1>5, Zenon DEF RepliesOwed
<1>9. \A q \in Requests :
           /\ Len(replied'[q]) <= 1
           /\ q > requests' => replied'[q] = <<>>
           /\ (process' = "up" /\ q <= requests' /\ replied'[q] = <<>>) =>
                  \/ \E r \in Runs : active'[r] = q
                  \/ \E t \in Steps' : t.op = "reply" /\ t.request = q
    BY <1>4, <1>5, Zenon DEF RepliesOwed
<1>10. RepliesOwed'
    BY <1>6, <1>7, <1>8, <1>9, Zenon DEF RepliesOwed, Reaped
<1>11. SameSession'
    BY DEF RunsInv, SameSession
<1> QED BY <1>2, <1>10, <1>11

LEMMA ContextNotNone ==
    ASSUME NEW x \in Contexts PROVE x # NoRun
BY NoRunAssumption

(* Replacing the context of a live run. *)
LEMMA LiveKept ==
    ASSUME KernelTyped, NEW r \in Live, NEW y \in Contexts, runs' = [runs EXCEPT ![r] = y]
    PROVE  /\ runs' \in [Runs -> Contexts \cup {NoRun}] /\ Live' = Live
           /\ runs'[r] = y /\ \A x \in Runs : x # r => runs'[x] = runs[x]
<1>1. runs \in [Runs -> Contexts \cup {NoRun}] /\ r \in Runs
    BY LiveContext DEF KernelTyped
<1>2. runs' \in [Runs -> Contexts \cup {NoRun}]
    BY <1>1
<1>3. runs'[r] = y /\ \A x \in Runs : x # r => runs'[x] = runs[x]
    BY <1>1
<1>4. y # NoRun
    BY ContextNotNone
<1>5. \A x \in Runs : x \in Live' <=> x \in Live
    BY <1>3, <1>4 DEF Live
<1>6. Live' \subseteq Runs /\ Live \subseteq Runs
    BY DEF Live
<1> QED BY <1>2, <1>3, <1>5, <1>6

LEMMA ActsKernel ==
    ASSUME TypeOK, NEW r \in Live, NEW y, NEW em, NEW closed, Acts(r, y, em, closed)
    PROVE  /\ KernelTyped' /\ OpenByAlive' /\ Live' = Live
           /\ \A x \in Live : /\ runs'[x].request = runs[x].request
                              /\ runs'[x].session = runs[x].session
                              /\ runs'[x].outputFailed = runs[x].outputFailed
           /\ runs'[r] = y /\ \A x \in Runs : x # r => runs'[x] = runs[x]
           /\ \A c \in DOMAIN caps : c \in DOMAIN caps' /\ caps'[c] = caps[c]
<1>0. KernelTyped /\ OpenByAlive /\ Len(caps) \in Nat /\ DOMAIN caps = 1..Len(caps)
    BY LenProperties DEF TypeOK, KernelTyped
<1>1. /\ runs' \in [Runs -> Contexts \cup {NoRun}] /\ Live' = Live
      /\ runs'[r] = y /\ \A x \in Runs : x # r => runs'[x] = runs[x]
    BY <1>0, LiveKept DEF Acts
<1>2. /\ caps' \in Seq(Capabilities) /\ Len(caps') <= MaxCaps /\ Len(caps) <= Len(caps')
      /\ \A c \in 1..Len(caps) : caps'[c] = caps[c]
    BY DEF Acts, Grows
<1>3. DOMAIN caps' = 1..Len(caps') /\ Len(caps') \in Nat
    BY <1>2, LenProperties
<1>4. emits' \in Seq(Emissions)
  <2>1. emits \in Seq(Emissions) /\ em \in Seq(Emissions) /\ emits' = emits \o em
    BY <1>0 DEF KernelTyped, Acts
  <2> QED BY <2>1, ConcatProperties
<1>5. KernelTyped'
    BY <1>1, <1>2, <1>4 DEF KernelTyped
<1>6. \A c \in DOMAIN caps : c \in DOMAIN caps' /\ caps'[c] = caps[c]
    BY <1>0, <1>2, <1>3
<1>7. \A x \in Live : /\ runs'[x].request = runs[x].request
                      /\ runs'[x].session = runs[x].session
                      /\ runs'[x].outputFailed = runs[x].outputFailed
  <2> TAKE x \in Live
  <2>1. x \in Runs
    BY DEF Live
  <2>2. CASE x = r
    BY <1>1, <2>2 DEF Acts
  <2>3. CASE x # r
    BY <1>1, <2>1, <2>3
  <2> QED BY <2>2, <2>3
<1>8. OpenByAlive'
  <2>1. ASSUME NEW x \in Live', x # r
        PROVE  /\ runs'[x].alive \cap runs'[x].dead = {}
               /\ \A c \in runs'[x].open : /\ c \in DOMAIN caps'
                                           /\ caps'[c].request = runs'[x].request
                                           /\ caps'[c].actor \in runs'[x].alive
    <3>1. x \in Live /\ runs'[x] = runs[x]
      BY <1>1, <2>1 DEF Live
    <3>2. /\ runs[x].alive \cap runs[x].dead = {}
          /\ \A c \in runs[x].open : /\ c \in DOMAIN caps
                                     /\ caps[c].request = runs[x].request
                                     /\ caps[c].actor \in runs[x].alive
      BY <1>0, <3>1, Zenon DEF OpenByAlive
    <3> QED BY <1>6, <3>1, <3>2
  <2>2. /\ runs'[r].alive \cap runs'[r].dead = {}
        /\ \A c \in runs'[r].open : /\ c \in DOMAIN caps'
                                    /\ caps'[c].request = runs'[r].request
                                    /\ caps'[c].actor \in runs'[r].alive
    <3>1. y.alive \cap y.dead = {} /\ \A c \in y.open : caps'[c].actor \in y.alive
      BY DEF Acts
    <3>2. ASSUME NEW c \in y.open PROVE c \in DOMAIN caps' /\ caps'[c].request = y.request
      <4>1. c \in runs[r].open \/ c \in New(caps')
        BY DEF Acts
      <4>2. y.request = runs[r].request
        BY DEF Acts
      <4>3. CASE c \in runs[r].open
        <5>1. c \in DOMAIN caps /\ caps[c].request = runs[r].request
          BY <1>0, <4>3, Zenon DEF OpenByAlive
        <5> QED BY <1>6, <4>2, <5>1
      <4>4. CASE c \in New(caps')
        <5>1. caps'[c].request = runs[r].request
          BY <4>4, Zenon DEF Acts
        <5>2. c \in 1..Len(caps')
          BY <1>0, <1>2, <1>3, <4>4 DEF New
        <5> QED BY <1>3, <4>2, <5>1, <5>2
      <4> QED BY <4>1, <4>3, <4>4
    <3> QED BY <1>1, <3>1, <3>2
  <2> QED BY <2>1, <2>2, Zenon DEF OpenByAlive
<1> QED BY <1>1, <1>5, <1>6, <1>7, <1>8

-----------------------------------------------------------------------------
(* The handlers that activate an actor. *)

LEMMA IdleFacts ==
    ASSUME RunsInv, Idle
    PROVE  /\ process = "up" /\ todo = <<>> /\ Steps = {} /\ batch = <<>> /\ emits = <<>>
           /\ \A r \in Runs : active[r] # 0 <=> r \in Live
<1>1. process = "up" /\ todo = <<>>
    BY DEF Idle
<1>2. Steps = {}
    BY <1>1, ToSetSmall DEF Steps
<1>3. batch = <<>> /\ emits = <<>>
    BY <1>1 DEF RunsInv, QueueWatched
<1>4. ASSUME NEW r \in Runs, active[r] # 0 PROVE r \in Live
    BY <1>2, <1>4 DEF RunsInv, RepliesOwed
<1>5. ASSUME NEW r \in Live PROVE active[r] # 0
  <2>1. active[r] = runs[r].request /\ runs[r].request \in Requests
    BY LiveContext DEF RunsInv, TypeOK, RepliesOwed
  <2> QED BY <2>1 DEF Requests
<1> QED BY <1>1, <1>2, <1>3, <1>4, <1>5

LEMMA ActivatedAsIs ==
    ASSUME TypeOK, NEW r \in Live PROVE Activated(r, runs[r], {})
<1>1. runs[r] \in Contexts
    BY LiveContext DEF TypeOK
<1>2. /\ runs[r].alive \cap runs[r].dead = {}
      /\ \A c \in runs[r].open : caps[c].actor \in runs[r].alive
    BY Zenon DEF TypeOK, OpenByAlive
<1> QED BY <1>1, <1>2 DEF Activated

LEMMA ActivatedClosed ==
    ASSUME TypeOK, NEW r \in Live, NEW c PROVE Activated(r, Closed(r, c), {c})
<1> DEFINE x == runs[r]
<1>1. x \in Contexts
    BY LiveContext DEF TypeOK
<1>2. x.alive \cap x.dead = {} /\ \A d \in x.open : caps[d].actor \in x.alive
    BY Zenon DEF TypeOK, OpenByAlive
<1>3. Closed(r, c) = [x EXCEPT !.open = x.open \ {c}]
    BY DEF Closed
<1> HIDE DEF x
<1>4. PICK o : o = x.open \ {c}
    OBVIOUS
<1>5. o \in SUBSET (1..MaxCaps)
    BY <1>1, <1>4 DEF Contexts
<1>6. PICK z : z = [x EXCEPT !.open = o]
    OBVIOUS
<1>7. /\ z \in Contexts /\ z.session = x.session /\ z.request = x.request /\ z.alive = x.alive
      /\ z.dead = x.dead /\ z.outputFailed = x.outputFailed /\ z.open = o
    BY <1>1, <1>5, <1>6 DEF Contexts
<1>8. Closed(r, c) = z
    BY <1>3, <1>4, <1>6
<1> QED BY <1>2, <1>4, <1>7, <1>8 DEF Activated, x

LEMMA StartActs ==
    ASSUME RunsInv, StartProgram
    PROVE  /\ Head(todo).run \in Live
           /\ \E y, em : Acts(Head(todo).run, y, em, {})
<1> DEFINE r == Head(todo).run
           x == runs[r]
<1>1. todo # <<>> /\ Head(todo).op = "start"
    BY DEF StartProgram, At
<1>2. Head(todo) \in Steps
    BY <1>1, HeadShape DEF RunsInv, TypeOK
<1>3. r \in Live /\ x.alive = {} /\ x.dead = {} /\ x.open = {}
    BY <1>1, <1>2 DEF RunsInv, StepsSound, StepSound, OfRun
<1>4. PICK as \in SUBSET Actors \ {{}} : Activate(r, [x EXCEPT !.alive = as])
    BY DEF StartProgram
<1>5. x \in Contexts
    BY <1>3, LiveContext DEF RunsInv, TypeOK
<1> HIDE DEF x
<1>6. PICK z : z = [x EXCEPT !.alive = as]
    OBVIOUS
<1>7. /\ z \in Contexts /\ z.session = x.session /\ z.request = x.request /\ z.alive = as
      /\ z.dead = x.dead /\ z.outputFailed = x.outputFailed /\ z.open = x.open
    BY <1>5, <1>6 DEF Contexts
<1>8. Activated(r, z, {})
    BY <1>3, <1>7 DEF Activated, x
<1>9. Activate(r, z)
    BY <1>4, <1>6
<1> HIDE DEF r
<1>10. \E y, em : Acts(r, y, em, {})
    BY <1>3, <1>8, <1>9, ActivateActs DEF RunsInv, TypeOK
<1> QED BY <1>3, <1>10 DEF r

LEMMA ResumeActs ==
    ASSUME RunsInv, NEW r \in Runs, ResumeActor(r)
    PROVE  r \in Live /\ \E y, em : Acts(r, y, em, {})
<1>1. r \in Live
    BY IdleFacts DEF ResumeActor
<1>2. Activate(r, runs[r])
    BY DEF ResumeActor
<1>3. KernelTyped /\ OpenByAlive /\ Activated(r, runs[r], {})
    BY <1>1, ActivatedAsIs DEF RunsInv, TypeOK
<1> QED BY <1>1, <1>2, <1>3, ActivateActs

LEMMA ApplyRunActs ==
    ASSUME RunsInv, NEW r \in Runs, Apply(r)
    PROVE  r \in Live /\ \E y, em : Acts(r, y, em, {})
<1>1. r \in Live
    BY IdleFacts DEF Apply
<1>2. Activate(r, runs[r])
    BY DEF Apply
<1>3. KernelTyped /\ OpenByAlive /\ Activated(r, runs[r], {})
    BY <1>1, ActivatedAsIs DEF RunsInv, TypeOK
<1> QED BY <1>1, <1>2, <1>3, ActivateActs

LEMMA DeliverActs ==
    ASSUME RunsInv, DeliverInterrupted
    PROVE  /\ Head(todo).run \in Live
           /\ \E y, em : Acts(Head(todo).run, y, em, {Head(todo).id})
<1>1. todo # <<>> /\ Head(todo).op = "deliver"
    BY DEF DeliverInterrupted, At
<1>2. Head(todo) \in Steps
    BY <1>1, HeadShape DEF RunsInv, TypeOK
<1>3. Head(todo).run \in Live
    BY <1>1, <1>2 DEF RunsInv, StepsSound, StepSound, OfRun
<1>4. PICK r \in Live : r = Head(todo).run
    BY <1>3
<1>5. PICK c : c = Head(todo).id
    OBVIOUS
<1>6. Activate(r, Closed(r, c))
    BY <1>4, <1>5 DEF DeliverInterrupted
<1>7. KernelTyped /\ OpenByAlive /\ Activated(r, Closed(r, c), {c})
    BY ActivatedClosed DEF RunsInv, TypeOK
<1>8. \E y, em : Acts(r, y, em, {c})
    BY <1>6, <1>7, ActivateActs
<1> QED BY <1>3, <1>4, <1>5, <1>8

LEMMA AnswerActs ==
    ASSUME RunsInv, NEW c, Answer(c)
    PROVE  \E r \in Live : /\ c \in runs[r].open /\ todo' = <<Flush, Settle(r)>>
                           /\ \E y, em : Acts(r, y, em, {c})
<1>1. PICK r \in Waiting(c) : Activate(r, Closed(r, c)) /\ todo' = <<Flush, Settle(r)>>
    BY DEF Answer
<1>2. r \in Live /\ c \in runs[r].open
    BY DEF Waiting
<1>3. KernelTyped /\ OpenByAlive /\ Activated(r, Closed(r, c), {c})
    BY <1>2, ActivatedClosed DEF RunsInv, TypeOK
<1>4. \E y, em : Acts(r, y, em, {c})
    BY <1>1, <1>2, <1>3, ActivateActs
<1> QED BY <1>1, <1>2, <1>4

LEMMA ObserveActs ==
    ASSUME RunsInv, NEW c, Observe(c)
    PROVE  \E r \in Live :
               /\ c \in runs[r].open
               /\ \E y, em : /\ Acts(r, y, em, {}) /\ y.signal = runs[r].signal
                             /\ runs[r].open \subseteq y.open
                             /\ \A e \in ToSet(em) : IsAsk(e) => e.kind = "query"
<1>1. PICK r \in Waiting(c) : \E o \in Openings(runs[r], caps) :
           /\ \A i \in DOMAIN o : /\ caps[c].class = "provider"
                                  /\ o[i].class = "query" /\ o[i].actor = caps[c].actor
           /\ LET noted == Reaction(r, runs[r], caps, o, runs[r].signal)
              IN  /\ runs' = [runs EXCEPT ![r] = noted.context]
                  /\ caps' = noted.caps
                  /\ emits' = emits \o noted.emits
    BY DEF Observe
<1>2. r \in Live /\ c \in runs[r].open /\ r \in Runs
    BY DEF Waiting, Live
<1>x. PICK x : x = runs[r]
    OBVIOUS
<1>3. PICK o \in Openings(x, caps) :
           /\ \A i \in DOMAIN o : o[i].class = "query"
           /\ LET noted == Reaction(r, x, caps, o, x.signal)
              IN  /\ runs' = [runs EXCEPT ![r] = noted.context]
                  /\ caps' = noted.caps
                  /\ emits' = emits \o noted.emits
    BY <1>1, <1>x
<1>4. /\ KernelTyped /\ OpenByAlive /\ Activated(r, x, {}) /\ x \in Contexts
      /\ x.signal \in {"none", "complete", "failed"}
    BY <1>2, <1>x, ActivatedAsIs, LiveContext DEF RunsInv, TypeOK
<1>5. Sound(x, caps)
    BY <1>2, <1>4, ActivatedSound
<1>6. PICK y : y = Reaction(r, x, caps, o, x.signal).context
    OBVIOUS
<1>7. PICK em : em = Reaction(r, x, caps, o, x.signal).emits
    OBVIOUS
<1>8. Worked(r, x, caps, y, caps', em)
    BY <1>2, <1>3, <1>4, <1>5, <1>6, <1>7, ReactionWorks
<1>9. Acts(r, y, em, {})
    BY <1>3, <1>4, <1>6, <1>7, <1>8, WorkedActs
<1>10. y.signal = x.signal /\ x.open \subseteq y.open
  <2>1. y = [x EXCEPT !.open = x.open \cup {Len(caps) + i : i \in DOMAIN o}, !.signal = x.signal]
    BY <1>6 DEF Reaction
  <2> QED BY <1>4, <2>1 DEF Contexts
<1>11. ASSUME NEW e \in ToSet(em), IsAsk(e) PROVE e.kind = "query"
  <2>1. e.id \in New(caps') /\ Fits(e, caps')
    BY <1>9, <1>11, Zenon DEF Acts
  <2>2. caps' = caps \o o
    BY <1>3 DEF Reaction
  <2>3. caps \in Seq(Capabilities) /\ o \in Seq(Capabilities)
    BY <1>4, <1>5, OpeningsShape DEF KernelTyped
  <2>4. /\ Len(caps') = Len(caps) + Len(o) /\ Len(caps) \in Nat /\ Len(o) \in Nat
        /\ DOMAIN o = 1..Len(o)
        /\ \A i \in 1..Len(caps) + Len(o) :
               caps'[i] = IF i <= Len(caps) THEN caps[i] ELSE o[i - Len(caps)]
    BY <2>2, <2>3, ConcatProperties, LenProperties
  <2>5. PICK i : i = e.id - Len(caps)
    OBVIOUS
  <2>6. /\ i \in 1..Len(o) /\ e.id \in 1..Len(caps) + Len(o) /\ ~(e.id <= Len(caps))
    BY <2>1, <2>4, <2>5 DEF New
  <2>7. caps'[e.id].class = "query"
    BY <1>3, <2>4, <2>5, <2>6
  <2> QED BY <1>11, <2>1, <2>7, Zenon DEF Fits
<1> QED BY <1>2, <1>x, <1>9, <1>10, <1>11

LEMMA RefuseActs ==
    ASSUME RunsInv, RefuseInvoke
    PROVE  \E r \in Live : /\ Head(batch).id \in runs[r].open
                           /\ \E y, em : Acts(r, y, em, {Head(batch).id})
<1>0. PICK c : c = Head(batch).id
    OBVIOUS
<1>1. PICK r \in Waiting(c) : Activate(r, Closed(r, c))
    BY <1>0 DEF RefuseInvoke
<1>2. r \in Live /\ c \in runs[r].open
    BY DEF Waiting
<1>3. KernelTyped /\ OpenByAlive /\ Activated(r, Closed(r, c), {c})
    BY <1>2, ActivatedClosed DEF RunsInv, TypeOK
<1>4. \E y, em : Acts(r, y, em, {c})
    BY <1>1, <1>2, <1>3, ActivateActs
<1> QED BY <1>0, <1>2, <1>4

-----------------------------------------------------------------------------
(* The steps of a handler keep RunsInv. *)

LEMMA AtFacts ==
    ASSUME RunsInv, NEW op, At(op)
    PROVE  /\ todo # <<>> /\ Head(todo).op = op /\ Head(todo) \in Steplike
           /\ Head(todo) \in Steps /\ StepSound(Head(todo))
           /\ Steps = {Head(todo)} \cup Rest /\ Rest \subseteq Steplike
           /\ \A b \in Rest : Ordered(Head(todo), b) /\ StepSound(b)
           /\ op # "flush" => process = "up" /\ batch = <<>>
           /\ op \in Quiet => emits = <<>>
           /\ HostTyped /\ ProgramOrdered
<1>0. HostTyped /\ ProgramOrdered
    BY DEF RunsInv, TypeOK
<1>1. todo # <<>> /\ Head(todo).op = op
    BY DEF At
<1>2. /\ Head(todo) \in Steplike /\ Steps = {Head(todo)} \cup Rest /\ Rest \subseteq Steplike
      /\ \A b \in Rest : Ordered(Head(todo), b)
    BY <1>0, <1>1, HeadShape
<1>3. \A t \in Steps : StepSound(t)
    BY DEF RunsInv, StepsSound
<1>4. ASSUME op # "flush" PROVE process = "up" /\ batch = <<>>
  <2>1. Head(todo) # Flush
    BY <1>1, <1>4, StepFields
  <2>2. todo # <<Flush>>
    BY <2>1
  <2> QED BY <1>1, <2>1, <2>2 DEF RunsInv, EndedIsOver, QueueWatched
<1>5. op \in Quiet => emits = <<>>
    BY <1>1 DEF RunsInv, QueueWatched
<1> QED BY <1>0, <1>1, <1>2, <1>3, <1>4, <1>5

(* What is ordered after a step of run r, and what a flush may precede. *)
LEMMA AfterRun ==
    ASSUME NEW r \in Runs, NEW t \in Steplike, NEW b \in Steplike, Ordered(t, b),
           t.op \in {"settle", "decide", "start", "end", "reaped"}, t.run = r
    PROVE  /\ b.op \notin {"deliver", "mark"}
           /\ b.op \notin {"flush", "reply"} => b.run # r
           /\ Ordered(Flush, b)
           /\ b.op \notin Quiet => Ordered(Settle(r), b)
           /\ Ordered(Decide(r), b)
<1>1. b.op \notin {"deliver", "mark"} /\ (b.op \notin {"flush", "reply"} => b.run # r)
    BY DEF Ordered
<1> QED BY <1>1, StepFields DEF Ordered

LEMMA SettleRunSteps ==
    ASSUME RunsInv, SettleRun
    PROVE  /\ Head(todo).run \in Live /\ Head(todo) = Settle(Head(todo).run)
           /\ HostTyped' /\ ProgramOrdered' /\ todo' # <<>> /\ Head(todo') = Flush
           /\ Steps' = {Flush, Decide(Head(todo).run)} \cup Rest
<1>1. At("settle")
    BY DEF SettleRun
<1>2. PICK r : r = Head(todo).run
    OBVIOUS
<1>3. /\ r \in Runs /\ r \in Live /\ Head(todo) = Settle(r)
    BY <1>1, <1>2, AtFacts, StepKinds DEF StepSound, OfRun
<1>4. active[r] # 0
  <2>1. active[r] = runs[r].request /\ runs[r].request \in Requests
    BY <1>3, LiveContext DEF RunsInv, TypeOK, RepliesOwed
  <2> QED BY <2>1 DEF Requests
<1>5. Then(<<Flush, Decide(r)>>)
    BY <1>2, <1>4 DEF SettleRun
<1>6. Flush \in Steplike /\ Decide(r) \in Steplike /\ Ordered(Flush, Decide(r))
    BY <1>3, StepFields DEF Ordered
<1>7. \A b \in Rest : Ordered(Flush, b) /\ Ordered(Decide(r), b)
    BY <1>1, <1>2, <1>3, AtFacts, AfterRun
<1>8. HostTyped /\ ProgramOrdered /\ todo # <<>>
    BY <1>1, AtFacts
<1>9. /\ todo' \in Seq(Steplike) /\ ProgramOrdered' /\ Steps' = {Flush, Decide(r)} \cup Rest
      /\ todo' # <<>> /\ Head(todo') = Flush
    BY <1>5, <1>6, <1>7, <1>8, ThenTwo
<1>10. HostTyped'
    BY <1>8, <1>9 DEF SettleRun, HostTyped
<1> QED BY <1>2, <1>3, <1>9, <1>10

LEMMA SettleRunRuns ==
    ASSUME RunsInv, SettleRun PROVE RunsInv'
<1>1. At("settle") /\ UNCHANGED <<kernel, wire, active, requests, replied, process>>
    BY DEF SettleRun
<1>2. PICK r : r = Head(todo).run
    OBVIOUS
<1>3. /\ r \in Live /\ Head(todo) = Settle(r) /\ r \in Runs
      /\ HostTyped' /\ ProgramOrdered' /\ todo' # <<>> /\ Head(todo') = Flush
      /\ Steps' = {Flush, Decide(r)} \cup Rest
    BY <1>2, SettleRunSteps DEF Live
<1>4. /\ KernelTyped' /\ WireTyped' /\ OpenByAlive' /\ Live' = Live /\ runs' = runs
      /\ batch' = batch /\ emits' = emits
    BY <1>1 DEF RunsInv, TypeOK, KernelTyped, WireTyped, OpenByAlive, Live, kernel, wire
<1>5. QueueWatched'
    BY <1>3, StepFields DEF QueueWatched, Quiet
<1>6. EndedIsOver'
    BY <1>1, AtFacts DEF EndedIsOver
<1>7. StepsSound' /\ RepliesOwed' /\ SameSession'
  <2>1. \A b \in Rest : b.op \notin {"deliver", "mark"}
    BY <1>1, <1>2, <1>3, AtFacts, StepFields, AfterRun
  <2>2. Steps = {Head(todo)} \cup Rest
    BY <1>1, AtFacts
  <2>3. StepSound(Flush)' /\ StepSound(Decide(r))'
    <3>1. Flush.op = "flush" /\ Decide(r).op = "decide" /\ Decide(r).run = r
      BY <1>3, StepFields
    <3> QED BY <1>3, <1>4, <3>1, Zenon DEF StepSound, OfRun, Flush, Decide
  <2>4. \A t \in Steps' : t \notin Steps => StepSound(t)'
    BY <1>3, <2>2, <2>3, Zenon
  <2>5. \A t \in Steps : t \notin Steps' => /\ t.op \notin {"reaped", "reply"}
                                            /\ t.op = "settle" => \A b \in Steps' :
                                                   b.op \notin {"deliver", "mark"}
    BY <1>3, <2>1, <2>2, StepFields
  <2> QED BY <1>1, <1>4, <2>4, <2>5, RunsKept
<1> QED BY <1>3, <1>4, <1>5, <1>6, <1>7 DEF RunsInv, TypeOK

(* Steps that change nothing but the program. *)
LEMMA OnlyTheProgram ==
    ASSUME RunsInv, UNCHANGED <<kernel, wire>>
    PROVE  /\ KernelTyped' /\ WireTyped' /\ OpenByAlive' /\ Live' = Live
           /\ runs' = runs /\ caps' = caps /\ batch' = batch /\ emits' = emits
           /\ fate' = fate /\ pending' = pending /\ lost' = lost /\ refusals' = refusals
BY DEF RunsInv, TypeOK, KernelTyped, WireTyped, OpenByAlive, Live, kernel, wire

LEMMA UndecidedSteps ==
    ASSUME RunsInv, Undecided
    PROVE  /\ Head(todo).run \in Live /\ Head(todo) = Decide(Head(todo).run)
           /\ HostTyped' /\ ProgramOrdered' /\ Steps' = Rest
           /\ batch = <<>> /\ emits = <<>>
<1>1. At("decide")
    BY DEF Undecided
<1>2. /\ Head(todo).run \in Live /\ Head(todo) = Decide(Head(todo).run)
      /\ batch = <<>> /\ emits = <<>>
    BY <1>1, AtFacts, StepKinds DEF StepSound, OfRun, Quiet
<1>3. Then(<<>>) /\ HostTyped /\ ProgramOrdered /\ todo # <<>>
    BY <1>1, AtFacts DEF Undecided
<1>4. todo' \in Seq(Steplike) /\ ProgramOrdered' /\ Steps' = Rest
    BY <1>3, ThenNothing
<1>5. HostTyped'
    BY <1>3, <1>4 DEF Undecided, HostTyped
<1> QED BY <1>2, <1>4, <1>5

LEMMA UndecidedRuns ==
    ASSUME RunsInv, Undecided PROVE RunsInv'
<1>1. At("decide") /\ UNCHANGED <<kernel, wire>> /\ UNCHANGED <<active, requests, replied, process>>
    BY DEF Undecided
<1>2. PICK r : r = Head(todo).run
    OBVIOUS
<1>3. /\ r \in Live /\ Head(todo) = Decide(r) /\ r \in Runs
      /\ HostTyped' /\ ProgramOrdered' /\ Steps' = Rest /\ batch = <<>> /\ emits = <<>>
    BY <1>2, UndecidedSteps DEF Live
<1>4. /\ KernelTyped' /\ WireTyped' /\ OpenByAlive' /\ Live' = Live /\ runs' = runs
      /\ batch' = batch /\ emits' = emits
    BY <1>1, OnlyTheProgram
<1>5. QueueWatched'
    BY <1>3, <1>4 DEF QueueWatched
<1>6. EndedIsOver'
    BY <1>1, AtFacts DEF EndedIsOver
<1>7. StepsSound' /\ RepliesOwed' /\ SameSession'
  <2>1. Steps = {Head(todo)} \cup Rest
    BY <1>1, AtFacts
  <2>2. \A t \in Steps : t \notin Steps' => t.op \notin {"reaped", "reply", "settle"}
    BY <1>3, <2>1, StepFields
  <2> QED BY <1>1, <1>3, <1>4, <2>1, <2>2, RunsKept
<1> QED BY <1>3, <1>4, <1>5, <1>6, <1>7 DEF RunsInv, TypeOK

LEMMA StartedSteps ==
    ASSUME RunsInv, StartProgram \/ StartWithoutOutput
    PROVE  /\ Head(todo).run \in Live /\ Head(todo) = Start(Head(todo).run)
           /\ HostTyped' /\ ProgramOrdered' /\ todo' # <<>>
           /\ Head(todo') = Settle(Head(todo).run)
           /\ Steps' = {Settle(Head(todo).run)} \cup Rest /\ batch = <<>>
           /\ \A b \in Rest : b.op \notin Quiet \cup {"deliver", "mark"}
           /\ \A b \in Rest : b.op # "flush" => b.run # Head(todo).run
<1>1. At("start")
    BY DEF StartProgram, StartWithoutOutput
<1>2. PICK r : r = Head(todo).run
    OBVIOUS
<1>3. /\ r \in Runs /\ r \in Live /\ Head(todo) = Start(r) /\ batch = <<>>
    BY <1>1, <1>2, AtFacts, StepKinds DEF StepSound, OfRun
<1>4. \A b \in Rest : b.op \notin Quiet /\ b.op \notin {"deliver", "mark"}
                      /\ Ordered(Settle(r), b) /\ (b.op \notin {"flush", "reply"} => b.run # r)
  <2> TAKE b \in Rest
  <2>1. Ordered(Start(r), b) /\ Start(r).op = "start" /\ Start(r).run = r
    BY <1>1, <1>3, AtFacts, StepFields
  <2>2. b.op \notin Quiet
    BY <2>1 DEF Ordered
  <2> QED BY <1>1, <1>3, <2>1, <2>2, AtFacts, AfterRun
<1>5. Then(<<Settle(r)>>) /\ HostTyped /\ ProgramOrdered /\ todo # <<>> /\ Settle(r) \in Steplike
    BY <1>1, <1>2, <1>3, AtFacts, StepFields DEF StartProgram, StartWithoutOutput
<1>6. /\ todo' \in Seq(Steplike) /\ ProgramOrdered' /\ Steps' = {Settle(r)} \cup Rest
      /\ todo' # <<>> /\ Head(todo') = Settle(r)
    BY <1>4, <1>5, ThenOne
<1>7. HostTyped'
    BY <1>5, <1>6 DEF StartProgram, StartWithoutOutput, HostTyped
<1>8. \A b \in Rest : b.op # "flush" => b.run # r
    BY <1>4 DEF Quiet
<1> QED BY <1>2, <1>3, <1>4, <1>6, <1>7, <1>8

(* The program, when a run starts: nothing else of it is about the run. *)
LEMMA StartedSound ==
    ASSUME RunsInv, StartProgram \/ StartWithoutOutput, Live' = Live,
           \A x \in Live : /\ runs'[x].request = runs[x].request
                           /\ runs'[x].session = runs[x].session,
           \A x \in Runs : x # Head(todo).run => runs'[x] = runs[x]
    PROVE  RepliesOwed' /\ SameSession' /\ StepsSound'
<1>1. At("start") /\ UNCHANGED <<active, requests, replied, process>>
    BY DEF StartProgram, StartWithoutOutput
<1>2. PICK r : r = Head(todo).run
    OBVIOUS
<1>3. /\ r \in Live /\ r \in Runs /\ Head(todo) = Start(r) /\ Steps' = {Settle(r)} \cup Rest
      /\ \A b \in Rest : b.op \notin Quiet \cup {"deliver", "mark"}
      /\ \A b \in Rest : b.op # "flush" => b.run # r
    BY <1>2, StartedSteps DEF Live
<1>4. Steps = {Start(r)} \cup Rest /\ Rest \subseteq Steplike
    BY <1>1, <1>3, AtFacts
<1>5. /\ Settle(r).op = "settle" /\ Settle(r).run = r /\ Start(r).op = "start" /\ Start(r).run = r
    BY <1>3, StepFields
<1>6. ASSUME NEW t \in Rest PROVE StepSound(t)'
  <2>1. StepSound(t)
    BY <1>1, AtFacts
  <2>2. t.op \notin {"deliver", "mark", "reply", "reaped"}
    BY <1>3 DEF Quiet
  <2>3. t.op = "start" => runs'[t.run] = runs[t.run]
    BY <1>2, <1>3, <1>4, StepKinds
  <2> QED BY <2>1, <2>2, <2>3 DEF StepSound, OfRun
<1>7. StepSound(Settle(r))'
    BY <1>3, <1>5, Zenon DEF StepSound, OfRun, Settle
<1>8. StepsSound'
    BY <1>3, <1>6, <1>7, Zenon DEF StepsSound
<1>9. \A t \in Steps : t \notin Steps' => t.op \notin {"reaped", "reply", "settle"}
    BY <1>3, <1>4, <1>5
<1>10. RepliesOwed
    BY DEF RunsInv
<1>11. ASSUME NEW x \in Runs, Reaped(x) \in Steps PROVE Reaped(x) \in Steps'
    BY <1>9, <1>11, StepFields
<1>12. RepliesOwed'
  <2>1. \A t \in Steps : t.op = "reply" => t \in Steps'
    BY <1>9
  <2>2. \A x \in Live' : active'[x] = runs'[x].request
    BY <1>1, <1>10 DEF RepliesOwed
  <2>3. \A x \in Runs : active'[x] # 0 =>
             /\ active'[x] <= requests' /\ replied'[active'[x]] = <<>>
             /\ x \notin Live' => Reaped(x) \in Steps'
    BY <1>1, <1>10, <1>11, Zenon DEF RepliesOwed
  <2>4. \A x, z \in Runs : active'[x] = active'[z] /\ active'[x] # 0 => x = z
    BY <1>1, <1>10, Zenon DEF RepliesOwed
  <2>5. \A q \in Requests :
             /\ Len(replied'[q]) <= 1
             /\ q > requests' => replied'[q] = <<>>
             /\ (process' = "up" /\ q <= requests' /\ replied'[q] = <<>>) =>
                    \/ \E x \in Runs : active'[x] = q
                    \/ \E t \in Steps' : t.op = "reply" /\ t.request = q
    BY <1>1, <1>10, <2>1, Zenon DEF RepliesOwed
  <2> QED BY <2>2, <2>3, <2>4, <2>5, Zenon DEF RepliesOwed, Reaped
<1>13. SameSession'
    BY DEF RunsInv, SameSession
<1> QED BY <1>8, <1>12, <1>13

LEMMA StartedRuns ==
    ASSUME RunsInv, StartProgram \/ StartWithoutOutput PROVE RunsInv'
<1>1. At("start") /\ UNCHANGED wire /\ UNCHANGED <<active, requests, replied, process>>
    BY DEF StartProgram, StartWithoutOutput
<1>2. PICK r : r = Head(todo).run
    OBVIOUS
<1>3. /\ r \in Live /\ r \in Runs /\ HostTyped' /\ ProgramOrdered' /\ todo' # <<>>
      /\ Head(todo') = Settle(r) /\ batch = <<>>
    BY <1>2, StartedSteps DEF Live
<1>4. WireTyped' /\ batch' = <<>>
    BY <1>1, <1>3 DEF wire, WireTyped, RunsInv, TypeOK
<1>5. QueueWatched'
    BY <1>3, <1>4, StepFields DEF QueueWatched, Quiet
<1>6. EndedIsOver'
    BY <1>1, AtFacts DEF EndedIsOver
<1>7. /\ KernelTyped' /\ OpenByAlive' /\ Live' = Live
      /\ \A x \in Live : /\ runs'[x].request = runs[x].request
                         /\ runs'[x].session = runs[x].session
      /\ \A x \in Runs : x # r => runs'[x] = runs[x]
  <2>1. CASE StartProgram
    <3>1. PICK y, em : Acts(r, y, em, {})
      BY <1>2, <2>1, StartActs
    <3> QED BY <1>3, <3>1, ActsKernel DEF RunsInv
  <2>2. CASE StartWithoutOutput
    <3>1. UNCHANGED <<kernel, wire>>
      BY <2>2 DEF StartWithoutOutput
    <3> QED BY <3>1, OnlyTheProgram
  <2> QED BY <2>1, <2>2
<1>8. StepsSound' /\ RepliesOwed' /\ SameSession'
    BY <1>2, <1>7, StartedSound
<1> QED BY <1>3, <1>4, <1>5, <1>6, <1>7, <1>8 DEF RunsInv, TypeOK

(* The steps of a flush, which leave the program as it is. *)
LEMMA FlushKeeps ==
    ASSUME RunsInv, At("flush"), UNCHANGED host,
           KernelTyped', WireTyped', OpenByAlive', Live' = Live,
           \A x \in Live : /\ runs'[x].request = runs[x].request
                           /\ runs'[x].session = runs[x].session,
           \A t \in Steps : t.op = "start" => /\ runs'[t.run].alive = runs[t.run].alive
                                              /\ runs'[t.run].dead = runs[t.run].dead
                                              /\ runs'[t.run].open = runs[t.run].open,
           process # "up" => (batch' # <<>> => emits' = <<>>)
    PROVE  RunsInv'
<1>1. todo' = todo /\ Steps' = Steps /\ UNCHANGED <<active, requests, replied, process>>
    BY DEF host, Steps
<1>2. HostTyped' /\ ProgramOrdered'
    BY <1>1 DEF RunsInv, TypeOK, HostTyped, ProgramOrdered
<1>3. QueueWatched'
  <2>1. todo # <<>> /\ Head(todo) = Flush /\ Head(todo).op \notin Quiet
    BY AtFacts, StepKinds DEF Quiet
  <2> QED BY <1>1, <2>1 DEF QueueWatched, Quiet, Flush
<1>4. EndedIsOver'
    BY <1>1 DEF RunsInv, EndedIsOver, Flush
<1>5. StepsSound' /\ RepliesOwed' /\ SameSession'
    BY <1>1, RunsKept
<1> QED BY <1>2, <1>3, <1>4, <1>5 DEF RunsInv, TypeOK

LEMMA BatchShape ==
    ASSUME RunsInv, batch # <<>>
    PROVE  /\ Head(batch) \in Emissions /\ Tail(batch) \in Seq(Emissions)
           /\ Head(batch).run \in Runs /\ Head(batch).id \in 0..MaxCaps
           /\ (IsAsk(Head(batch)) \/ IsCancel(Head(batch))) => Head(batch).id \in 1..MaxCaps
<1>1. batch \in Seq(Emissions)
    BY DEF RunsInv, TypeOK, WireTyped
<1>2. Head(batch) \in Emissions /\ Tail(batch) \in Seq(Emissions)
    BY <1>1, ToSetHead
<1> QED BY <1>2, BoundsAreNaturals DEF Emissions, IsAsk, IsCancel

LEMMA DrainRuns ==
    ASSUME RunsInv, Drain PROVE RunsInv'
<1>1. At("flush") /\ UNCHANGED host /\ runs' = runs /\ caps' = caps
    BY DEF Drain
<1>2. KernelTyped' /\ WireTyped' /\ OpenByAlive' /\ Live' = Live
  <2>1. emits' \in Seq(Emissions) /\ batch' \in Seq(Emissions)
    BY EmptySeq DEF Drain, RunsInv, TypeOK, KernelTyped
  <2> QED BY <1>1, <2>1 DEF Drain, RunsInv, TypeOK, KernelTyped, WireTyped, OpenByAlive, Live
<1>3. emits' = <<>>
    BY DEF Drain
<1> QED BY <1>1, <1>2, <1>3, FlushKeeps

LEMMA WithholdRuns ==
    ASSUME RunsInv, Withhold PROVE RunsInv'
<1>1. At("flush") /\ UNCHANGED host /\ runs' = runs /\ caps' = caps /\ emits' = emits /\ batch # <<>>
    BY DEF Withhold, kernel
<1>2. Head(batch).run \in Live
    BY <1>1, BatchShape DEF Withhold, Withheld, Live
<1>3. KernelTyped' /\ OpenByAlive' /\ Live' = Live
    BY <1>1 DEF RunsInv, TypeOK, KernelTyped, OpenByAlive, Live
<1>4. WireTyped'
  <2>1. runs[Head(batch).run].request \in Requests
    BY <1>2, LiveContext DEF RunsInv, TypeOK
  <2>2. Tail(batch) \in Seq(Emissions)
    BY <1>1, BatchShape
  <2> QED BY <2>1, <2>2 DEF Withhold, RunsInv, TypeOK, WireTyped
<1>5. process = "up"
    BY <1>2 DEF RunsInv, EndedIsOver
<1> QED BY <1>1, <1>3, <1>4, <1>5, FlushKeeps

LEMMA SendRuns ==
    ASSUME RunsInv, Send PROVE RunsInv'
<1>1. At("flush") /\ UNCHANGED host /\ runs' = runs /\ caps' = caps /\ emits' = emits /\ batch # <<>>
    BY DEF Send, kernel
<1>3. KernelTyped' /\ OpenByAlive' /\ Live' = Live
    BY <1>1 DEF RunsInv, TypeOK, KernelTyped, OpenByAlive, Live
<1>4. Tail(batch) \in Seq(Emissions) /\ batch' = Tail(batch)
    BY <1>1, BatchShape DEF Send
<1>5. fate' \in [1..MaxCaps -> {"unsent", "sent", "answered", "cancelled"}]
  <2>1. fate \in [1..MaxCaps -> {"unsent", "sent", "answered", "cancelled"}]
    BY DEF RunsInv, TypeOK, WireTyped
  <2>2. PICK e : e = Head(batch)
    OBVIOUS
  <2>3. fate' = fate \/ fate' = [fate EXCEPT ![e.id] = "sent"]
                     \/ fate' = [fate EXCEPT ![e.id] = "cancelled"]
    BY <2>2 DEF Send, Told
  <2> QED BY <2>1, <2>3
<1>6. pending' \subseteq 1..MaxCaps
  <2>1. PICK e : e = Head(batch)
    OBVIOUS
  <2>2. e.kind = "invoke" => e.id \in 1..MaxCaps
    BY <1>1, <2>1, BatchShape DEF IsAsk
  <2> QED BY <2>1, <2>2 DEF Send, Translated, RunsInv, TypeOK, WireTyped
<1>7. WireTyped'
    BY <1>4, <1>5, <1>6 DEF Send, RunsInv, TypeOK, WireTyped
<1>8. process # "up" => (batch' # <<>> => emits' = <<>>)
    BY <1>1, <1>4 DEF RunsInv, EndedIsOver
<1> QED BY <1>1, <1>3, <1>7, <1>8, FlushKeeps

LEMMA RefuseEventRuns ==
    ASSUME RunsInv, RefuseEvent PROVE RunsInv'
<1>1. At("flush") /\ UNCHANGED host /\ caps' = caps /\ emits' = emits /\ batch # <<>>
    BY DEF RefuseEvent, Refusing
<1>2. PICK r \in Live : r = Head(batch).run
    BY DEF RefuseEvent
<1>3. PICK x : x = runs[r]
    OBVIOUS
<1>4. x \in Contexts /\ r \in Runs /\ KernelTyped /\ x.request \in Requests
    BY <1>3, LiveContext DEF RunsInv, TypeOK
<1>5. PICK y : y = [x EXCEPT !.outputFailed = TRUE]
    OBVIOUS
<1>6. /\ y \in Contexts /\ y.request = x.request /\ y.session = x.session
      /\ y.alive = x.alive /\ y.dead = x.dead /\ y.open = x.open
    BY <1>4, <1>5 DEF Contexts
<1>7. runs' = [runs EXCEPT ![r] = y]
    BY <1>2, <1>3, <1>5 DEF RefuseEvent
<1>8. /\ runs' \in [Runs -> Contexts \cup {NoRun}] /\ Live' = Live /\ runs'[r] = y
      /\ \A z \in Runs : z # r => runs'[z] = runs[z]
    BY <1>4, <1>6, <1>7, LiveKept
<1>9. \A z \in Runs : /\ runs'[z].request = runs[z].request
                      /\ runs'[z].session = runs[z].session
                      /\ runs'[z].alive = runs[z].alive /\ runs'[z].dead = runs[z].dead
                      /\ runs'[z].open = runs[z].open
    BY <1>3, <1>6, <1>8
<1>10. KernelTyped'
    BY <1>1, <1>4, <1>8 DEF KernelTyped
<1>11. OpenByAlive'
    BY <1>1, <1>8, <1>9 DEF RunsInv, TypeOK, OpenByAlive, Live
<1>12. WireTyped'
  <2>1. refusals' \in 0..MaxRefusals
    BY BoundsAreNaturals DEF RefuseEvent, Refusing, RunsInv, TypeOK, WireTyped
  <2>2. batch' \in Seq(Emissions)
    BY <1>1, BatchShape DEF RefuseEvent
  <2>3. lost' \subseteq Requests
    BY <1>2, <1>3, <1>4 DEF RefuseEvent, RunsInv, TypeOK, WireTyped
  <2> QED BY <2>1, <2>2, <2>3 DEF RefuseEvent, RunsInv, TypeOK, WireTyped
<1>13. process = "up"
    BY DEF RunsInv, EndedIsOver
<1>14. \A t \in Steps : t.op = "start" => t.run \in Runs
    BY StepKinds, ToSetByIndex DEF RunsInv, TypeOK, HostTyped, Steps
<1>15. \A z \in Live : z \in Runs
    BY DEF Live
<1> QED BY <1>1, <1>8, <1>9, <1>10, <1>11, <1>12, <1>13, <1>14, <1>15, FlushKeeps

LEMMA RefuseInvokeRuns ==
    ASSUME RunsInv, RefuseInvoke PROVE RunsInv'
<1>1. At("flush") /\ UNCHANGED host /\ batch # <<>>
    BY DEF RefuseInvoke, Refusing
<1>2. PICK r \in Live : /\ Head(batch).id \in runs[r].open
                        /\ \E y, em : Acts(r, y, em, {Head(batch).id})
    BY RefuseActs
<1>3. PICK c : c = Head(batch).id
    OBVIOUS
<1>4. PICK y, em : Acts(r, y, em, {c})
    BY <1>2, <1>3
<1>5. /\ KernelTyped' /\ OpenByAlive' /\ Live' = Live
      /\ \A x \in Live : /\ runs'[x].request = runs[x].request
                         /\ runs'[x].session = runs[x].session
      /\ \A x \in Runs : x # r => runs'[x] = runs[x]
    BY <1>4, ActsKernel DEF RunsInv
<1>6. WireTyped'
  <2>1. refusals' \in 0..MaxRefusals
    BY BoundsAreNaturals DEF RefuseInvoke, Refusing, RunsInv, TypeOK, WireTyped
  <2>2. batch' \in Seq(Emissions)
    BY <1>1, BatchShape DEF RefuseInvoke
  <2> QED BY <2>1, <2>2 DEF RefuseInvoke, RunsInv, TypeOK, WireTyped
<1>7. process = "up"
    BY DEF RunsInv, EndedIsOver
<1>8. \A t \in Steps : t.op = "start" => runs'[t.run] = runs[t.run]
  <2> TAKE t \in Steps
  <2> HAVE t.op = "start"
  <2>1. StepSound(t)
    BY DEF RunsInv, StepsSound
  <2>2. t.run \in Live /\ runs[t.run].open = {}
    BY <2>1, Zenon DEF StepSound, OfRun
  <2>3. t.run # r
    BY <1>2, <2>2
  <2> QED BY <1>5, <2>2, <2>3 DEF Live
<1> QED BY <1>1, <1>5, <1>6, <1>7, <1>8, FlushKeeps

(* The process has ended: no run is left, and no execute is owed a reply. *)
LEMMA EndedRuns ==
    ASSUME RunsInv, KernelTyped', WireTyped', OpenByAlive', Live' = {},
           active' = [r \in Runs |-> 0], requests' = requests, replied' = replied,
           process' \in {"stopping", "stopped", "aborting", "failed"},
           todo' = <<>> \/ (todo' = <<Flush>> /\ process' \notin {"stopped", "failed"}),
           todo' = <<>> => emits' = <<>>, batch' # <<>> => todo' # <<>> /\ emits' = <<>>
    PROVE  RunsInv'
<1>1. /\ todo' \in Seq(Steplike) /\ ProgramOrdered' /\ (Steps' = {} \/ Steps' = {Flush})
      /\ (todo' # <<>> => Head(todo') = Flush)
  <2>1. CASE todo' = <<>>
    BY <2>1, NoProgram
  <2>2. CASE todo' = <<Flush>>
    BY <2>2, StepFields, ProgramOfOne
  <2> QED BY <2>1, <2>2
<1>2. active' \in [Runs -> 0..MaxRequests]
    BY BoundsAreNaturals
<1>3. HostTyped'
    BY <1>1, <1>2 DEF RunsInv, TypeOK, HostTyped
<1>4. QueueWatched'
    BY <1>1, StepFields DEF QueueWatched, Quiet, Flush
<1>5. StepsSound'
  <2>0. Flush.op = "flush"
    BY StepFields
  <2>1. StepSound(Flush)'
    BY <2>0, Zenon DEF StepSound, OfRun, Flush
  <2> QED BY <1>1, <2>1 DEF StepsSound
<1>6. EndedIsOver'
    BY DEF EndedIsOver, Flush
<1>7. RepliesOwed'
  <2>1. \A q \in Requests : Len(replied'[q]) <= 1 /\ (q > requests' => replied'[q] = <<>>)
    BY DEF RunsInv, RepliesOwed
  <2> QED BY <2>1 DEF RepliesOwed
<1>8. SameSession'
    BY DEF SameSession
<1> QED BY <1>1, <1>3, <1>4, <1>5, <1>6, <1>7, <1>8 DEF RunsInv, TypeOK

LEMMA DrainedRuns ==
    ASSUME RunsInv, Drained PROVE RunsInv'
<1>1. At("flush") /\ UNCHANGED kernel /\ UNCHANGED <<fate, batch, lost, refusals>>
      /\ UNCHANGED <<active, requests, replied>> /\ Then(<<>>) /\ batch = <<>> /\ emits = <<>>
    BY DEF Drained
<1>2. /\ KernelTyped' /\ OpenByAlive' /\ Live' = Live /\ runs' = runs /\ emits' = emits
    BY <1>1 DEF RunsInv, TypeOK, KernelTyped, OpenByAlive, Live, kernel
<1>3. WireTyped'
    BY DEF Drained, RunsInv, TypeOK, WireTyped
<1>4. /\ HostTyped /\ ProgramOrdered /\ todo # <<>> /\ Steps = {Head(todo)} \cup Rest
      /\ Head(todo).op = "flush" /\ process \notin {"stopped", "failed"}
    BY <1>1, AtFacts DEF At
<1>5. todo' = Tail(todo) /\ todo' \in Seq(Steplike) /\ ProgramOrdered' /\ Steps' = Rest
    BY <1>1, <1>4, ThenNothing
<1>6. CASE process = "up"
  <2>1. process' = "up"
    BY <1>6 DEF Drained
  <2>2. HostTyped'
    BY <1>1, <1>4, <1>5, <2>1 DEF HostTyped
  <2>3. QueueWatched'
    BY <1>1, <1>2 DEF QueueWatched
  <2>4. EndedIsOver'
    BY <2>1 DEF EndedIsOver
  <2>5. StepsSound' /\ RepliesOwed' /\ SameSession'
    <3>1. \A t \in Steps' : t \in Steps
      BY <1>4, <1>5
    <3>2. \A t \in Steps : t \notin Steps' => t.op = "flush"
      BY <1>4, <1>5
    <3> QED BY <1>1, <1>2, <1>6, <2>1, <3>1, <3>2, RunsKept
  <2> QED BY <1>2, <1>3, <1>5, <2>2, <2>3, <2>4, <2>5 DEF RunsInv, TypeOK
<1>7. CASE process # "up"
  <2>1. Live = {} /\ (\A r \in Runs : active[r] = 0) /\ todo = <<Flush>>
    BY <1>4, <1>7 DEF RunsInv, EndedIsOver
  <2>2. todo' = <<>>
    BY <1>5, <2>1
  <2>3. active' = [r \in Runs |-> 0]
    <3>1. active \in [Runs -> 0..MaxRequests]
      BY <1>4 DEF HostTyped
    <3> QED BY <1>1, <2>1, <3>1
  <2>4. process' \in {"stopped", "failed"}
    <3>1. process \in {"up", "stopping", "stopped", "aborting", "failed"}
      BY <1>4 DEF HostTyped
    <3> QED BY <1>4, <1>7, <3>1 DEF Drained
  <2> QED BY <1>1, <1>2, <1>3, <2>1, <2>2, <2>3, <2>4, EndedRuns
<1> QED BY <1>6, <1>7

(* Ending runs drops their contexts and no other. *)
LEMMA EndRunsKernel ==
    ASSUME RunsInv, NEW rs \in SUBSET Live, EndRuns(rs)
    PROVE  /\ KernelTyped' /\ OpenByAlive' /\ Live' = Live \ rs /\ caps' = caps
           /\ \A x \in Live' : runs'[x] = runs[x]
           /\ \E em : Torn(rs, em) /\ emits' = emits \o em
<1>0. KernelTyped /\ OpenByAlive
    BY DEF RunsInv, TypeOK
<1>1. PICK em : Torn(rs, em) /\ emits' = emits \o em
    BY <1>0, EndRunsShape
<1>2. runs' = [r \in Runs |-> IF r \in rs THEN NoRun ELSE runs[r]] /\ caps' = caps
    BY DEF EndRuns
<1>3. runs \in [Runs -> Contexts \cup {NoRun}]
    BY <1>0 DEF KernelTyped
<1>4. runs' \in [Runs -> Contexts \cup {NoRun}]
    BY <1>2, <1>3
<1>5. \A x \in Runs : runs'[x] = IF x \in rs THEN NoRun ELSE runs[x]
    BY <1>2
<1>6. Live' = Live \ rs /\ \A x \in Live' : runs'[x] = runs[x]
    BY <1>5 DEF Live
<1>7. emits' \in Seq(Emissions)
    BY <1>0, <1>1, ConcatProperties DEF KernelTyped, Torn
<1>8. KernelTyped'
    BY <1>0, <1>2, <1>4, <1>7 DEF KernelTyped
<1>9. OpenByAlive'
    BY <1>0, <1>2, <1>6 DEF OpenByAlive
<1> QED BY <1>1, <1>2, <1>6, <1>8, <1>9

LEMMA EndingRuns ==
    ASSUME RunsInv, NEW how \in {"stopping", "aborting"}, Ending(how), WireTyped', batch' = <<>>
    PROVE  RunsInv'
<1>1. EndRuns(Live) /\ active' = [r \in Runs |-> 0] /\ todo' = <<Flush>> /\ process' = how
      /\ UNCHANGED <<requests, replied>>
    BY DEF Ending
<1>2. KernelTyped' /\ OpenByAlive' /\ Live' = {}
  <2>1. Live' = Live \ Live /\ KernelTyped' /\ OpenByAlive'
    BY <1>1, EndRunsKernel
  <2> QED BY <2>1
<1> QED BY <1>1, <1>2, EndedRuns

LEMMA ShutdownRuns ==
    ASSUME RunsInv, Shutdown PROVE RunsInv'
<1>1. Idle /\ Ending("stopping") /\ UNCHANGED wire
    BY DEF Shutdown
<1>2. WireTyped' /\ batch' = batch
    BY <1>1 DEF RunsInv, TypeOK, WireTyped, wire
<1>3. batch = <<>>
    BY <1>1, IdleFacts
<1> QED BY <1>1, <1>2, <1>3, EndingRuns

LEMMA AbortRuns ==
    ASSUME RunsInv, Abort PROVE RunsInv'
<1>1. WireTyped' /\ batch' = <<>> /\ batch # <<>> /\ UNCHANGED <<fate, lost>>
  <2>1. refusals' \in 0..MaxRefusals
    BY BoundsAreNaturals DEF Abort, Refusing, RunsInv, TypeOK, WireTyped
  <2>2. batch' \in Seq(Emissions)
    BY EmptySeq DEF Abort
  <2> QED BY <2>1, <2>2 DEF Abort, Refusing, RunsInv, TypeOK, WireTyped
<1>2. CASE process = "up" /\ Ending("aborting")
    BY <1>1, <1>2, EndingRuns
<1>3. CASE /\ process # "up"
           /\ process' = "failed" /\ todo' = <<>>
           /\ UNCHANGED <<kernel, active, requests, replied>>
  <2>1. emits = <<>> /\ Live = {} /\ \A r \in Runs : active[r] = 0
    BY <1>1, <1>3 DEF RunsInv, EndedIsOver
  <2>2. active' = [r \in Runs |-> 0]
    <3>1. active \in [Runs -> 0..MaxRequests]
      BY DEF RunsInv, TypeOK, HostTyped
    <3> QED BY <1>3, <2>1, <3>1
  <2>3. KernelTyped' /\ OpenByAlive' /\ Live' = Live /\ emits' = emits
    BY <1>3 DEF RunsInv, TypeOK, KernelTyped, OpenByAlive, Live, kernel
  <2> QED BY <1>1, <1>3, <2>1, <2>2, <2>3, EndedRuns
<1> QED BY <1>2, <1>3 DEF Abort

LEMMA WriterClosedRuns ==
    ASSUME RunsInv, WriterClosed PROVE RunsInv'
<1>1. /\ process' = "failed" /\ runs' = [r \in Runs |-> NoRun] /\ caps' = caps
      /\ emits' = <<>> /\ batch' = <<>> /\ todo' = <<>> /\ pending' = {}
      /\ active' = [r \in Runs |-> 0] /\ UNCHANGED <<fate, lost, refusals, requests, replied>>
    BY DEF WriterClosed
<1>2. WireTyped'
    BY <1>1, EmptySeq DEF RunsInv, TypeOK, WireTyped
<1>3. Live' = {}
    BY <1>1 DEF Live
<1>4. KernelTyped' /\ OpenByAlive'
    BY <1>1, <1>3, EmptySeq DEF RunsInv, TypeOK, KernelTyped, OpenByAlive
<1> QED BY <1>1, <1>2, <1>3, <1>4, EndedRuns

(* Interrupting: the run is settled at the end of the same handler. *)
LEMMA InterruptedSteps ==
    ASSUME RunsInv, DeliverInterrupted \/ MarkInterrupted
    PROVE  /\ Head(todo).run \in Live /\ HostTyped' /\ ProgramOrdered'
           /\ Head(todo).op \in {"deliver", "mark"}
           /\ Steps = {Head(todo)} \cup Rest /\ Steps' = Rest /\ batch = <<>> /\ process = "up"
           /\ Settle(Head(todo).run) \in Rest
           /\ todo' # <<>> /\ Head(todo').op \notin Quiet
           /\ Start(Head(todo).run) \notin Rest
<1>1. PICK op \in {"deliver", "mark"} : At(op)
    BY DEF DeliverInterrupted, MarkInterrupted
<1>2. PICK r : r = Head(todo).run
    OBVIOUS
<1>3. /\ todo # <<>> /\ Head(todo).op = op /\ Steps = {Head(todo)} \cup Rest
      /\ Rest \subseteq Steplike /\ batch = <<>> /\ process = "up" /\ HostTyped /\ ProgramOrdered
      /\ \A b \in Rest : Ordered(Head(todo), b)
      /\ StepSound(Head(todo)) /\ Head(todo) \in Steplike
    BY <1>1, AtFacts
<1>4. r \in Live /\ Settle(r) \in Steps /\ r \in Runs
    BY <1>1, <1>2, <1>3 DEF StepSound, OfRun, Live
<1>5. Settle(r) \in Rest
  <2>1. Settle(r).op = "settle"
    BY <1>4, StepFields
  <2> QED BY <1>1, <1>3, <1>4, <2>1
<1>6. Then(<<>>) /\ UNCHANGED <<active, requests, replied, process>>
    BY DEF DeliverInterrupted, MarkInterrupted
<1>7. todo' = Tail(todo) /\ todo' \in Seq(Steplike) /\ ProgramOrdered' /\ Steps' = Rest
    BY <1>3, <1>6, ThenNothing
<1>8. HostTyped'
    BY <1>3, <1>6, <1>7 DEF HostTyped
<1>9. todo' # <<>>
    BY <1>5, <1>7, ToSetSmall DEF Rest
<1>10. Head(todo') \in Rest
  <2>1. ToSet(todo') = {Head(todo')} \cup ToSet(Tail(todo'))
    BY <1>7, <1>9, ToSetHead
  <2> QED BY <1>7, <2>1 DEF Rest
<1>11. Head(todo').op \notin Quiet
    BY <1>1, <1>3, <1>10 DEF Ordered
<1>12. Start(r) \notin Rest
  <2> SUFFICES ASSUME Start(r) \in Rest PROVE FALSE
    OBVIOUS
  <2>1. /\ Start(r).op = "start" /\ Start(r).run = r /\ Settle(r).op = "settle" /\ Settle(r).run = r
    BY <1>4, StepFields
  <2>2. Tail(todo) \in Seq(Steplike) /\ Pairwise(OrderedRel, Tail(todo))
    BY <1>3, HeadShape
  <2>3. Rest = {Tail(todo)[i] : i \in 1..Len(Tail(todo))}
    BY <2>2, ToSetByIndex DEF Rest
  <2>4. PICK i, j \in 1..Len(Tail(todo)) : Tail(todo)[i] = Start(r) /\ Tail(todo)[j] = Settle(r)
    BY <1>5, <2>3
  <2>5. i # j /\ i \in Nat /\ j \in Nat
    BY <2>1, <2>4
  <2>6. i < j \/ j < i
    BY <2>5
  <2>7. <<Start(r), Settle(r)>> \in OrderedRel \/ <<Settle(r), Start(r)>> \in OrderedRel
    BY <2>2, <2>4, <2>6, Zenon DEF Pairwise
  <2>8. Ordered(Start(r), Settle(r)) \/ Ordered(Settle(r), Start(r))
    BY <1>3, <1>5, <2>7, OrderedPair
  <2> QED BY <2>1, <2>8 DEF Ordered
<1> QED BY <1>1, <1>2, <1>3, <1>4, <1>5, <1>7, <1>8, <1>9, <1>11, <1>12

LEMMA InterruptedRuns ==
    ASSUME RunsInv, DeliverInterrupted \/ MarkInterrupted PROVE RunsInv'
<1>1. UNCHANGED wire /\ UNCHANGED <<active, requests, replied, process>>
    BY DEF DeliverInterrupted, MarkInterrupted
<1>2. PICK r : r = Head(todo).run
    OBVIOUS
<1>3. /\ r \in Live /\ HostTyped' /\ ProgramOrdered' /\ Head(todo).op \in {"deliver", "mark"}
      /\ Steps = {Head(todo)} \cup Rest /\ Steps' = Rest /\ batch = <<>> /\ process = "up"
      /\ todo' # <<>> /\ Head(todo').op \notin Quiet /\ Start(r) \notin Rest
    BY <1>2, InterruptedSteps
<1>4. WireTyped' /\ batch' = batch
    BY <1>1 DEF RunsInv, TypeOK, WireTyped, wire
<1>5. /\ KernelTyped' /\ OpenByAlive' /\ Live' = Live
      /\ \A x \in Live : /\ runs'[x].request = runs[x].request
                         /\ runs'[x].session = runs[x].session
      /\ \A x \in Runs : x # r => runs'[x] = runs[x]
  <2>1. CASE DeliverInterrupted
    <3>0. PICK c : c = Head(todo).id
      OBVIOUS
    <3>1. PICK y, em : Acts(r, y, em, {c})
      BY <1>2, <2>1, <3>0, DeliverActs
    <3> QED BY <1>3, <3>1, ActsKernel DEF RunsInv
  <2>2. CASE MarkInterrupted
    <3>1. runs' = runs /\ caps' = caps /\ emits' = Append(emits, Event(r))
      BY <1>2, <2>2 DEF MarkInterrupted
    <3>2. Event(r) \in Emissions
      BY <1>3, EventShape DEF Live
    <3>3. emits' \in Seq(Emissions)
      BY <3>1, <3>2 DEF RunsInv, TypeOK, KernelTyped
    <3> QED BY <3>1, <3>3 DEF RunsInv, TypeOK, KernelTyped, OpenByAlive, Live
  <2> QED BY <2>1, <2>2
<1>6. QueueWatched'
    BY <1>3, <1>4 DEF QueueWatched, Quiet
<1>7. EndedIsOver'
    BY <1>1, <1>3 DEF EndedIsOver
<1>8. StepsSound' /\ RepliesOwed' /\ SameSession'
  <2>1. \A t \in Steps' : t \in Steps
    BY <1>3
  <2>2. \A t \in Steps : t \notin Steps' => t.op \in {"deliver", "mark"}
    BY <1>3
  <2>3. \A t \in Steps : t.op = "start" => runs'[t.run] = runs[t.run]
    <3> TAKE t \in Steps
    <3> HAVE t.op = "start"
    <3>1. t \in Rest /\ t \in Steplike
      BY <1>3, ToSetByIndex DEF RunsInv, TypeOK, HostTyped, Steps
    <3>2. t.run \in Runs /\ t = Start(t.run)
      BY <3>1, StepKinds
    <3>3. t.run # r
      BY <1>3, <3>1, <3>2
    <3> QED BY <1>5, <3>2, <3>3
  <2> QED BY <1>1, <1>5, <2>1, <2>2, <2>3, RunsKept
<1> QED BY <1>3, <1>4, <1>5, <1>6, <1>7, <1>8 DEF RunsInv, TypeOK

-----------------------------------------------------------------------------
(* The handlers that end no run keep RunsInv. *)
LEMMA HandlerBegins ==
    ASSUME RunsInv, Idle, KernelTyped', WireTyped', OpenByAlive', Live' = Live,
           UNCHANGED <<active, requests, replied, process>>, batch' = <<>>,
           \A x \in Live : /\ runs'[x].request = runs[x].request
                           /\ runs'[x].session = runs[x].session,
           todo' \in Seq(Steplike), ProgramOrdered', \A t \in Steps' : StepSound(t)',
           emits' # <<>> => todo' # <<>> /\ Head(todo').op \notin Quiet
    PROVE  RunsInv'
<1>1. process = "up" /\ Steps = {}
    BY IdleFacts
<1>2. HostTyped'
    BY DEF RunsInv, TypeOK, HostTyped
<1>3. QueueWatched'
    BY DEF QueueWatched, Quiet
<1>4. EndedIsOver'
    BY <1>1 DEF EndedIsOver
<1>5. StepsSound' /\ RepliesOwed' /\ SameSession'
    BY <1>1, RunsKept
<1> QED BY <1>2, <1>3, <1>4, <1>5 DEF RunsInv, TypeOK

LEMMA FlushThenSettle ==
    ASSUME NEW r \in Live, Live' = Live, todo' = <<Flush, Settle(r)>>
    PROVE  /\ todo' \in Seq(Steplike) /\ ProgramOrdered' /\ Steps' = {Flush, Settle(r)}
           /\ todo' # <<>> /\ Head(todo').op \notin Quiet /\ \A t \in Steps' : StepSound(t)'
<1>1. r \in Runs
    BY DEF Live
<1>2. /\ Flush \in Steplike /\ Settle(r) \in Steplike /\ Flush.op = "flush"
      /\ Settle(r).op = "settle" /\ Settle(r).run = r
    BY <1>1, StepFields
<1>3. Ordered(Flush, Settle(r))
    BY <1>2 DEF Ordered
<1>4. /\ todo' \in Seq(Steplike) /\ ProgramOrdered' /\ Steps' = {Flush, Settle(r)}
      /\ todo' # <<>> /\ Head(todo') = Flush
    BY <1>2, <1>3, ProgramOfTwo
<1>5. StepSound(Flush)'
    BY <1>2 DEF StepSound, OfRun, Flush
<1>6. StepSound(Settle(r))'
    BY <1>2, Zenon DEF StepSound, OfRun, Settle
<1> QED BY <1>2, <1>4, <1>5, <1>6 DEF Quiet

LEMMA FlushOnly ==
    ASSUME todo' = <<Flush>>
    PROVE  /\ todo' \in Seq(Steplike) /\ ProgramOrdered' /\ Steps' = {Flush}
           /\ todo' # <<>> /\ Head(todo').op \notin Quiet /\ \A t \in Steps' : StepSound(t)'
<1>1. Flush \in Steplike /\ Flush.op = "flush"
    BY StepFields
<1>2. /\ todo' \in Seq(Steplike) /\ ProgramOrdered' /\ Steps' = {Flush}
      /\ todo' # <<>> /\ Head(todo') = Flush
    BY <1>1, ProgramOfOne
<1>3. StepSound(Flush)'
    BY <1>1 DEF StepSound, OfRun, Flush
<1> QED BY <1>1, <1>2, <1>3 DEF Quiet

(* Handlers that activate actors of a run, then flush and may settle it. *)
LEMMA ActivationRuns ==
    ASSUME RunsInv, Idle, NEW r \in Live, NEW y, NEW em, NEW closed, Acts(r, y, em, closed),
           todo' \in {<<Flush, Settle(r)>>, <<Flush>>}, WireTyped', batch' = batch,
           UNCHANGED <<active, requests, replied, process>>
    PROVE  RunsInv'
<1>1. /\ KernelTyped' /\ OpenByAlive' /\ Live' = Live
      /\ \A x \in Live : /\ runs'[x].request = runs[x].request
                         /\ runs'[x].session = runs[x].session
    BY ActsKernel DEF RunsInv
<1>2. /\ todo' \in Seq(Steplike) /\ ProgramOrdered' /\ todo' # <<>>
      /\ Head(todo').op \notin Quiet /\ \A t \in Steps' : StepSound(t)'
    BY <1>1, FlushThenSettle, FlushOnly
<1>3. batch' = <<>>
    BY IdleFacts
<1> QED BY <1>1, <1>2, <1>3, HandlerBegins

LEMMA SameWire ==
    ASSUME RunsInv, UNCHANGED wire PROVE WireTyped' /\ batch' = batch
BY DEF RunsInv, TypeOK, WireTyped, wire

LEMMA ApplyRuns ==
    ASSUME RunsInv, NEW r \in Runs, Apply(r) PROVE RunsInv'
<1>1. Idle /\ todo' = <<Flush, Settle(r)>> /\ UNCHANGED wire
      /\ UNCHANGED <<active, requests, replied, process>>
    BY DEF Apply
<1>2. PICK y, em : r \in Live /\ Acts(r, y, em, {})
    BY ApplyRunActs
<1> QED BY <1>1, <1>2, SameWire, ActivationRuns

LEMMA ResumeActorRuns ==
    ASSUME RunsInv, NEW r \in Runs, ResumeActor(r) PROVE RunsInv'
<1>1. Idle /\ todo' = <<Flush, Settle(r)>> /\ UNCHANGED wire
      /\ UNCHANGED <<active, requests, replied, process>>
    BY DEF ResumeActor
<1>2. PICK y, em : r \in Live /\ Acts(r, y, em, {})
    BY ResumeActs
<1> QED BY <1>1, <1>2, SameWire, ActivationRuns

LEMMA AnswerRuns ==
    ASSUME RunsInv, NEW c, Answer(c) PROVE RunsInv'
<1>1. Idle /\ batch' = batch /\ UNCHANGED <<active, requests, replied, process>>
    BY DEF Answer
<1>2. PICK r \in Live : todo' = <<Flush, Settle(r)>> /\ \E y, em : Acts(r, y, em, {c})
    BY AnswerActs
<1>3. PICK y, em : Acts(r, y, em, {c})
    BY <1>2
<1>4. WireTyped'
    BY DEF Answer, RunsInv, TypeOK, WireTyped
<1> QED BY <1>1, <1>2, <1>3, <1>4, ActivationRuns

(* Handlers that only emit. *)
LEMMA EmittingRuns ==
    ASSUME RunsInv, Idle, UNCHANGED <<runs, caps, wire, active, requests, replied, process>>,
           emits' \in Seq(Emissions), todo' \in Seq(Steplike), ProgramOrdered',
           \A t \in Steps' : StepSound(t)',
           emits' # <<>> => todo' # <<>> /\ Head(todo').op \notin Quiet
    PROVE  RunsInv'
<1>1. KernelTyped' /\ OpenByAlive' /\ Live' = Live
    BY DEF RunsInv, TypeOK, KernelTyped, OpenByAlive, Live
<1>2. WireTyped' /\ batch' = <<>>
    BY SameWire, IdleFacts
<1> QED BY <1>1, <1>2, HandlerBegins

LEMMA ApplyRejectedRuns ==
    ASSUME RunsInv, NEW r \in Runs, ApplyRejected(r) PROVE RunsInv'
<1>1. Idle /\ todo' = <<Flush, Settle(r)>> /\ emits' = Append(emits, Event(r)) /\ runs' = runs
      /\ UNCHANGED <<runs, caps, wire, active, requests, replied, process>>
    BY DEF ApplyRejected
<1>2. r \in Live /\ Live' = Live
    BY <1>1, IdleFacts DEF ApplyRejected, Live
<1>3. emits' \in Seq(Emissions)
    BY <1>1, EventShape DEF RunsInv, TypeOK, KernelTyped
<1>4. /\ todo' \in Seq(Steplike) /\ ProgramOrdered' /\ todo' # <<>>
      /\ Head(todo').op \notin Quiet /\ \A t \in Steps' : StepSound(t)'
    BY <1>1, <1>2, FlushThenSettle
<1> QED BY <1>1, <1>3, <1>4, EmittingRuns

LEMMA CompactedRuns ==
    ASSUME RunsInv, NEW c, Compacted(c) PROVE RunsInv'
<1>1. /\ Idle /\ runs' = runs
      /\ UNCHANGED <<runs, caps, wire, active, requests, replied, process>>
    BY DEF Compacted
<1>2. PICK r \in Live : emits' = Append(emits, Event(r)) /\ todo' = <<Flush, Settle(r)>>
    BY DEF Compacted, Waiting
<1>3. Live' = Live /\ r \in Runs
    BY <1>1 DEF Live
<1>4. emits' \in Seq(Emissions)
    BY <1>2, <1>3, EventShape DEF RunsInv, TypeOK, KernelTyped
<1>5. /\ todo' \in Seq(Steplike) /\ ProgramOrdered' /\ todo' # <<>>
      /\ Head(todo').op \notin Quiet /\ \A t \in Steps' : StepSound(t)'
    BY <1>2, <1>3, FlushThenSettle
<1> QED BY <1>1, <1>4, <1>5, EmittingRuns

LEMMA ObserveRuns ==
    ASSUME RunsInv, NEW c, Observe(c) PROVE RunsInv'
<1>1. Idle /\ todo' = <<Flush>> /\ UNCHANGED wire
      /\ UNCHANGED <<active, requests, replied, process>>
    BY DEF Observe
<1>2. PICK r \in Live : \E y, em : Acts(r, y, em, {})
    BY ObserveActs
<1>3. PICK y, em : Acts(r, y, em, {})
    BY <1>2
<1> QED BY <1>1, <1>3, SameWire, ActivationRuns

LEMMA EndOnlyRuns ==
    ASSUME RunsInv, Idle, NEW r \in Live, NEW s \in {"killed", "failed"},
           todo' = <<End(r, s)>>, UNCHANGED <<kernel, wire, active, requests, replied, process>>
    PROVE  RunsInv'
<1>1. End(r, s) \in Steplike /\ End(r, s).op = "end" /\ End(r, s).run = r
    BY StepFields DEF Live
<1>2. todo' \in Seq(Steplike) /\ ProgramOrdered' /\ Steps' = {End(r, s)}
    BY <1>1, ProgramOfOne
<1>3. UNCHANGED <<runs, caps, wire, active, requests, replied, process>> /\ emits' = emits
    BY DEF kernel
<1>4. Live' = Live
    BY <1>3 DEF Live
<1>5. StepSound(End(r, s))'
    BY <1>1, <1>4, Zenon DEF StepSound, OfRun, End
<1>6. emits' = <<>> /\ emits' \in Seq(Emissions)
    BY <1>3, IdleFacts, EmptySeq
<1>7. \A t \in Steps' : StepSound(t)'
    BY <1>2, <1>5
<1> QED BY <1>2, <1>3, <1>6, <1>7, EmittingRuns

LEMMA KillRunRuns ==
    ASSUME RunsInv, NEW r \in Runs, KillRun(r) \/ TerminateRun(r) PROVE RunsInv'
<1>1. r \in Live /\ Idle
    BY IdleFacts DEF KillRun, TerminateRun
<1>2. UNCHANGED <<kernel, wire, active, requests, replied, process>>
    BY DEF KillRun, TerminateRun
<1>3. todo' = <<End(r, "killed")>> \/ todo' = <<End(r, "failed")>>
    BY DEF KillRun, TerminateRun
<1> QED BY <1>1, <1>2, <1>3, EndOnlyRuns

LEMMA KillAllSteps ==
    ASSUME RunsInv, KillAllRuns
    PROVE  /\ todo' \in Seq(Steplike) /\ ProgramOrdered'
           /\ \A t \in Steps' : \E r \in Live : t = End(r, "killed")
<1>1. Idle
    BY DEF KillAllRuns
<1> DEFINE R == {r \in Runs : active[r] # 0}
<1>2. PICK order \in SetToSeqs(R) : todo' = [i \in DOMAIN order |-> End(order[i], "killed")]
    BY DEF KillAllRuns, Each
<1>3. R \subseteq Live /\ IsFiniteSet(R)
  <2>1. R \subseteq Live /\ R \subseteq Runs
    BY <1>1, IdleFacts
  <2> QED BY <2>1, BoundsAreNaturals, FS_Subset
<1> HIDE DEF R
<1>4. order \in Seq(R) /\ \A i, j \in 1..Len(order) : i # j => order[i] # order[j]
    BY <1>3, OrderOfSet
<1>5. DOMAIN order = 1..Len(order) /\ Len(order) \in Nat /\ \A i \in 1..Len(order) : order[i] \in Live
    BY <1>3, <1>4, LenProperties, ElementOfSeq
<1>6. \A r \in Live : End(r, "killed") \in Steplike /\ End(r, "killed").op = "end"
                      /\ End(r, "killed").run = r
    BY StepFields DEF Live
<1>7. todo' = [i \in 1..Len(order) |-> End(order[i], "killed")]
    BY <1>2, <1>5
<1>8. todo' \in [1..Len(order) -> Steplike] /\ \A i \in 1..Len(order) : todo'[i] = End(order[i], "killed")
    BY <1>5, <1>6, <1>7
<1>9. todo' \in Seq(Steplike) /\ Len(todo') = Len(order)
    BY <1>5, <1>8
<1>10. \A j, k \in 1..Len(todo') : j < k => Ordered(todo'[j], todo'[k])
  <2> TAKE j, k \in 1..Len(todo')
  <2> HAVE j < k
  <2>1. j # k /\ j \in 1..Len(order) /\ k \in 1..Len(order)
    BY <1>9
  <2>2. order[j] # order[k] /\ order[j] \in Live /\ order[k] \in Live
    BY <1>4, <1>5, <2>1
  <2>3. Ordered(End(order[j], "killed"), End(order[k], "killed"))
    BY <1>6, <2>2 DEF Ordered
  <2> QED BY <1>8, <2>1, <2>3
<1>11. ProgramOrdered'
    BY <1>10 DEF ProgramOrdered
<1>12. \A t \in Steps' : \E r \in Live : t = End(r, "killed")
  <2>1. Steps' = {todo'[i] : i \in 1..Len(order)}
    BY <1>9, ToSetByIndex DEF Steps
  <2> QED BY <1>5, <1>8, <2>1
<1> QED BY <1>9, <1>11, <1>12

LEMMA KillAllRunsRuns ==
    ASSUME RunsInv, KillAllRuns PROVE RunsInv'
<1>1. Idle /\ UNCHANGED <<kernel, wire, active, requests, replied, process>>
    BY DEF KillAllRuns
<1>2. todo' \in Seq(Steplike) /\ ProgramOrdered'
    BY KillAllSteps
<1>3. UNCHANGED <<runs, caps, wire, active, requests, replied, process>> /\ emits' = emits
    BY <1>1 DEF kernel
<1>4. Live' = Live
    BY <1>3 DEF Live
<1>5. \A t \in Steps' : StepSound(t)'
  <2> TAKE t \in Steps'
  <2>1. PICK r \in Live : t = End(r, "killed")
    BY KillAllSteps
  <2>2. t.op = "end" /\ t.run = r
    BY <2>1, StepFields DEF Live
  <2> QED BY <1>4, <2>2, Zenon DEF StepSound, OfRun
<1>6. emits' = <<>> /\ emits' \in Seq(Emissions)
    BY <1>1, <1>3, IdleFacts, EmptySeq
<1> QED BY <1>1, <1>2, <1>3, <1>5, <1>6, EmittingRuns

(* The program of a graceful interrupt. *)
LEMMA DeliverProgram ==
    ASSUME NEW r \in Runs, NEW ids \in SUBSET (1..MaxCaps), NEW p,
           p = [i \in DOMAIN Ascending(ids) |-> Deliver(r, Ascending(ids)[i])]
    PROVE  p \in Seq(Steplike) /\ ToSet(p) = {Deliver(r, c) : c \in ids}
<1>1. PICK f : f = Ascending(ids)
    OBVIOUS
<1>2. f \in Seq(ids) /\ ToSet(f) = ids
    BY <1>1, AscendingShape
<1>3. DOMAIN f = 1..Len(f) /\ Len(f) \in Nat /\ \A i \in 1..Len(f) : f[i] \in ids
    BY <1>2, LenProperties, ElementOfSeq
<1>4. p = [i \in 1..Len(f) |-> Deliver(r, f[i])]
    BY <1>1, <1>3
<1>5. \A c \in ids : Deliver(r, c) \in Steplike
    BY StepFields
<1>6. p \in [1..Len(f) -> Steplike] /\ \A i \in 1..Len(f) : p[i] = Deliver(r, f[i])
    BY <1>3, <1>4, <1>5
<1>7. p \in Seq(Steplike) /\ Len(p) = Len(f)
    BY <1>3, <1>6
<1>8. ToSet(p) = {p[i] : i \in 1..Len(f)} /\ ids = {f[i] : i \in 1..Len(f)}
    BY <1>2, <1>7, ToSetByIndex
<1>9. ToSet(p) = {Deliver(r, c) : c \in ids}
  <2>1. \A t \in ToSet(p) : t \in {Deliver(r, c) : c \in ids}
    BY <1>3, <1>6, <1>8, Zenon
  <2>2. \A c \in ids : Deliver(r, c) \in ToSet(p)
    BY <1>6, <1>8, Zenon
  <2> QED BY <2>1, <2>2, Zenon
<1> QED BY <1>7, <1>9

LEMMA InterruptProgram ==
    ASSUME NEW r \in Runs, NEW calls \in SUBSET (1..MaxCaps), NEW commands \in SUBSET (1..MaxCaps),
           NEW d1 \in Seq(Steplike), ToSet(d1) = {Deliver(r, c) : c \in calls},
           NEW d2 \in Seq(Steplike), ToSet(d2) = {Deliver(r, c) : c \in commands},
           NEW m \in Seq(Steplike), ToSet(m) = {Mark(r)},
           NEW fs \in Seq(Steplike), ToSet(fs) = {Flush, Settle(r)}, Pairwise(OrderedRel, fs),
           todo' = ((d1 \o m) \o d2) \o fs
    PROVE  /\ todo' \in Seq(Steplike) /\ ProgramOrdered' /\ todo' # <<>>
           /\ Head(todo').op \notin Quiet
           /\ Steps' = {Deliver(r, c) : c \in calls \cup commands} \cup {Mark(r), Flush, Settle(r)}
<1>4. /\ Mark(r) \in Steplike /\ Flush \in Steplike /\ Settle(r) \in Steplike
      /\ Mark(r).op = "mark" /\ Flush.op = "flush" /\ Settle(r).op = "settle" /\ Settle(r).run = r
    BY StepFields
<1>7. PICK a : a = d1 \o m
    OBVIOUS
<1>8. a \in Seq(Steplike) /\ ToSet(a) = {Deliver(r, c) : c \in calls} \cup {Mark(r)}
  <2>1. a \in Seq(Steplike) /\ ToSet(a) = ToSet(d1) \cup ToSet(m)
    BY <1>7, ToSetConcat
  <2> QED BY <2>1
<1>9. PICK b : b = a \o d2
    OBVIOUS
<1>10. /\ b \in Seq(Steplike)
       /\ ToSet(b) = {Deliver(r, c) : c \in calls \cup commands} \cup {Mark(r)}
  <2>1. b \in Seq(Steplike) /\ ToSet(b) = ToSet(a) \cup ToSet(d2)
    BY <1>8, <1>9, ToSetConcat
  <2> QED BY <1>8, <2>1
<1>11. \A t \in ToSet(b) : t \in Steplike /\ t.op \in {"deliver", "mark"}
  <2>1. \A c \in calls \cup commands : Deliver(r, c).op = "deliver"
    BY StepFields
  <2>2. ToSet(b) \subseteq Steplike
    BY <1>10, ToSetByIndex
  <2> QED BY <1>4, <1>10, <2>1, <2>2
<1>12. \A t \in ToSet(b), u \in ToSet(b) \cup ToSet(fs) : <<t, u>> \in OrderedRel
  <2> TAKE t \in ToSet(b), u \in ToSet(b) \cup ToSet(fs)
  <2>1. u \in Steplike /\ u.op \notin Quiet
    BY <1>4, <1>11 DEF Quiet
  <2>2. Ordered(t, u)
    BY <1>11, <2>1 DEF Ordered
  <2> QED BY <1>11, <2>1, <2>2, OrderedPair
<1>13. Pairwise(OrderedRel, b)
  <2>1. \A i \in 1..Len(b) : b[i] \in ToSet(b)
    <3>1. ToSet(b) = {b[i] : i \in 1..Len(b)}
      BY <1>10, ToSetByIndex
    <3> QED BY <3>1
  <2> QED BY <1>12, <2>1, Zenon DEF Pairwise
<1>14. todo' = b \o fs
    BY <1>7, <1>9
<1>15. todo' \in Seq(Steplike) /\ Steps' = ToSet(b) \cup ToSet(fs)
    BY <1>10, <1>14, ToSetConcat DEF Steps
<1>16. Pairwise(OrderedRel, todo')
  <2>1. \A t \in ToSet(b), u \in ToSet(fs) : <<t, u>> \in OrderedRel
    BY <1>12, Zenon
  <2>2. Pairwise(OrderedRel, b \o fs)
    BY <1>10, <1>13, <2>1, PairwiseConcat
  <2> QED BY <1>14, <2>2, Zenon
<1>17. ProgramOrdered'
    BY <1>15, <1>16, NewProgram
<1>18. todo' # <<>>
    BY <1>15, ToSetSmall DEF Steps
<1>19. Head(todo').op \notin Quiet
  <2>1. Steps' = {Head(todo')} \cup ToSet(Tail(todo'))
    BY <1>15, <1>18, ToSetHead DEF Steps
  <2>2. Head(todo') \in ToSet(b) \/ Head(todo') \in {Flush, Settle(r)}
    BY <1>15, <2>1
  <2> QED BY <1>4, <1>11, <2>2 DEF Quiet
<1> QED BY <1>10, <1>15, <1>17, <1>18, <1>19

LEMMA InterruptShape ==
    ASSUME RunsInv, NEW r \in Runs, InterruptRun(r)
    PROVE  /\ r \in Live /\ Idle /\ todo' \in Seq(Steplike) /\ ProgramOrdered' /\ todo' # <<>>
           /\ Head(todo').op \notin Quiet
           /\ Steps' = {Deliver(r, c) : c \in runs[r].open} \cup {Mark(r), Flush, Settle(r)}
           /\ \E em : CancelsAll(em, r, runs[r].open, caps) /\ emits' = emits \o em
<1>1. Idle /\ r \in Live
    BY IdleFacts DEF InterruptRun
<1>2. /\ caps \in Seq(Capabilities) /\ Len(caps) <= MaxCaps /\ emits \in Seq(Emissions)
      /\ KernelTyped /\ OpenByAlive
    BY DEF RunsInv, TypeOK, KernelTyped
<1>3. DOMAIN caps = 1..Len(caps) /\ Len(caps) \in Nat /\ MaxCaps \in Nat
    BY <1>2, LenProperties, BoundsAreNaturals
<1>4. \A c \in runs[r].open : c \in 1..Len(caps) /\ caps[c].class \in Classes
  <2> TAKE c \in runs[r].open
  <2>1. c \in 1..Len(caps)
    BY <1>1, <1>2, OpenKnown
  <2>2. caps[c] \in Capabilities
    BY <1>2, <2>1, ElementOfSeq
  <2> QED BY <2>1, <2>2 DEF Capabilities
<1>5. PICK calls : calls = {c \in runs[r].open : caps[c].class \in {"tool", "provider"}}
    OBVIOUS
<1>6. PICK commands : commands = {c \in runs[r].open : caps[c].class \in {"compaction", "query"}}
    OBVIOUS
<1>7. calls \cup commands = runs[r].open
    BY <1>4, <1>5, <1>6 DEF Classes
<1>8. calls \in SUBSET (1..Len(caps)) /\ commands \in SUBSET (1..Len(caps))
    BY <1>4, <1>5, <1>6
<1>9. calls \in SUBSET (1..MaxCaps) /\ commands \in SUBSET (1..MaxCaps)
    BY <1>2, <1>3, <1>8
<1>10. PICK d1 : d1 = [i \in DOMAIN Ascending(calls) |-> Deliver(r, Ascending(calls)[i])]
    OBVIOUS
<1>11. PICK d2 : d2 = [i \in DOMAIN Ascending(commands) |-> Deliver(r, Ascending(commands)[i])]
    OBVIOUS
<1>12. todo' = ((d1 \o <<Mark(r)>>) \o d2) \o <<Flush, Settle(r)>>
    BY <1>5, <1>6, <1>10, <1>11 DEF InterruptRun, Each
<1>13. /\ todo' \in Seq(Steplike) /\ ProgramOrdered' /\ todo' # <<>>
       /\ Head(todo').op \notin Quiet
       /\ Steps' = {Deliver(r, c) : c \in calls \cup commands} \cup {Mark(r), Flush, Settle(r)}
  <2>1. /\ d1 \in Seq(Steplike) /\ ToSet(d1) = {Deliver(r, c) : c \in calls}
        /\ d2 \in Seq(Steplike) /\ ToSet(d2) = {Deliver(r, c) : c \in commands}
    BY <1>9, <1>10, <1>11, DeliverProgram
  <2>2. PICK m : m = <<Mark(r)>>
    OBVIOUS
  <2>3. PICK fs : fs = <<Flush, Settle(r)>>
    OBVIOUS
  <2>4. /\ Mark(r) \in Steplike /\ Flush \in Steplike /\ Settle(r) \in Steplike
        /\ Flush.op = "flush" /\ Settle(r).op = "settle"
    BY StepFields
  <2>5. m \in Seq(Steplike) /\ ToSet(m) = {Mark(r)}
    <3>1. <<Mark(r)>> \in Seq(Steplike)
      BY <2>4
    <3> QED BY <2>2, <3>1, ToSetSmall
  <2>6. fs \in Seq(Steplike) /\ ToSet(fs) = {Flush, Settle(r)} /\ Pairwise(OrderedRel, fs)
    <3>1. <<Flush, Settle(r)>> \in Seq(Steplike)
      BY <2>4
    <3>2. <<Flush, Settle(r)>> \in OrderedRel
      BY <2>4, OrderedPair DEF Ordered
    <3> QED BY <2>3, <3>1, <3>2, ToSetSmall, PairwiseSmall
  <2>7. todo' = ((d1 \o m) \o d2) \o fs
    BY <1>12, <2>2, <2>3
  <2> QED BY <1>9, <2>1, <2>5, <2>6, <2>7, InterruptProgram
<1>14. PICK c1 : c1 = Cancels(r, commands, caps)
    OBVIOUS
<1>15. PICK c2 : c2 = Cancels(r, calls, caps)
    OBVIOUS
<1>16. CancelsAll(c1, r, commands, caps) /\ CancelsAll(c2, r, calls, caps)
    BY <1>2, <1>8, <1>14, <1>15, CancelsShape
<1>17. emits' = emits \o c1 \o c2
    BY <1>5, <1>6, <1>14, <1>15 DEF InterruptRun
<1>18. c1 \in Seq(Emissions) /\ c2 \in Seq(Emissions)
    BY <1>16 DEF CancelsAll
<1>19. PICK em : em = c1 \o c2
    OBVIOUS
<1>20. em \in Seq(Emissions) /\ ToSet(em) = ToSet(c1) \cup ToSet(c2)
    BY <1>18, <1>19, ToSetConcat
<1>21. emits' = emits \o em
  <2>1. Associates(Emissions)
    BY ConcatAssociates, Zenon
  <2> QED BY <1>2, <1>17, <1>18, <1>19, <2>1, Zenon DEF Associates
<1>22. CancelsAll(em, r, calls \cup commands, caps)
    BY <1>16, <1>20, Zenon DEF CancelsAll
<1> QED BY <1>1, <1>7, <1>13, <1>21, <1>22

LEMMA InterruptRunRuns ==
    ASSUME RunsInv, NEW r \in Runs, InterruptRun(r) PROVE RunsInv'
<1>1. UNCHANGED <<runs, caps, wire, active, requests, replied, process>>
    BY DEF InterruptRun
<1>2. /\ r \in Live /\ Idle /\ todo' \in Seq(Steplike) /\ ProgramOrdered' /\ todo' # <<>>
      /\ Head(todo').op \notin Quiet
      /\ Steps' = {Deliver(r, c) : c \in runs[r].open} \cup {Mark(r), Flush, Settle(r)}
    BY InterruptShape
<1>3. emits' \in Seq(Emissions)
  <2>1. PICK em : CancelsAll(em, r, runs[r].open, caps) /\ emits' = emits \o em
    BY InterruptShape
  <2> QED BY <2>1, ConcatProperties DEF CancelsAll, RunsInv, TypeOK, KernelTyped
<1>4. Live' = Live
    BY <1>1 DEF Live
<1>5. runs[r].open \subseteq 1..MaxCaps
    BY <1>2, LiveContext DEF RunsInv, TypeOK
<1>6. \A t \in Steps' : StepSound(t)'
  <2>1. /\ Mark(r).op = "mark" /\ Mark(r).run = r /\ Flush.op = "flush"
        /\ Settle(r).op = "settle" /\ Settle(r).run = r
    BY StepFields
  <2>2. \A c \in runs[r].open : Deliver(r, c).op = "deliver" /\ Deliver(r, c).run = r
    BY <1>5, StepFields
  <2>3. \A t \in Steps' : t.op \in {"deliver", "mark", "flush", "settle"}
                          /\ (t.op # "flush" => t.run = r)
    BY <1>2, <2>1, <2>2
  <2>4. Settle(r) \in Steps'
    BY <1>2
  <2> TAKE t \in Steps'
  <2>5. t.op \in {"deliver", "mark"} => Settle(t.run)' \in Steps'
    BY <2>3, <2>4 DEF Settle
  <2>6. t.op \in {"deliver", "mark", "flush", "settle"} /\ (t.op # "flush" => t.run = r)
    BY <2>3
  <2> QED BY <1>2, <1>4, <2>5, <2>6 DEF StepSound, OfRun
<1> QED BY <1>1, <1>2, <1>3, <1>6, EmittingRuns

-----------------------------------------------------------------------------
(* Ending a run and replying to its execute. *)
LEMMA FinishSteps ==
    ASSUME RunsInv, NEW op \in {"decide", "end", "start"}, At(op), NEW r, r = Head(todo).run,
           NEW status \in {"completed", "failed", "killed"}, Finish(r, status)
    PROVE  /\ r \in Live /\ r \in Runs /\ active[r] \in Requests /\ active[r] = runs[r].request
           /\ HostTyped' /\ ProgramOrdered' /\ todo' # <<>> /\ Head(todo') = Flush
           /\ Steps' = {Flush, Reply(active[r], status)} \cup Rest
           /\ \A b \in Rest : /\ b.op \notin {"deliver", "mark"}
                              /\ b.op \notin {"flush", "reply"} => b.run # r
<1>1. /\ todo # <<>> /\ Head(todo).op = op /\ Head(todo) \in Steplike /\ HostTyped /\ ProgramOrdered
      /\ Rest \subseteq Steplike /\ StepSound(Head(todo))
      /\ \A b \in Rest : Ordered(Head(todo), b) /\ StepSound(b)
    BY AtFacts
<1>2. r \in Live /\ r \in Runs
    BY <1>1 DEF StepSound, OfRun, Live
<1>3. active[r] = runs[r].request /\ active[r] \in Requests
    BY <1>2, LiveContext DEF RunsInv, TypeOK, RepliesOwed
<1>4. PICK q \in Requests : q = active[r]
    BY <1>3
<1>5. /\ Flush \in Steplike /\ Reply(q, status) \in Steplike /\ Flush.op = "flush"
      /\ Reply(q, status).op = "reply" /\ Reply(q, status).request = q
    BY StepFields
<1>6. Then(<<Flush, Reply(q, status)>>)
    BY <1>4 DEF Finish
<1>7. \A b \in Rest : /\ b.op \notin {"deliver", "mark"}
                      /\ b.op \notin {"flush", "reply"} => b.run # r
                      /\ Ordered(Flush, b)
    BY <1>1, <1>2, AfterRun
<1>8. \A b \in Rest : Ordered(Reply(q, status), b)
  <2> TAKE b \in Rest
  <2>1. b.op = "reply" => b.request # q
    BY <1>1, <1>2, <1>4 DEF StepSound
  <2> QED BY <1>5, <1>7, <2>1 DEF Ordered
<1>9. Ordered(Flush, Reply(q, status))
    BY <1>5 DEF Ordered
<1>10. /\ todo' \in Seq(Steplike) /\ ProgramOrdered' /\ todo' # <<>> /\ Head(todo') = Flush
       /\ Steps' = {Flush, Reply(q, status)} \cup Rest
    BY <1>1, <1>5, <1>6, <1>7, <1>8, <1>9, ThenTwo
<1>11. HostTyped'
  <2>0. active \in [Runs -> 0..MaxRequests] /\ 0 \in 0..MaxRequests
    BY <1>1, BoundsAreNaturals DEF HostTyped
  <2>1. active' \in [Runs -> 0..MaxRequests]
    BY <2>0 DEF Finish
  <2> QED BY <1>1, <1>10, <2>1 DEF Finish, HostTyped
<1> QED BY <1>2, <1>3, <1>4, <1>7, <1>10, <1>11

LEMMA FinishRuns ==
    ASSUME RunsInv, NEW op \in {"decide", "end", "start"}, At(op), NEW r, r = Head(todo).run,
           NEW status \in {"completed", "failed", "killed"}, Finish(r, status)
    PROVE  RunsInv'
<1>1. /\ EndRuns({r}) /\ active' = [active EXCEPT ![r] = 0] /\ UNCHANGED wire
      /\ UNCHANGED <<requests, replied, process>>
    BY DEF Finish
<1>2. PICK q \in Requests : q = active[r]
    BY FinishSteps
<1>3. /\ r \in Live /\ r \in Runs
      /\ HostTyped' /\ ProgramOrdered' /\ todo' # <<>> /\ Head(todo') = Flush
      /\ Steps' = {Flush, Reply(q, status)} \cup Rest
      /\ \A b \in Rest : /\ b.op \notin {"deliver", "mark"}
                         /\ b.op \notin {"flush", "reply"} => b.run # r
    BY <1>2, FinishSteps
<1>4. /\ KernelTyped' /\ OpenByAlive' /\ Live' = Live \ {r}
      /\ \A x \in Live' : runs'[x] = runs[x]
    BY <1>1, <1>3, EndRunsKernel
<1>5. WireTyped' /\ batch' = batch
    BY <1>1, SameWire
<1>6. /\ Head(todo).op = op /\ Steps = {Head(todo)} \cup Rest /\ Rest \subseteq Steplike
      /\ \A b \in Rest : StepSound(b)
      /\ process = "up" /\ batch = <<>>
    BY AtFacts
<1>7. QueueWatched'
    BY <1>3, <1>5, <1>6, StepFields DEF QueueWatched, Quiet
<1>8. EndedIsOver'
    BY <1>1, <1>6 DEF EndedIsOver
<1>9. /\ active'[r] = 0 /\ \A x \in Runs : x # r => active'[x] = active[x]
      /\ active \in [Runs -> 0..MaxRequests] /\ q # 0
    BY <1>1, <1>3 DEF RunsInv, TypeOK, HostTyped, Requests
<1>10. /\ q <= requests /\ replied[q] = <<>> /\ \A x \in Runs : active'[x] # q
  <2>1. q <= requests /\ replied[q] = <<>> /\ \A x \in Runs : active[x] = active[r] => x = r
    BY <1>2, <1>3, <1>9, Zenon DEF RunsInv, RepliesOwed
  <2> QED BY <1>2, <1>9, <2>1
<1>11. ASSUME NEW t \in Rest PROVE StepSound(t)'
  <2>1. StepSound(t) /\ t.op \notin {"deliver", "mark"} /\ t \in Steplike
    BY <1>3, <1>6
  <2>2. t.op \in OfRun => t.run # r /\ t.run \in Live'
    BY <1>3, <1>4, <2>1 DEF OfRun, StepSound
  <2>3. t.op = "start" => /\ runs'[t.run].alive = {} /\ runs'[t.run].dead = {}
                          /\ runs'[t.run].open = {}
    BY <1>4, <2>1, <2>2 DEF OfRun, StepSound
  <2>4. t.op = "reaped" => t.run \notin Live' /\ active'[t.run] # 0
    BY <1>3, <1>4, <1>9, <2>1, StepKinds DEF StepSound
  <2>5. t.op = "reply" => /\ t.request <= requests' /\ replied'[t.request] = <<>>
                          /\ \A x \in Runs : active'[x] # t.request
    <3> HAVE t.op = "reply"
    <3>1. t.request \in Requests
      BY <2>1, StepKinds
    <3>2. t.request # 0
      BY <3>1 DEF Requests
    <3> QED BY <1>1, <1>9, <2>1, <3>2 DEF StepSound
  <2> QED BY <2>1, <2>2, <2>3, <2>4, <2>5 DEF StepSound, OfRun
<1>12. StepSound(Flush)'
  <2>1. Flush.op = "flush"
    BY StepFields
  <2> QED BY <2>1 DEF StepSound, OfRun, Flush
<1>13. \A t : t = Reply(q, status) => StepSound(t)'
  <2> TAKE t
  <2> HAVE t = Reply(q, status)
  <2>1. t.op = "reply" /\ t.request = q
    BY StepFields
  <2> QED BY <1>1, <1>10, <2>1 DEF StepSound, OfRun
<1>14. StepsSound'
    BY <1>3, <1>11, <1>12, <1>13, Zenon DEF StepsSound, Flush
<1>15. RepliesOwed
    BY DEF RunsInv
<1>16. RepliesOwed'
  <2>1. \A x \in Live' : active'[x] = runs'[x].request
    BY <1>4, <1>9, <1>15 DEF RepliesOwed, Live
  <2>2. \A x \in Runs : active'[x] # 0 =>
             /\ active'[x] <= requests' /\ replied'[active'[x]] = <<>>
             /\ x \notin Live' => Reaped(x) \in Steps'
    <3> TAKE x \in Runs
    <3> HAVE active'[x] # 0
    <3>1. x # r /\ active'[x] = active[x]
      BY <1>9
    <3>2. active[x] <= requests /\ replied[active[x]] = <<>>
      BY <1>15, <3>1 DEF RepliesOwed
    <3>3. x \notin Live' => Reaped(x) \in Steps
      BY <1>4, <1>15, <3>1 DEF RepliesOwed
    <3>4. Reaped(x) # Head(todo)
      BY <1>6, StepFields
    <3> QED BY <1>1, <1>3, <1>6, <3>1, <3>2, <3>3, <3>4
  <2>3. \A x, z \in Runs : active'[x] = active'[z] /\ active'[x] # 0 => x = z
    BY <1>9, <1>15 DEF RepliesOwed
  <2>4. \A p \in Requests :
             /\ Len(replied'[p]) <= 1
             /\ p > requests' => replied'[p] = <<>>
             /\ (process' = "up" /\ p <= requests' /\ replied'[p] = <<>>) =>
                    \/ \E x \in Runs : active'[x] = p
                    \/ \E t \in Steps' : t.op = "reply" /\ t.request = p
    <3> TAKE p \in Requests
    <3>1. Len(replied'[p]) <= 1 /\ (p > requests' => replied'[p] = <<>>)
      BY <1>1, <1>15 DEF RepliesOwed
    <3>2. ASSUME process' = "up", p <= requests', replied'[p] = <<>>
          PROVE  \/ \E x \in Runs : active'[x] = p
                 \/ \E t \in Steps' : t.op = "reply" /\ t.request = p
      <4>1. \/ \E x \in Runs : active[x] = p
            \/ \E t \in Steps : t.op = "reply" /\ t.request = p
        BY <1>1, <1>6, <1>15, <3>2 DEF RepliesOwed
      <4>2. CASE \E t \in Steps : t.op = "reply" /\ t.request = p
        BY <1>3, <1>6, <4>2
      <4>3. CASE \E x \in Runs : active[x] = p
        <5>1. PICK x \in Runs : active[x] = p
          BY <4>3
        <5>2. CASE x = r
          <6>1. Reply(q, status).op = "reply" /\ Reply(q, status).request = q /\ p = q
            BY <1>2, <5>1, <5>2, StepFields
          <6> QED BY <1>3, <6>1
        <5>3. CASE x # r
          BY <1>9, <5>1, <5>3
        <5> QED BY <5>2, <5>3
      <4> QED BY <4>1, <4>2, <4>3
    <3> QED BY <3>1, <3>2
  <2> QED BY <2>1, <2>2, <2>3, <2>4, Zenon DEF RepliesOwed, Reaped
<1>17. SameSession'
    BY <1>4 DEF RunsInv, SameSession
<1> QED BY <1>3, <1>4, <1>5, <1>7, <1>8, <1>14, <1>16, <1>17 DEF RunsInv, TypeOK

LEMMA EndingStepRuns ==
    ASSUME RunsInv, Decided \/ EndRun \/ StartFails PROVE RunsInv'
<1>1. PICK r : r = Head(todo).run
    OBVIOUS
<1>2. CASE Decided
  <2>1. Verdict(runs[r]) \in {"completed", "failed"}
    BY <1>1, <1>2 DEF Decided, Verdict
  <2> QED BY <1>1, <1>2, <2>1, FinishRuns DEF Decided
<1>3. CASE EndRun
  <2>1. Head(todo).status \in {"killed", "failed"}
    BY <1>3, AtFacts, StepKinds DEF EndRun
  <2> QED BY <1>1, <1>3, <2>1, FinishRuns DEF EndRun
<1>4. CASE StartFails
    BY <1>1, <1>4, FinishRuns DEF StartFails
<1> QED BY <1>2, <1>3, <1>4

-----------------------------------------------------------------------------
(* Replies. *)
LEMMA SendReplyRuns ==
    ASSUME RunsInv, SendReply PROVE RunsInv'
<1>1. /\ At("reply") /\ Then(<<>>) /\ UNCHANGED kernel
      /\ UNCHANGED <<fate, batch, pending, lost>> /\ UNCHANGED <<active, requests, process>>
    BY DEF SendReply
<1>2. PICK t : t = Head(todo)
    OBVIOUS
<1>3. /\ t \in Steplike /\ t.op = "reply" /\ StepSound(t) /\ Steps = {t} \cup Rest
      /\ Rest \subseteq Steplike /\ \A b \in Rest : Ordered(t, b) /\ StepSound(b)
      /\ process = "up" /\ batch = <<>> /\ emits = <<>> /\ HostTyped /\ ProgramOrdered /\ todo # <<>>
    BY <1>1, <1>2, AtFacts DEF Quiet
<1>4. t.request \in Requests /\ t.status \in {"completed", "failed", "killed"}
    BY <1>3, StepKinds
<1>5. PICK q \in Requests : q = t.request
    BY <1>4
<1>6. PICK s \in {"completed", "failed", "killed"} : replied' = [replied EXCEPT ![q] = Append(@, s)]
    BY <1>2, <1>4, <1>5 DEF SendReply
<1>7. /\ replied \in [Requests -> Seq(Statuses)] /\ replied[q] = <<>> /\ q <= requests
      /\ \A x \in Runs : active[x] # q
    BY <1>3, <1>5 DEF HostTyped, StepSound
<1>8. /\ replied' \in [Requests -> Seq(Statuses)] /\ replied'[q] = <<s>>
      /\ \A p \in Requests : p # q => replied'[p] = replied[p]
  <2>1. s \in Statuses
    BY <1>6 DEF Statuses
  <2>2. replied' = [replied EXCEPT ![q] = Append(replied[q], s)]
    BY <1>6
  <2>3. Append(replied[q], s) = <<s>> /\ <<s>> \in Seq(Statuses)
    BY <1>7, <2>1
  <2>4. PICK v \in Seq(Statuses) : v = <<s>>
    BY <2>3
  <2>5. replied' = [replied EXCEPT ![q] = v]
    BY <2>2, <2>3, <2>4
  <2>6. /\ replied' \in [Requests -> Seq(Statuses)] /\ replied'[q] = v
        /\ \A p \in Requests : p # q => replied'[p] = replied[p]
    BY <1>7, <2>5
  <2> QED BY <2>4, <2>6
<1>9. todo' \in Seq(Steplike) /\ ProgramOrdered' /\ Steps' = Rest
    BY <1>1, <1>3, ThenNothing
<1>10. HostTyped'
    BY <1>1, <1>3, <1>8, <1>9 DEF HostTyped
<1>11. WireTyped'
  <2>1. refusals' \in 0..MaxRefusals
    BY BoundsAreNaturals DEF SendReply, RunsInv, TypeOK, WireTyped
  <2> QED BY <1>1, <2>1 DEF RunsInv, TypeOK, WireTyped
<1>12. KernelTyped' /\ OpenByAlive' /\ Live' = Live /\ runs' = runs /\ emits' = emits
    BY <1>1 DEF RunsInv, TypeOK, KernelTyped, OpenByAlive, Live, kernel
<1>13. QueueWatched'
    BY <1>1, <1>3, <1>12 DEF QueueWatched
<1>14. EndedIsOver'
    BY <1>1, <1>3 DEF EndedIsOver
<1>15. ASSUME NEW b \in Rest PROVE StepSound(b)'
  <2>1. StepSound(b) /\ Ordered(t, b) /\ b \in Steplike
    BY <1>3
  <2>2. b.op \notin {"deliver", "mark"} /\ (b.op = "reply" => b.request # q)
    BY <1>3, <1>5, <2>1 DEF Ordered
  <2>3. b.op = "reply" => b.request \in Requests /\ replied'[b.request] = replied[b.request]
    BY <1>8, <2>1, <2>2, StepKinds
  <2> QED BY <1>1, <1>12, <2>1, <2>2, <2>3 DEF StepSound, OfRun
<1>16. StepsSound'
    BY <1>9, <1>15 DEF StepsSound
<1>17. RepliesOwed
    BY DEF RunsInv
<1>18. RepliesOwed'
  <2>1. \A x \in Live' : active'[x] = runs'[x].request
    BY <1>1, <1>12, <1>17 DEF RepliesOwed
  <2>2. \A x \in Runs : active'[x] # 0 =>
             /\ active'[x] <= requests' /\ replied'[active'[x]] = <<>>
             /\ x \notin Live' => Reaped(x) \in Steps'
    <3> TAKE x \in Runs
    <3> HAVE active'[x] # 0
    <3>1. active[x] \in Requests /\ active[x] # q
      <4>1. active[x] \in 0..MaxRequests
        BY <1>3 DEF HostTyped
      <4> QED BY <1>1, <1>7, <4>1 DEF Requests
    <3>2. active[x] <= requests /\ replied[active[x]] = <<>>
      BY <1>1, <1>17 DEF RepliesOwed
    <3>3. x \notin Live => Reaped(x) \in Steps
      BY <1>1, <1>17 DEF RepliesOwed
    <3>4. Reaped(x) # t
      BY <1>3, StepFields
    <3> QED BY <1>1, <1>3, <1>8, <1>9, <1>12, <3>1, <3>2, <3>3, <3>4
  <2>3. \A x, z \in Runs : active'[x] = active'[z] /\ active'[x] # 0 => x = z
    BY <1>1, <1>17 DEF RepliesOwed
  <2>4. \A p \in Requests :
             /\ Len(replied'[p]) <= 1
             /\ p > requests' => replied'[p] = <<>>
             /\ (process' = "up" /\ p <= requests' /\ replied'[p] = <<>>) =>
                    \/ \E x \in Runs : active'[x] = p
                    \/ \E b \in Steps' : b.op = "reply" /\ b.request = p
    <3> TAKE p \in Requests
    <3>1. CASE p = q
      <4>0. PICK v : v = <<s>>
        OBVIOUS
      <4>1. Len(v) = 1 /\ v # <<>>
        BY <4>0
      <4>2. ~(q > requests)
        BY <1>3, <1>7 DEF HostTyped, Requests
      <4>3. Len(replied'[p]) <= 1 /\ replied'[p] # <<>>
        <5>1. replied'[p] = v
          BY <1>8, <3>1, <4>0, Zenon
        <5>2. Len(replied'[p]) = 1 /\ replied'[p] # <<>>
          BY <4>1, <5>1, Zenon
        <5>3. \A k : k = 1 => k <= 1
          OBVIOUS
        <5> QED BY <5>2, <5>3, Zenon
      <4>4. ~(p > requests')
        BY <1>1, <3>1, <4>2
      <4> QED BY <4>3, <4>4, Zenon
    <3>2. CASE p # q
      <4>1. /\ Len(replied[p]) <= 1
            /\ p > requests => replied[p] = <<>>
            /\ (process = "up" /\ p <= requests /\ replied[p] = <<>>) =>
                    \/ \E x \in Runs : active[x] = p
                    \/ \E b \in Steps : b.op = "reply" /\ b.request = p
        BY <1>17 DEF RepliesOwed
      <4>2. \A b \in Steps : b.op = "reply" /\ b.request = p => b \in Steps'
        BY <1>3, <1>5, <1>9, <3>2
      <4> QED BY <1>1, <1>8, <3>2, <4>1, <4>2
    <3> QED BY <3>1, <3>2
  <2> QED BY <2>1, <2>2, <2>3, <2>4, Zenon DEF RepliesOwed, Reaped
<1>19. SameSession'
    BY <1>12 DEF RunsInv, SameSession
<1> QED BY <1>9, <1>10, <1>11, <1>12, <1>13, <1>14, <1>16, <1>18, <1>19 DEF RunsInv, TypeOK

LEMMA SettleReapedSteps ==
    ASSUME RunsInv, SettleReaped, NEW r, r = Head(todo).run
    PROVE  /\ r \in Runs /\ r \notin Live /\ active[r] \in Requests
           /\ HostTyped' /\ ProgramOrdered' /\ Steps = {Reaped(r)} \cup Rest
           /\ Steps' = {Reply(active[r], "failed")} \cup Rest
           /\ \A b \in Rest : /\ b.op \notin {"deliver", "mark"}
                              /\ b.op \notin {"flush", "reply"} => b.run # r
<1>1. At("reaped")
    BY DEF SettleReaped
<1>2. PICK t : t = Head(todo)
    OBVIOUS
<1>3. /\ t \in Steplike /\ t.op = "reaped" /\ StepSound(t) /\ Steps = {t} \cup Rest
      /\ Rest \subseteq Steplike /\ \A b \in Rest : Ordered(t, b) /\ StepSound(b)
      /\ HostTyped /\ ProgramOrdered /\ todo # <<>> /\ t.run = r
    BY <1>1, <1>2, AtFacts
<1>4. r \in Runs /\ t = Reaped(r) /\ r \notin Live /\ active[r] # 0
    BY <1>3, StepKinds DEF StepSound
<1>5. active[r] \in Requests
  <2>1. active[r] \in 0..MaxRequests
    BY <1>3, <1>4 DEF HostTyped
  <2> QED BY <1>4, <2>1 DEF Requests
<1>6. PICK q \in Requests : q = active[r]
    BY <1>5
<1>7. Then(<<Reply(q, "failed")>>)
    BY <1>2, <1>3, <1>4, <1>6 DEF SettleReaped
<1>8. /\ Reply(q, "failed") \in Steplike /\ Reply(q, "failed").op = "reply"
      /\ Reply(q, "failed").request = q
    BY StepFields
<1>9. \A b \in Rest : /\ b.op \notin {"deliver", "mark"}
                      /\ b.op \notin {"flush", "reply"} => b.run # r
    BY <1>3, <1>4, AfterRun
<1>10. \A b \in Rest : Ordered(Reply(q, "failed"), b)
  <2> TAKE b \in Rest
  <2>1. b.op = "reply" => b.request # q
    BY <1>3, <1>4, <1>6 DEF StepSound
  <2> QED BY <1>8, <1>9, <2>1 DEF Ordered
<1>11. todo' \in Seq(Steplike) /\ ProgramOrdered' /\ Steps' = {Reply(q, "failed")} \cup Rest
    BY <1>3, <1>7, <1>8, <1>10, ThenOne
<1>12. HostTyped'
  <2>0. active \in [Runs -> 0..MaxRequests] /\ 0 \in 0..MaxRequests
    BY <1>3, BoundsAreNaturals DEF HostTyped
  <2>1. active' \in [Runs -> 0..MaxRequests]
    BY <2>0 DEF SettleReaped
  <2> QED BY <1>3, <1>11, <2>1 DEF SettleReaped, HostTyped
<1> QED BY <1>3, <1>4, <1>5, <1>6, <1>9, <1>11, <1>12

LEMMA SettleReapedRuns ==
    ASSUME RunsInv, SettleReaped PROVE RunsInv'
<1>1. At("reaped") /\ UNCHANGED <<kernel, wire>> /\ UNCHANGED <<requests, replied, process>>
    BY DEF SettleReaped
<1>2. PICK r : r = Head(todo).run
    OBVIOUS
<1>3. PICK q \in Requests : q = active[r]
    BY <1>2, SettleReapedSteps
<1>4. /\ r \in Runs /\ r \notin Live
      /\ HostTyped' /\ ProgramOrdered' /\ Steps = {Reaped(r)} \cup Rest
      /\ Steps' = {Reply(q, "failed")} \cup Rest
      /\ \A b \in Rest : /\ b.op \notin {"deliver", "mark"}
                         /\ b.op \notin {"flush", "reply"} => b.run # r
    BY <1>2, <1>3, SettleReapedSteps
<1>5. /\ KernelTyped' /\ WireTyped' /\ OpenByAlive' /\ Live' = Live
      /\ runs' = runs /\ batch' = batch /\ emits' = emits
    BY <1>1, OnlyTheProgram
<1>6. /\ Rest \subseteq Steplike /\ \A b \in Rest : StepSound(b)
      /\ process = "up" /\ batch = <<>> /\ emits = <<>>
    BY <1>1, AtFacts DEF Quiet
<1>7. QueueWatched'
    BY <1>5, <1>6 DEF QueueWatched
<1>8. EndedIsOver'
    BY <1>1, <1>6 DEF EndedIsOver
<1>9. /\ active'[r] = 0 /\ \A x \in Runs : x # r => active'[x] = active[x]
      /\ q # 0
    BY <1>2, <1>4 DEF SettleReaped, RunsInv, TypeOK, HostTyped, Requests
<1>10. /\ q <= requests /\ replied[q] = <<>> /\ \A x \in Runs : active'[x] # q
  <2>1. q <= requests /\ replied[q] = <<>> /\ \A x \in Runs : active[x] = active[r] => x = r
    BY <1>3, <1>4, <1>9, Zenon DEF RunsInv, RepliesOwed
  <2> QED BY <1>3, <1>9, <2>1
<1>11. ASSUME NEW t \in Rest PROVE StepSound(t)'
  <2>1. StepSound(t) /\ t.op \notin {"deliver", "mark"} /\ t \in Steplike
    BY <1>4, <1>6
  <2>2. t.op = "reaped" => active'[t.run] # 0
    BY <1>4, <1>9, <2>1, StepKinds DEF StepSound
  <2>3. t.op = "reply" => \A x \in Runs : active'[x] # t.request
    <3> HAVE t.op = "reply"
    <3>1. t.request \in Requests
      BY <2>1, StepKinds
    <3>2. t.request # 0
      BY <3>1 DEF Requests
    <3> QED BY <1>9, <2>1, <3>2 DEF StepSound
  <2> QED BY <1>1, <1>5, <2>1, <2>2, <2>3 DEF StepSound, OfRun
<1>12. \A t : t = Reply(q, "failed") => StepSound(t)'
  <2> TAKE t
  <2> HAVE t = Reply(q, "failed")
  <2>1. t.op = "reply" /\ t.request = q
    BY StepFields
  <2> QED BY <1>1, <1>10, <2>1 DEF StepSound, OfRun
<1>13. StepsSound'
    BY <1>4, <1>11, <1>12, Zenon DEF StepsSound
<1>14. RepliesOwed
    BY DEF RunsInv
<1>15. RepliesOwed'
  <2>1. \A x \in Live' : active'[x] = runs'[x].request
    BY <1>4, <1>5, <1>9, <1>14 DEF RepliesOwed, Live
  <2>2. \A x \in Runs : active'[x] # 0 =>
             /\ active'[x] <= requests' /\ replied'[active'[x]] = <<>>
             /\ x \notin Live' => Reaped(x) \in Steps'
    <3> TAKE x \in Runs
    <3> HAVE active'[x] # 0
    <3>1. x # r /\ active'[x] = active[x]
      BY <1>9
    <3>2. active[x] <= requests /\ replied[active[x]] = <<>>
      BY <1>14, <3>1 DEF RepliesOwed
    <3>3. x \notin Live' => Reaped(x) \in Steps
      BY <1>5, <1>14, <3>1 DEF RepliesOwed
    <3>4. Reaped(x) # Reaped(r)
      BY <1>4, <3>1, StepFields
    <3> QED BY <1>1, <1>4, <3>1, <3>2, <3>3, <3>4
  <2>3. \A x, z \in Runs : active'[x] = active'[z] /\ active'[x] # 0 => x = z
    BY <1>9, <1>14 DEF RepliesOwed
  <2>4. \A p \in Requests :
             /\ Len(replied'[p]) <= 1
             /\ p > requests' => replied'[p] = <<>>
             /\ (process' = "up" /\ p <= requests' /\ replied'[p] = <<>>) =>
                    \/ \E x \in Runs : active'[x] = p
                    \/ \E t \in Steps' : t.op = "reply" /\ t.request = p
    <3> TAKE p \in Requests
    <3>1. Len(replied'[p]) <= 1 /\ (p > requests' => replied'[p] = <<>>)
      BY <1>1, <1>14 DEF RepliesOwed
    <3>2. ASSUME process' = "up", p <= requests', replied'[p] = <<>>
          PROVE  \/ \E x \in Runs : active'[x] = p
                 \/ \E t \in Steps' : t.op = "reply" /\ t.request = p
      <4>1. \/ \E x \in Runs : active[x] = p
            \/ \E t \in Steps : t.op = "reply" /\ t.request = p
        BY <1>1, <1>6, <1>14, <3>2 DEF RepliesOwed
      <4>2. CASE \E t \in Steps : t.op = "reply" /\ t.request = p
        <5>1. Reaped(r).op = "reaped"
          BY <1>4, StepFields
        <5> QED BY <1>4, <4>2, <5>1
      <4>3. CASE \E x \in Runs : active[x] = p
        <5>1. PICK x \in Runs : active[x] = p
          BY <4>3
        <5>2. CASE x = r
          <6>1. Reply(q, "failed").op = "reply" /\ Reply(q, "failed").request = q /\ p = q
            BY <1>3, <5>1, <5>2, StepFields
          <6> QED BY <1>4, <6>1
        <5>3. CASE x # r
          BY <1>9, <5>1, <5>3
        <5> QED BY <5>2, <5>3
      <4> QED BY <4>1, <4>2, <4>3
    <3> QED BY <3>1, <3>2
  <2> QED BY <2>1, <2>2, <2>3, <2>4, Zenon DEF RepliesOwed, Reaped
<1>16. SameSession'
    BY <1>5 DEF RunsInv, SameSession
<1> QED BY <1>4, <1>5, <1>7, <1>8, <1>13, <1>15, <1>16 DEF RunsInv, TypeOK

-----------------------------------------------------------------------------
(* Requests. *)
LEMMA NextRequest ==
    ASSUME RunsInv, Idle, requests < MaxRequests, requests' = requests + 1
    PROVE  /\ requests' \in Requests /\ requests' \in 0..MaxRequests /\ requests' # 0
           /\ replied[requests'] = <<>> /\ \A x \in Runs : active[x] # requests'
           /\ \A x \in Runs : active[x] # 0 => active[x] <= requests'
           /\ \A q \in Requests : q > requests' => q > requests /\ q # requests'
           /\ \A q \in Requests : q <= requests' => q <= requests \/ q = requests'
<1>1. requests \in 0..MaxRequests /\ MaxRequests \in Nat
    BY BoundsAreNaturals DEF RunsInv, TypeOK, HostTyped
<1>2. requests' \in Requests /\ requests' > requests /\ requests' # 0 /\ requests' \in 0..MaxRequests
    BY <1>1 DEF Requests
<1>3. replied[requests'] = <<>>
    BY <1>2 DEF RunsInv, RepliesOwed
<1>4. ASSUME NEW x \in Runs
      PROVE  active[x] # requests' /\ (active[x] # 0 => active[x] <= requests')
  <2>1. active[x] \in 0..MaxRequests
    BY DEF RunsInv, TypeOK, HostTyped
  <2>2. active[x] # 0 => active[x] <= requests
    BY DEF RunsInv, RepliesOwed
  <2> QED BY <1>1, <1>2, <2>1, <2>2
<1>5. \A q \in Requests : /\ q > requests' => q > requests /\ q # requests'
                          /\ q <= requests' => q <= requests \/ q = requests'
    BY <1>1, <1>2 DEF Requests
<1> QED BY <1>2, <1>3, <1>4, <1>5

LEMMA RejectExecuteRuns ==
    ASSUME RunsInv, RejectExecute PROVE RunsInv'
<1>1. /\ Idle /\ requests < MaxRequests /\ requests' = requests + 1
      /\ UNCHANGED <<kernel, wire>> /\ UNCHANGED <<active, todo, process>>
      /\ replied' = [replied EXCEPT ![requests'] = <<"rejected">>]
    BY DEF RejectExecute
<1>2. PICK n : n = requests'
    OBVIOUS
<1>3. /\ n \in Requests /\ n \in 0..MaxRequests /\ n # 0 /\ requests' = n
      /\ replied[n] = <<>> /\ \A x \in Runs : active[x] # n
      /\ \A x \in Runs : active[x] # 0 => active[x] <= n
      /\ \A q \in Requests : q > n => q > requests /\ q # n
      /\ \A q \in Requests : q <= n => q <= requests \/ q = n
    BY <1>1, <1>2, NextRequest
<1>4. process = "up" /\ Steps = {} /\ batch = <<>> /\ emits = <<>>
      /\ \A r \in Runs : active[r] # 0 <=> r \in Live
    BY <1>1, IdleFacts
<1>5. PICK v : v = <<"rejected">>
    OBVIOUS
<1>6. v \in Seq(Statuses) /\ Len(v) = 1 /\ v # <<>>
  <2>1. "rejected" \in Statuses
    BY DEF Statuses
  <2> QED BY <1>5, <2>1
<1>7. /\ replied' \in [Requests -> Seq(Statuses)] /\ replied'[n] = v
      /\ \A p \in Requests : p # n => replied'[p] = replied[p]
  <2>1. replied' = [replied EXCEPT ![n] = v] /\ replied \in [Requests -> Seq(Statuses)]
    BY <1>1, <1>2, <1>5 DEF RunsInv, TypeOK, HostTyped
  <2> QED BY <1>3, <1>6, <2>1
<1>8. /\ KernelTyped' /\ WireTyped' /\ OpenByAlive' /\ Live' = Live
      /\ runs' = runs /\ batch' = batch /\ emits' = emits
    BY <1>1, OnlyTheProgram
<1>9. Steps' = {} /\ HostTyped' /\ ProgramOrdered'
    BY <1>1, <1>3, <1>4, <1>7 DEF RunsInv, TypeOK, HostTyped, ProgramOrdered, Steps
<1>10. QueueWatched'
    BY <1>4, <1>8 DEF QueueWatched
<1>11. EndedIsOver'
    BY <1>1, <1>4 DEF EndedIsOver
<1>12. StepsSound'
    BY <1>9 DEF StepsSound
<1>13. RepliesOwed
    BY DEF RunsInv
<1>14. RepliesOwed'
  <2>1. \A x \in Live' : active'[x] = runs'[x].request
    BY <1>1, <1>8, <1>13 DEF RepliesOwed
  <2>2. \A x \in Runs : active'[x] # 0 =>
             /\ active'[x] <= requests' /\ replied'[active'[x]] = <<>>
             /\ x \notin Live' => Reaped(x) \in Steps'
    <3> TAKE x \in Runs
    <3> HAVE active'[x] # 0
    <3>1. active[x] # n /\ active[x] # 0 /\ active[x] <= n
      BY <1>1, <1>3
    <3>2. active[x] \in Requests
      <4>1. active[x] \in 0..MaxRequests
        BY DEF RunsInv, TypeOK, HostTyped
      <4> QED BY <3>1, <4>1 DEF Requests
    <3>3. replied[active[x]] = <<>> /\ x \in Live
      BY <1>4, <1>13, <3>1 DEF RepliesOwed
    <3> QED BY <1>1, <1>3, <1>7, <1>8, <3>1, <3>2, <3>3
  <2>3. \A x, z \in Runs : active'[x] = active'[z] /\ active'[x] # 0 => x = z
    BY <1>1, <1>13 DEF RepliesOwed
  <2>4. \A p \in Requests :
             /\ Len(replied'[p]) <= 1
             /\ p > requests' => replied'[p] = <<>>
             /\ (process' = "up" /\ p <= requests' /\ replied'[p] = <<>>) =>
                    \/ \E x \in Runs : active'[x] = p
                    \/ \E b \in Steps' : b.op = "reply" /\ b.request = p
    <3> TAKE p \in Requests
    <3>1. CASE p = n
      <4>1. \A k : k = 1 => k <= 1
        OBVIOUS
      <4>2. Len(replied'[p]) <= 1 /\ replied'[p] # <<>>
        BY <1>6, <1>7, <3>1, <4>1, Zenon
      <4>3. ~(p > requests')
        BY <1>3, <3>1
      <4> QED BY <4>2, <4>3, Zenon
    <3>2. CASE p # n
      <4>1. /\ Len(replied[p]) <= 1
            /\ p > requests => replied[p] = <<>>
            /\ (p <= requests /\ replied[p] = <<>>) => \E x \in Runs : active[x] = p
        BY <1>4, <1>13 DEF RepliesOwed
      <4>2. replied'[p] = replied[p]
        BY <1>7, <3>2
      <4> QED BY <1>1, <1>3, <3>2, <4>1, <4>2
    <3> QED BY <3>1, <3>2
  <2> QED BY <2>1, <2>2, <2>3, <2>4, Zenon DEF RepliesOwed, Reaped
<1>15. SameSession'
    BY <1>8 DEF RunsInv, SameSession
<1> QED BY <1>8, <1>9, <1>10, <1>11, <1>12, <1>14, <1>15 DEF RunsInv, TypeOK

LEMMA ExecuteDuplicateRuns ==
    ASSUME RunsInv, NEW r \in Runs, ExecuteDuplicate(r) PROVE RunsInv'
<1>1. /\ Idle /\ requests < MaxRequests /\ requests' = requests + 1
      /\ UNCHANGED <<kernel, wire>> /\ UNCHANGED <<active, replied, process>>
    BY DEF ExecuteDuplicate
<1>2. PICK n : n = requests'
    OBVIOUS
<1>3. /\ n \in Requests /\ n \in 0..MaxRequests /\ n # 0 /\ requests' = n
      /\ replied[n] = <<>> /\ \A x \in Runs : active[x] # n
      /\ \A x \in Runs : active[x] # 0 => active[x] <= n
      /\ \A q \in Requests : q > n => q > requests /\ q # n
      /\ \A q \in Requests : q <= n => q <= requests \/ q = n
    BY <1>1, <1>2, NextRequest
<1>4. process = "up" /\ Steps = {} /\ batch = <<>> /\ emits = <<>>
      /\ \A x \in Runs : active[x] # 0 <=> x \in Live
    BY <1>1, IdleFacts
<1>5. PICK t : t = Reply(n, "failed")
    OBVIOUS
<1>6. t \in Steplike /\ t.op = "reply" /\ t.request = n
    BY <1>3, <1>5, StepFields
<1>7. todo' = <<t>>
    BY <1>2, <1>5 DEF ExecuteDuplicate
<1>8. todo' \in Seq(Steplike) /\ ProgramOrdered' /\ Steps' = {t}
    BY <1>6, <1>7, ProgramOfOne
<1>9. /\ KernelTyped' /\ WireTyped' /\ OpenByAlive' /\ Live' = Live
      /\ runs' = runs /\ batch' = batch /\ emits' = emits
    BY <1>1, OnlyTheProgram
<1>10. HostTyped'
    BY <1>1, <1>3, <1>8 DEF RunsInv, TypeOK, HostTyped
<1>11. QueueWatched'
    BY <1>4, <1>9 DEF QueueWatched
<1>12. EndedIsOver'
    BY <1>1, <1>4 DEF EndedIsOver
<1>13. StepsSound'
  <2>1. n <= n
    BY <1>3 DEF Requests
  <2>2. StepSound(t)'
    BY <1>1, <1>3, <1>6, <2>1 DEF StepSound, OfRun
  <2> QED BY <1>8, <2>2 DEF StepsSound
<1>14. RepliesOwed
    BY DEF RunsInv
<1>15. RepliesOwed'
  <2>1. \A x \in Live' : active'[x] = runs'[x].request
    BY <1>1, <1>9, <1>14 DEF RepliesOwed
  <2>2. \A x \in Runs : active'[x] # 0 =>
             /\ active'[x] <= requests' /\ replied'[active'[x]] = <<>>
             /\ x \notin Live' => Reaped(x) \in Steps'
    BY <1>1, <1>3, <1>4, <1>9, <1>14 DEF RepliesOwed
  <2>3. \A x, z \in Runs : active'[x] = active'[z] /\ active'[x] # 0 => x = z
    BY <1>1, <1>14 DEF RepliesOwed
  <2>4. \A p \in Requests :
             /\ Len(replied'[p]) <= 1
             /\ p > requests' => replied'[p] = <<>>
             /\ (process' = "up" /\ p <= requests' /\ replied'[p] = <<>>) =>
                    \/ \E x \in Runs : active'[x] = p
                    \/ \E b \in Steps' : b.op = "reply" /\ b.request = p
    <3> TAKE p \in Requests
    <3>1. /\ Len(replied[p]) <= 1
          /\ p > requests => replied[p] = <<>>
          /\ (p <= requests /\ replied[p] = <<>>) => \E x \in Runs : active[x] = p
      BY <1>4, <1>14 DEF RepliesOwed
    <3>2. p > n => p > requests
      BY <1>3
    <3>3. p <= n => p <= requests \/ p = n
      BY <1>3
    <3>4. p = n => \E b \in Steps' : b.op = "reply" /\ b.request = p
      BY <1>6, <1>8
    <3> QED BY <1>1, <1>3, <3>1, <3>2, <3>3, <3>4
  <2> QED BY <2>1, <2>2, <2>3, <2>4, Zenon DEF RepliesOwed, Reaped
<1>16. SameSession'
    BY <1>9 DEF RunsInv, SameSession
<1> QED BY <1>8, <1>9, <1>10, <1>11, <1>12, <1>13, <1>15, <1>16 DEF RunsInv, TypeOK

LEMMA ReapedProgram ==
    ASSUME NEW rs \in SUBSET Runs, NEW order \in SetToSeqs(rs), NEW p, p = Each(Reaped, order)
    PROVE  /\ p \in Seq(Steplike) /\ Pairwise(OrderedRel, p)
           /\ \A t \in ToSet(p) : t \in Steplike /\ \E x \in rs : t = Reaped(x)
           /\ \A x \in rs : Reaped(x) \in ToSet(p)
           /\ order = <<>> <=> rs = {}
<1>1. IsFiniteSet(rs)
    BY BoundsAreNaturals, FS_Subset
<1>2. /\ order \in Seq(rs) /\ ToSet(order) = rs
      /\ \A i, j \in 1..Len(order) : i # j => order[i] # order[j]
    BY <1>1, OrderOfSet
<1>3. DOMAIN order = 1..Len(order) /\ Len(order) \in Nat /\ \A i \in 1..Len(order) : order[i] \in rs
    BY <1>2, LenProperties, ElementOfSeq
<1>4. \A x \in rs : Reaped(x) \in Steplike /\ Reaped(x).op = "reaped" /\ Reaped(x).run = x
    BY StepFields
<1>5. p = [i \in 1..Len(order) |-> Reaped(order[i])]
    BY <1>3 DEF Each
<1>6. p \in [1..Len(order) -> Steplike] /\ \A i \in 1..Len(order) : p[i] = Reaped(order[i])
    BY <1>3, <1>4, <1>5
<1>7. p \in Seq(Steplike) /\ Len(p) = Len(order)
    BY <1>3, <1>6
<1>8. \A j, k \in 1..Len(p) : j < k => <<p[j], p[k]>> \in OrderedRel
  <2> TAKE j, k \in 1..Len(p)
  <2> HAVE j < k
  <2>1. j # k /\ j \in 1..Len(order) /\ k \in 1..Len(order)
    BY <1>7
  <2>2. order[j] # order[k] /\ order[j] \in rs /\ order[k] \in rs
    BY <1>2, <1>3, <2>1
  <2>3. Ordered(Reaped(order[j]), Reaped(order[k]))
    BY <1>4, <2>2 DEF Ordered
  <2>4. <<Reaped(order[j]), Reaped(order[k])>> \in OrderedRel
    BY <1>4, <2>2, <2>3, OrderedPair
  <2> QED BY <1>6, <2>1, <2>4
<1>9. ToSet(p) = {p[i] : i \in 1..Len(order)} /\ rs = {order[i] : i \in 1..Len(order)}
    BY <1>2, <1>7, ToSetByIndex
<1>10. \A t \in ToSet(p) : t \in Steplike /\ \E x \in rs : t = Reaped(x)
  <2> TAKE t \in ToSet(p)
  <2>1. PICK i \in 1..Len(order) : t = p[i]
    BY <1>9
  <2>2. t = Reaped(order[i]) /\ order[i] \in rs
    BY <1>3, <1>6, <2>1
  <2> QED BY <1>4, <2>2
<1>11. \A x \in rs : Reaped(x) \in ToSet(p)
    BY <1>6, <1>9
<1>12. order = <<>> <=> rs = {}
    BY <1>2, ToSetByIndex
<1> QED BY <1>7, <1>8, <1>10, <1>11, <1>12 DEF Pairwise

LEMMA ExecuteSteps ==
    ASSUME NEW rs \in SUBSET Runs, NEW order \in SetToSeqs(rs), NEW r \in Runs \ rs,
           todo' = (IF order = <<>> THEN <<>> ELSE <<Flush>> \o Each(Reaped, order)) \o <<Start(r)>>
    PROVE  /\ todo' \in Seq(Steplike) /\ ProgramOrdered' /\ todo' # <<>>
           /\ Head(todo').op \notin Quiet
           /\ Start(r) \in Steps' /\ \A x \in rs : Reaped(x) \in Steps'
           /\ \A t \in Steps' : t = Flush \/ t = Start(r) \/ \E x \in rs : t = Reaped(x)
<1>0. PICK p : p = Each(Reaped, order)
    OBVIOUS
<1>1. /\ p \in Seq(Steplike) /\ Pairwise(OrderedRel, p)
      /\ \A t \in ToSet(p) : t \in Steplike /\ \E x \in rs : t = Reaped(x)
      /\ \A x \in rs : Reaped(x) \in ToSet(p)
      /\ order = <<>> <=> rs = {}
    BY <1>0, ReapedProgram
<1>2. /\ Flush \in Steplike /\ Flush.op = "flush"
      /\ Start(r) \in Steplike /\ Start(r).op = "start" /\ Start(r).run = r
    BY StepFields
<1>3. \A x \in rs : Reaped(x).op = "reaped" /\ Reaped(x).run = x
    BY StepFields
<1>4. CASE rs = {}
  <2>1. todo' = <<>> \o <<Start(r)>>
    BY <1>1, <1>4
  <2>2. todo' = <<Start(r)>>
    <3>1. <<Start(r)>> \in Seq(Steplike)
      BY <1>2
    <3> QED BY <2>1, <3>1, ConcatEmptySeq
  <2>3. /\ todo' \in Seq(Steplike) /\ ProgramOrdered' /\ Steps' = {Start(r)}
        /\ todo' # <<>> /\ Head(todo') = Start(r)
    BY <1>2, <2>2, ProgramOfOne
  <2> QED BY <1>2, <1>4, <2>3 DEF Quiet
<1>5. CASE rs # {}
  <2>1. PICK one : one = <<Flush>>
    OBVIOUS
  <2>2. one \in Seq(Steplike) /\ ToSet(one) = {Flush} /\ Pairwise(OrderedRel, one)
    <3>1. <<Flush>> \in Seq(Steplike)
      BY <1>2
    <3> QED BY <2>1, <3>1, ToSetSmall, PairwiseSmall
  <2>3. PICK st : st = <<Start(r)>>
    OBVIOUS
  <2>4. st \in Seq(Steplike) /\ ToSet(st) = {Start(r)} /\ Pairwise(OrderedRel, st)
    <3>1. <<Start(r)>> \in Seq(Steplike)
      BY <1>2
    <3> QED BY <2>3, <3>1, ToSetSmall, PairwiseSmall
  <2>5. PICK b : b = one \o p
    OBVIOUS
  <2>6. todo' = b \o st
    BY <1>0, <1>1, <1>5, <2>1, <2>3, <2>5
  <2>7. b \in Seq(Steplike) /\ ToSet(b) = {Flush} \cup ToSet(p)
    BY <1>1, <2>2, <2>5, ToSetConcat
  <2>8. \A t \in ToSet(p) : <<Flush, t>> \in OrderedRel /\ <<t, Start(r)>> \in OrderedRel
    <3> TAKE t \in ToSet(p)
    <3>1. PICK x \in rs : t = Reaped(x)
      BY <1>1
    <3>2. t.op = "reaped" /\ t.run = x /\ x # r /\ t \in Steplike
      BY <1>1, <1>3, <3>1
    <3>3. Ordered(Flush, t) /\ Ordered(t, Start(r))
      BY <1>2, <3>2 DEF Ordered
    <3> QED BY <1>2, <3>2, <3>3, OrderedPair
  <2>9. <<Flush, Start(r)>> \in OrderedRel
    BY <1>2, OrderedPair DEF Ordered
  <2>10. Pairwise(OrderedRel, b)
    BY <1>1, <2>2, <2>5, <2>8, PairwiseConcat
  <2>11. Pairwise(OrderedRel, b \o st)
    <3>1. \A t \in ToSet(b), u \in ToSet(st) : <<t, u>> \in OrderedRel
      BY <2>4, <2>7, <2>8, <2>9
    <3> QED BY <2>4, <2>7, <2>10, <3>1, PairwiseConcat
  <2>12. todo' \in Seq(Steplike) /\ Steps' = {Flush} \cup ToSet(p) \cup {Start(r)}
    <3>1. b \o st \in Seq(Steplike) /\ ToSet(b \o st) = ToSet(b) \cup ToSet(st)
      BY <2>4, <2>7, ToSetConcat
    <3> QED BY <2>4, <2>6, <2>7, <3>1 DEF Steps
  <2>13. ProgramOrdered'
    BY <2>6, <2>11, <2>12, NewProgram
  <2>14. todo' # <<>> /\ Head(todo') = Flush
    <3>1. /\ one \o p \in Seq(Steplike) /\ Len(b) = Len(one) + Len(p) /\ b[1] = Flush /\ Len(b) >= 1
      BY <1>1, <2>1, <2>2, <2>5
    <3>2. Len(todo') >= 1 /\ todo'[1] = b[1]
      BY <2>4, <2>6, <2>7, <3>1, ConcatProperties
    <3> QED BY <2>12, <3>1, <3>2
  <2> QED BY <1>1, <1>2, <2>12, <2>13, <2>14 DEF Quiet
<1> QED BY <1>4, <1>5

LEMMA ExecuteShape ==
    ASSUME RunsInv, NEW r \in Runs, NEW s \in Sessions, Execute(r, s), NEW n, n = requests'
    PROVE  /\ KernelTyped' /\ OpenByAlive' /\ Live' = (Live \ Stale(s)) \cup {r}
           /\ Stale(s) \subseteq Live /\ r \notin Live /\ caps' = caps
           /\ runs'[r] = Context(s, n) /\ \A x \in Live \ Stale(s) : runs'[x] = runs[x]
           /\ \E em : Torn(Stale(s), em) /\ emits' = emits \o em \o <<Event(r)>>
           /\ todo' \in Seq(Steplike) /\ ProgramOrdered' /\ todo' # <<>>
           /\ Head(todo').op \notin Quiet
           /\ Start(r) \in Steps' /\ \A x \in Stale(s) : Reaped(x) \in Steps'
           /\ \A t \in Steps' : t = Flush \/ t = Start(r) \/ \E x \in Stale(s) : t = Reaped(x)
<1>0. KernelTyped /\ OpenByAlive /\ runs \in [Runs -> Contexts \cup {NoRun}] /\ emits \in Seq(Emissions)
    BY DEF RunsInv, TypeOK, KernelTyped
<1>1. PICK rs : rs = Stale(s)
    OBVIOUS
<1>2. rs \subseteq Live /\ rs \in SUBSET Live /\ rs \subseteq Runs
    BY <1>1 DEF Stale, Live
<1>3. /\ r \notin Live /\ caps' = caps /\ Idle /\ requests < MaxRequests /\ requests' = requests + 1
      /\ runs' = [x \in Runs |-> CASE x = r -> Context(s, n)
                                   [] x \in rs -> NoRun
                                   [] OTHER -> runs[x]]
    BY <1>1 DEF Execute
<1>4. PICK order \in SetToSeqs(rs) :
          /\ emits' = emits \o FlattenSeq(Each(TeardownOf, order)) \o <<Event(r)>>
          /\ todo' = (IF order = <<>> THEN <<>> ELSE <<Flush>> \o Each(Reaped, order)) \o <<Start(r)>>
    BY <1>1 DEF Execute
<1>5. PICK em : em = FlattenSeq(Each(TeardownOf, order))
    OBVIOUS
<1>6. Torn(rs, em) /\ emits' = emits \o em \o <<Event(r)>>
    BY <1>0, <1>2, <1>4, <1>5, TeardownsShape
<1>7. n \in Requests
    BY <1>3, NextRequest
<1>8. PICK x0 : x0 = Context(s, n)
    OBVIOUS
<1>9. x0 \in Contexts /\ x0.open = {} /\ x0.alive = {} /\ x0.dead = {}
    BY <1>7, <1>8 DEF Context, Contexts
<1>10. /\ runs'[r] = x0 /\ \A x \in rs : runs'[x] = NoRun
       /\ \A x \in Runs \ rs : x # r => runs'[x] = runs[x]
       /\ runs' \in [Runs -> Contexts \cup {NoRun}]
  <2>1. r \notin rs
    BY <1>2, <1>3
  <2>2. runs' = [x \in Runs |-> runs'[x]]
    BY <1>3
  <2>3. \A x \in Runs : runs'[x] = CASE x = r -> x0 [] x \in rs -> NoRun [] OTHER -> runs[x]
    BY <1>3, <1>8
  <2>4. /\ runs'[r] = x0 /\ \A x \in rs : runs'[x] = NoRun
        /\ \A x \in Runs \ rs : x # r => runs'[x] = runs[x]
    BY <1>2, <2>1, <2>3
  <2>5. \A x \in Runs : runs'[x] \in Contexts \cup {NoRun}
    BY <1>0, <1>9, <2>4
  <2>6. runs' \in [Runs -> Contexts \cup {NoRun}]
    BY <2>2, <2>5
  <2> QED BY <2>4, <2>6
<1>11. x0 # NoRun
    BY <1>9, ContextNotNone
<1>12. Live' = (Live \ rs) \cup {r} /\ \A x \in Live \ rs : runs'[x] = runs[x]
    BY <1>3, <1>10, <1>11 DEF Live
<1>13. emits' \in Seq(Emissions)
  <2>1. PICK one : one = <<Event(r)>>
    OBVIOUS
  <2>2. one \in Seq(Emissions)
    BY <2>1, EventShape
  <2>3. emits \o em \in Seq(Emissions)
    BY <1>0, <1>6, ConcatProperties DEF Torn
  <2>4. PICK ee : ee = emits \o em
    OBVIOUS
  <2>5. emits' = ee \o one /\ ee \in Seq(Emissions)
    BY <1>6, <2>1, <2>3, <2>4
  <2> QED BY <2>2, <2>5, ConcatProperties
<1>14. KernelTyped'
    BY <1>0, <1>3, <1>10, <1>13 DEF KernelTyped
<1>15. OpenByAlive'
    BY <1>0, <1>3, <1>9, <1>10, <1>12 DEF OpenByAlive
<1>16. /\ todo' \in Seq(Steplike) /\ ProgramOrdered' /\ todo' # <<>>
       /\ Head(todo').op \notin Quiet
       /\ Start(r) \in Steps' /\ \A x \in rs : Reaped(x) \in Steps'
       /\ \A t \in Steps' : t = Flush \/ t = Start(r) \/ \E x \in rs : t = Reaped(x)
  <2>1. r \in Runs \ rs /\ rs \in SUBSET Runs
    BY <1>2, <1>3
  <2> QED BY <1>4, <2>1, ExecuteSteps
<1> QED BY <1>1, <1>2, <1>3, <1>6, <1>8, <1>10, <1>12, <1>14, <1>15, <1>16

LEMMA ExecuteRuns ==
    ASSUME RunsInv, NEW r \in Runs, NEW s \in Sessions, Execute(r, s) PROVE RunsInv'
<1>1. /\ Idle /\ requests < MaxRequests /\ requests' = requests + 1
      /\ UNCHANGED wire /\ UNCHANGED <<replied, process>>
      /\ active' = [active EXCEPT ![r] = requests']
    BY DEF Execute
<1>2. PICK n : n = requests'
    OBVIOUS
<1>3. /\ n \in Requests /\ n \in 0..MaxRequests /\ n # 0 /\ requests' = n
      /\ replied[n] = <<>> /\ \A x \in Runs : active[x] # n
      /\ \A x \in Runs : active[x] # 0 => active[x] <= n
      /\ \A q \in Requests : q > n => q > requests /\ q # n
      /\ \A q \in Requests : q <= n => q <= requests \/ q = n
    BY <1>1, <1>2, NextRequest
<1>4. process = "up" /\ Steps = {} /\ batch = <<>> /\ emits = <<>>
      /\ \A x \in Runs : active[x] # 0 <=> x \in Live
    BY <1>1, IdleFacts
<1>5. PICK rs : rs = Stale(s)
    OBVIOUS
<1>6. /\ KernelTyped' /\ OpenByAlive' /\ Live' = (Live \ rs) \cup {r}
      /\ rs \subseteq Live /\ r \notin Live
      /\ runs'[r] = Context(s, n) /\ \A x \in Live \ rs : runs'[x] = runs[x]
      /\ todo' \in Seq(Steplike) /\ ProgramOrdered' /\ todo' # <<>>
      /\ Head(todo').op \notin Quiet
      /\ Start(r) \in Steps' /\ \A x \in rs : Reaped(x) \in Steps'
      /\ \A t \in Steps' : t = Flush \/ t = Start(r) \/ \E x \in rs : t = Reaped(x)
    BY <1>2, <1>5, ExecuteShape
<1>7. /\ active'[r] = n /\ \A x \in Runs : x # r => active'[x] = active[x]
      /\ active' \in [Runs -> 0..MaxRequests]
  <2>1. active \in [Runs -> 0..MaxRequests] /\ active' = [active EXCEPT ![r] = n]
    BY <1>1, <1>2 DEF RunsInv, TypeOK, HostTyped
  <2> QED BY <1>3, <2>1
<1>8. HostTyped'
    BY <1>1, <1>3, <1>6, <1>7 DEF RunsInv, TypeOK, HostTyped
<1>9. WireTyped' /\ batch' = batch
    BY <1>1, SameWire
<1>10. QueueWatched'
    BY <1>4, <1>6, <1>9 DEF QueueWatched, Quiet
<1>11. EndedIsOver'
    BY <1>1, <1>4 DEF EndedIsOver
<1>12. PICK x0 : x0 = Context(s, n)
    OBVIOUS
<1>13. /\ x0.open = {} /\ x0.alive = {} /\ x0.dead = {} /\ x0.request = n /\ x0.session = s
    BY <1>12 DEF Context
<1>14. runs'[r] = x0
    BY <1>6, <1>12
<1>15. StepsSound'
  <2>1. ASSUME NEW t \in Steps' PROVE StepSound(t)'
    <3>1. CASE t = Flush
      <4>1. t.op = "flush"
        BY <3>1, StepFields
      <4> QED BY <4>1 DEF StepSound, OfRun
    <3>2. CASE t = Start(r)
      <4>1. t.op = "start" /\ t.run = r
        BY <3>2, StepFields
      <4> QED BY <1>6, <1>13, <1>14, <4>1 DEF StepSound, OfRun
    <3>3. CASE \E x \in rs : t = Reaped(x)
      <4>1. PICK x \in rs : t = Reaped(x)
        BY <3>3
      <4>2. x \in Runs /\ x \in Live /\ x # r
        BY <1>6 DEF Live
      <4>3. t.op = "reaped" /\ t.run = x
        BY <4>1, <4>2, StepFields
      <4>4. x \notin Live' /\ active'[x] # 0
        BY <1>4, <1>6, <1>7, <4>2
      <4> QED BY <4>3, <4>4 DEF StepSound, OfRun
    <3> QED BY <1>6, <2>1, <3>1, <3>2, <3>3
  <2> QED BY <2>1 DEF StepsSound
<1>16. RepliesOwed
    BY DEF RunsInv
<1>17. RepliesOwed'
  <2>1. \A x \in Live' : active'[x] = runs'[x].request
    <3> TAKE x \in Live'
    <3>1. CASE x = r
      BY <1>7, <1>13, <1>14, <3>1
    <3>2. CASE x # r
      <4>1. x \in Live /\ x \in Runs /\ runs'[x] = runs[x]
        BY <1>6, <3>2 DEF Live
      <4> QED BY <1>7, <1>16, <3>2, <4>1 DEF RepliesOwed
    <3> QED BY <3>1, <3>2
  <2>2. \A x \in Runs : active'[x] # 0 =>
             /\ active'[x] <= requests' /\ replied'[active'[x]] = <<>>
             /\ x \notin Live' => Reaped(x) \in Steps'
    <3> TAKE x \in Runs
    <3> HAVE active'[x] # 0
    <3>1. CASE x = r
      <4>1. n <= n
        BY <1>3 DEF Requests
      <4> QED BY <1>1, <1>3, <1>6, <1>7, <3>1, <4>1
    <3>2. CASE x # r
      <4>1. active'[x] = active[x] /\ active[x] # 0 /\ active[x] <= n /\ x \in Live
        BY <1>3, <1>4, <1>7, <3>2
      <4>2. replied[active[x]] = <<>>
        BY <1>16, <4>1 DEF RepliesOwed
      <4> QED BY <1>1, <1>3, <1>6, <4>1, <4>2
    <3> QED BY <3>1, <3>2
  <2>3. \A x, z \in Runs : active'[x] = active'[z] /\ active'[x] # 0 => x = z
    BY <1>3, <1>7, <1>16 DEF RepliesOwed
  <2>4. \A p \in Requests :
             /\ Len(replied'[p]) <= 1
             /\ p > requests' => replied'[p] = <<>>
             /\ (process' = "up" /\ p <= requests' /\ replied'[p] = <<>>) =>
                    \/ \E x \in Runs : active'[x] = p
                    \/ \E b \in Steps' : b.op = "reply" /\ b.request = p
    <3> TAKE p \in Requests
    <3>1. /\ Len(replied[p]) <= 1
          /\ p > requests => replied[p] = <<>>
          /\ (p <= requests /\ replied[p] = <<>>) => \E x \in Runs : active[x] = p
      BY <1>4, <1>16 DEF RepliesOwed
    <3>2. p > n => p > requests
      BY <1>3
    <3>3. p <= n => p <= requests \/ p = n
      BY <1>3
    <3>4. p = n => \E x \in Runs : active'[x] = p
      BY <1>7
    <3>5. (\E x \in Runs : active[x] = p) => \E x \in Runs : active'[x] = p
      <4> HAVE \E x \in Runs : active[x] = p
      <4>1. PICK x \in Runs : active[x] = p
        OBVIOUS
      <4>2. p # 0
        BY DEF Requests
      <4>3. x # r
        BY <1>4, <1>6, <4>1, <4>2
      <4> QED BY <1>7, <4>1, <4>3
    <3> QED BY <1>1, <1>3, <3>1, <3>2, <3>3, <3>4, <3>5
  <2> QED BY <2>1, <2>2, <2>3, <2>4, Zenon DEF RepliesOwed, Reaped
<1>18. SameSession'
  <2>1. \A x \in Live' : runs'[x].session = s
    <3> TAKE x \in Live'
    <3>1. CASE x = r
      BY <1>13, <1>14, <3>1
    <3>2. CASE x # r
      <4>1. x \in Live \ rs
        BY <1>6, <3>2
      <4> QED BY <1>5, <1>6, <4>1 DEF Stale
    <3> QED BY <3>1, <3>2
  <2> QED BY <2>1 DEF SameSession
<1> QED BY <1>6, <1>8, <1>9, <1>10, <1>11, <1>15, <1>17, <1>18 DEF RunsInv, TypeOK

-----------------------------------------------------------------------------
LEMMA InitRuns ==
    Init => RunsInv
<1> SUFFICES ASSUME Init PROVE RunsInv
    OBVIOUS
<1>1. Live = {}
    BY DEF Init, Live
<1>2. /\ todo = <<>> /\ emits = <<>> /\ batch = <<>> /\ caps = <<>> /\ Steps = {}
      /\ requests = 0 /\ process = "up"
    BY ToSetSmall DEF Init, Steps
<1>3. KernelTyped
  <2>1. runs \in [Runs -> Contexts \cup {NoRun}]
    BY DEF Init
  <2>2. <<>> \in Seq(Capabilities) /\ <<>> \in Seq(Emissions) /\ Len(<<>>) = 0
    BY EmptySeq
  <2> QED BY <1>2, <2>1, <2>2, BoundsAreNaturals DEF KernelTyped
<1>4. WireTyped
    BY <1>2, BoundsAreNaturals, EmptySeq DEF Init, WireTyped
<1>5. replied \in [Requests -> Seq(Statuses)] /\ \A q \in Requests : replied[q] = <<>>
    BY EmptySeq DEF Init
<1>6. HostTyped
  <2>1. active \in [Runs -> 0..MaxRequests]
    BY BoundsAreNaturals DEF Init
  <2> QED BY <1>2, <1>5, <2>1, BoundsAreNaturals, EmptySeq DEF HostTyped
<1>7. OpenByAlive /\ SameSession
    BY <1>1 DEF OpenByAlive, SameSession
<1>8. ProgramOrdered /\ QueueWatched /\ StepsSound /\ EndedIsOver
    BY <1>2 DEF ProgramOrdered, QueueWatched, StepsSound, EndedIsOver
<1>9. RepliesOwed
  <2>1. \A r \in Runs : active[r] = 0
    BY DEF Init
  <2>2. \A q \in Requests : Len(replied[q]) <= 1 /\ ~(q <= requests)
    <3> TAKE q \in Requests
    <3>1. Len(<<>>) = 0
      OBVIOUS
    <3>2. \A k : k = 0 => k <= 1
      OBVIOUS
    <3>3. Len(replied[q]) <= 1
      BY <1>5, <3>1, <3>2, Zenon
    <3>4. ~(q <= 0)
      BY BoundsAreNaturals DEF Requests
    <3> QED BY <1>2, <3>3, <3>4
  <2> QED BY <1>1, <1>5, <2>1, <2>2 DEF RepliesOwed
<1> QED BY <1>3, <1>4, <1>6, <1>7, <1>8, <1>9 DEF RunsInv, TypeOK

LEMMA NextRuns ==
    ASSUME RunsInv, [Next]_vars PROVE RunsInv'
<1>1. CASE Handler
  <2>1. CASE RejectExecute \/ KillAllRuns \/ Shutdown
    BY <2>1, RejectExecuteRuns, KillAllRunsRuns, ShutdownRuns
  <2>2. CASE \E r \in Runs :
                \/ ExecuteDuplicate(r) \/ \E s \in Sessions : Execute(r, s)
                \/ Apply(r) \/ ApplyRejected(r) \/ ResumeActor(r)
                \/ KillRun(r) \/ TerminateRun(r) \/ InterruptRun(r)
    BY <2>2, ExecuteDuplicateRuns, ExecuteRuns, ApplyRuns, ApplyRejectedRuns, ResumeActorRuns,
       KillRunRuns, InterruptRunRuns
  <2>3. CASE \E c \in 1..MaxCaps : Answer(c) \/ Observe(c) \/ Compacted(c)
    BY <2>3, AnswerRuns, ObserveRuns, CompactedRuns
  <2> QED BY <1>1, <2>1, <2>2, <2>3 DEF Handler
<1>2. CASE Step
  <2>1. CASE Drain \/ Drained \/ Withhold \/ Send
    BY <2>1, DrainRuns, DrainedRuns, WithholdRuns, SendRuns
  <2>2. CASE RefuseInvoke \/ RefuseEvent \/ Abort
    BY <2>2, RefuseInvokeRuns, RefuseEventRuns, AbortRuns
  <2>3. CASE SettleRun \/ Undecided \/ SendReply \/ SettleReaped
    BY <2>3, SettleRunRuns, UndecidedRuns, SendReplyRuns, SettleReapedRuns
  <2>4. CASE Decided \/ EndRun \/ StartFails
    BY <2>4, EndingStepRuns
  <2>5. CASE StartProgram \/ StartWithoutOutput
    BY <2>5, StartedRuns
  <2>6. CASE DeliverInterrupted \/ MarkInterrupted
    BY <2>6, InterruptedRuns
  <2> QED BY <1>2, <2>1, <2>2, <2>3, <2>4, <2>5, <2>6 DEF Step
<1>3. CASE WriterClosed
    BY <1>3, WriterClosedRuns
<1>4. CASE UNCHANGED vars
  <2>1. UNCHANGED kernel /\ UNCHANGED wire /\ UNCHANGED host
    BY <1>4 DEF vars
  <2>2. /\ runs' = runs /\ caps' = caps /\ emits' = emits /\ fate' = fate /\ batch' = batch
        /\ pending' = pending /\ lost' = lost /\ refusals' = refusals /\ active' = active
        /\ todo' = todo /\ requests' = requests /\ replied' = replied /\ process' = process
    BY <2>1 DEF kernel, wire, host
  <2>3. /\ KernelTyped' /\ WireTyped' /\ OpenByAlive' /\ Live' = Live
    BY <2>1, OnlyTheProgram
  <2>4. HostTyped' /\ ProgramOrdered' /\ QueueWatched' /\ EndedIsOver' /\ Steps' = Steps
    BY <2>2, <2>3 DEF RunsInv, TypeOK, HostTyped, ProgramOrdered, QueueWatched, EndedIsOver, Quiet,
        Flush, Steps
  <2>5. StepsSound' /\ RepliesOwed' /\ SameSession'
    BY <2>2, <2>3, <2>4, RunsKept
  <2> QED BY <2>3, <2>4, <2>5 DEF RunsInv, TypeOK
<1> QED BY <1>1, <1>2, <1>3, <1>4 DEF Next

LEMMA RunsInvImplies ==
    RunsInv => RunsAccounted
<1> SUFFICES ASSUME RunsInv PROVE RunsAccounted
    OBVIOUS
<1>1. TypeOK
    BY DEF RunsInv
<1>2. OneSession
    BY DEF RunsInv, SameSession, OneSession
<1>3. OneReplyPerExecute
  <2>1. \A q \in Requests : Len(replied[q]) <= 1
    BY DEF RunsInv, RepliesOwed
  <2>2. ASSUME Idle
        PROVE  /\ Live = {r \in Runs : active[r] # 0}
               /\ \A r \in Live : runs[r].request = active[r]
               /\ \A q \in 1..requests : replied[q] = <<>> <=> \E r \in Runs : active[r] = q
    <3>1. process = "up" /\ Steps = {} /\ \A r \in Runs : active[r] # 0 <=> r \in Live
      BY <2>2, IdleFacts
    <3>2. Live \subseteq Runs
      BY DEF Live
    <3>3. RepliesOwed /\ requests \in 0..MaxRequests
      BY DEF RunsInv, TypeOK, HostTyped
    <3>4. ASSUME NEW q \in 1..requests
          PROVE  replied[q] = <<>> <=> \E r \in Runs : active[r] = q
      <4>1. q \in Requests /\ q <= requests /\ q # 0
        BY <3>3, BoundsAreNaturals DEF Requests
      <4>2. replied[q] = <<>> => \E r \in Runs : active[r] = q
        BY <3>1, <3>3, <4>1 DEF RepliesOwed
      <4>3. ASSUME NEW r \in Runs, active[r] = q PROVE replied[q] = <<>>
        BY <3>3, <4>1, <4>3 DEF RepliesOwed
      <4> QED BY <4>2, <4>3
    <3> QED BY <3>1, <3>2, <3>3, <3>4 DEF RepliesOwed
  <2> QED BY <2>1, <2>2 DEF OneReplyPerExecute
<1> QED BY <1>1, <1>2, <1>3 DEF RunsAccounted

(* Every step of every handler keeps what the rest of the handler counts   *)
(* on: its steps are about runs that are there, an execute without a reply *)
(* is owed one by a run or a step, and the queue is empty where a handler  *)
(* ends (runtime.rs, run_dispatch_loop).                                   *)
THEOREM RunsInvariant == Spec => []RunsInv
<1>1. RunsInv /\ [Next]_vars => RunsInv'
    BY NextRuns
<1> QED BY InitRuns, <1>1, PTL DEF Spec

(* However runs complete, fail, are killed, interrupted or reaped by a new *)
(* session, and wherever the output is refused: kernel contexts and        *)
(* active_runs agree between events, each execute gets one reply, and the  *)
(* live runs share a session (runtime.rs, handle_execute, settle_run).     *)
THEOREM MagRunsAccounted == Spec => []RunsAccounted
BY RunsInvariant, RunsInvImplies, PTL

-----------------------------------------------------------------------------
(***************************************************************************)
(* The work outside.                                                       *)
(***************************************************************************)
LEMMA FollowsPairwise ==
    ASSUME NEW p \in Seq(Emissions)
    PROVE  (\A j, k \in 1..Len(p) : j < k => Follows(p[j], p[k])) <=> Pairwise(FollowsRel, p)
<1>1. \A j \in 1..Len(p) : p[j] \in Emissions
    BY ElementOfSeq
<1>2. \A j, k \in 1..Len(p) : <<p[j], p[k]>> \in FollowsRel <=> Follows(p[j], p[k])
    BY <1>1, FollowsPair
<1> QED BY <1>2, Zenon DEF Pairwise

LEMMA QueueShape ==
    ASSUME RunsInv, WorkInv
    PROVE  /\ batch \in Seq(Emissions) /\ emits \in Seq(Emissions) /\ Queue \in Seq(Emissions)
           /\ Emitted = ToSet(batch) \cup ToSet(emits) /\ Emitted \subseteq Emissions
           /\ Pairwise(FollowsRel, Queue)
           /\ \A e \in Emitted : IsAsk(e) \/ IsCancel(e) => e.id \in DOMAIN caps /\ e.id \in 1..MaxCaps
<1>1. batch \in Seq(Emissions) /\ emits \in Seq(Emissions)
    BY DEF RunsInv, TypeOK, KernelTyped, WireTyped
<1>2. Queue \in Seq(Emissions) /\ Emitted = ToSet(batch) \cup ToSet(emits)
    BY <1>1, ToSetConcat DEF Queue, Emitted
<1>3. Emitted \subseteq Emissions
    BY <1>2, ToSetByIndex DEF Emitted
<1>4. Pairwise(FollowsRel, Queue)
    BY <1>2, FollowsPairwise DEF WorkInv, AsksFirst
<1>5. \A e \in Emitted : IsAsk(e) \/ IsCancel(e) => e.id \in DOMAIN caps
    BY Zenon DEF WorkInv, EmissionsFit, Fits
<1>6. \A e \in Emitted : IsAsk(e) \/ IsCancel(e) => e.id \in 1..MaxCaps
    BY <1>3 DEF Emissions, IsAsk, IsCancel
<1> QED BY <1>1, <1>2, <1>3, <1>4, <1>5, <1>6

(* Something more is emitted. *)
LEMMA QueueAppends ==
    ASSUME RunsInv, batch' = batch, NEW em \in Seq(Emissions), emits' = emits \o em
    PROVE  Queue' = Queue \o em
<1>1. batch \in Seq(Emissions) /\ emits \in Seq(Emissions)
    BY DEF RunsInv, TypeOK, KernelTyped, WireTyped
<1>2. Associates(Emissions)
    BY ConcatAssociates, Zenon
<1>3. Queue' = batch \o (emits \o em)
    BY DEF Queue
<1> QED BY <1>1, <1>2, <1>3, Zenon DEF Queue, Associates

(* The first emission of a flush leaves the queue. *)
LEMMA QueuePops ==
    ASSUME RunsInv, WorkInv, batch # <<>>, NEW q, q = Tail(batch) \o emits
    PROVE  /\ q \in Seq(Emissions) /\ Pairwise(FollowsRel, q)
           /\ Head(batch) \in Emissions /\ Emitted = {Head(batch)} \cup ToSet(q)
           /\ \A e \in ToSet(q) : Follows(Head(batch), e)
<1>1. batch \in Seq(Emissions) /\ emits \in Seq(Emissions) /\ Pairwise(FollowsRel, Queue)
    BY QueueShape
<1>2. PICK h : h = Head(batch)
    OBVIOUS
<1>3. PICK one : one = <<h>>
    OBVIOUS
<1>4. h \in Emissions /\ Tail(batch) \in Seq(Emissions) /\ batch = one \o Tail(batch)
    BY <1>1, <1>2, <1>3, ToSetHead
<1>5. one \in Seq(Emissions) /\ ToSet(one) = {h}
  <2>1. <<h>> \in Seq(Emissions)
    BY <1>4
  <2> QED BY <1>3, <2>1, ToSetSmall
<1>6. PICK b : b = Tail(batch)
    OBVIOUS
<1>7. b \in Seq(Emissions) /\ q = b \o emits
    BY <1>4, <1>6
<1>8. q \in Seq(Emissions)
    BY <1>1, <1>7, ToSetConcat
<1>9. Queue = one \o q
  <2>1. Associates(Emissions)
    BY ConcatAssociates, Zenon
  <2>2. Queue = (one \o b) \o emits
    BY <1>4, <1>6 DEF Queue
  <2>3. (one \o b) \o emits = one \o (b \o emits)
    BY <1>1, <1>5, <1>7, <2>1, Zenon DEF Associates
  <2> QED BY <1>7, <2>2, <2>3, Zenon
<1>10. Emitted = {h} \cup ToSet(q)
  <2>1. Unites(Emissions)
    BY ConcatUnites, Zenon
  <2>2. ToSet(one \o q) = ToSet(one) \cup ToSet(q)
    BY <1>5, <1>8, <2>1, Zenon DEF Unites
  <2> QED BY <1>5, <1>9, <2>2, Zenon DEF Emitted
<1>11. /\ Pairwise(FollowsRel, q) /\ \A a \in ToSet(one), e \in ToSet(q) : <<a, e>> \in FollowsRel
    BY <1>1, <1>5, <1>8, <1>9, PairwiseConcat
<1>12. ToSet(q) \subseteq Emissions
    BY <1>8, ToSetByIndex
<1>13. \A e \in ToSet(q) : Follows(h, e)
    BY <1>4, <1>5, <1>11, <1>12, FollowsPair
<1> QED BY <1>2, <1>4, <1>8, <1>10, <1>11, <1>13

LEMMA QueueBecomes ==
    ASSUME NEW q \in Seq(Emissions), NEW em \in Seq(Emissions), Queue' = q \o em,
           Pairwise(FollowsRel, q), Pairwise(FollowsRel, em),
           \A a \in ToSet(q), b \in ToSet(em) : Follows(a, b)
    PROVE  AsksFirst' /\ Emitted' = ToSet(q) \cup ToSet(em)
<1>1. Queue' \in Seq(Emissions) /\ Emitted' = ToSet(q) \cup ToSet(em)
    BY ToSetConcat DEF Emitted
<1>2. ToSet(q) \subseteq Emissions /\ ToSet(em) \subseteq Emissions
    BY ToSetByIndex
<1>3. \A a \in ToSet(q), b \in ToSet(em) : <<a, b>> \in FollowsRel
    BY <1>2, FollowsPair
<1>4. Pairwise(FollowsRel, Queue')
    BY <1>3, PairwiseConcat
<1>5. AsksFirst'
    BY <1>1, <1>4, FollowsPairwise DEF AsksFirst
<1> QED BY <1>1, <1>5

(* An execute has one run, and a capability one actor waiting for it. *)
LEMMA OneRunPerRequest ==
    ASSUME RunsInv, NEW r \in Live, NEW x \in Live, runs[r].request = runs[x].request
    PROVE  r = x
<1>1. r \in Runs /\ x \in Runs /\ runs[r].request \in Requests
    BY LiveContext DEF RunsInv, TypeOK
<1>2. active[r] = runs[r].request /\ active[x] = runs[x].request
    BY DEF RunsInv, RepliesOwed
<1>3. active[r] # 0
    BY <1>1, <1>2 DEF Requests
<1> QED BY <1>1, <1>2, <1>3, Zenon DEF RunsInv, RepliesOwed

LEMMA OneWaiter ==
    ASSUME RunsInv, NEW r \in Live, NEW x \in Live, NEW c, c \in runs[r].open, c \in runs[x].open
    PROVE  r = x
<1>1. caps[c].request = runs[r].request /\ caps[c].request = runs[x].request
    BY Zenon DEF RunsInv, TypeOK, OpenByAlive
<1> QED BY <1>1, OneRunPerRequest

LEMMA OwedNoReply ==
    ASSUME RunsInv, NEW r \in Live
    PROVE  replied[runs[r].request] = <<>> /\ runs[r].request <= requests
<1>1. r \in Runs /\ runs[r].request \in Requests /\ active[r] = runs[r].request
    BY LiveContext DEF RunsInv, TypeOK, RepliesOwed
<1>2. active[r] # 0
    BY <1>1 DEF Requests
<1> QED BY <1>1, <1>2 DEF RunsInv, RepliesOwed

(***************************************************************************)
(* An activation, or a report in a run's name, keeps WorkInv.  What the    *)
(* queue loses is about capabilities that are closed; so is what changes   *)
(* outside; and what is closed is no longer wanted, or is being withdrawn. *)
(***************************************************************************)
LEMMA WorkActs ==
    ASSUME RunsInv, WorkInv, process = "up", UNCHANGED <<active, requests, replied, process>>,
           NEW r \in Live, NEW y, NEW em, NEW closed, Acts(r, y, em, closed),
           NEW q \in Seq(Emissions), Pairwise(FollowsRel, q), Queue' = q \o em,
           ToSet(q) \subseteq Emitted,
           \A e \in Emitted : e \notin ToSet(q) => e.id \in closed \cap runs[r].open /\ ~IsCancel(e),
           \A c \in 1..MaxCaps : c \notin closed \cap runs[r].open => fate'[c] = fate[c],
           \A c \in 1..MaxCaps : fate'[c] = fate[c] \/ fate'[c] = "answered",
           \A e \in ToSet(q) : IsAsk(e) \/ IsCancel(e) => fate'[e.id] = fate[e.id],
           \A c \in closed \cap DOMAIN caps :
               (IsWork(c) /\ (fate'[c] = "sent" \/ \E e \in ToSet(q) : IsAsk(e) /\ e.id = c)) =>
                   \E e \in ToSet(q) : IsCancel(e) /\ e.id = c,
           \A e \in ToSet(em) : IsAsk(e) /\ e.kind # "query" => Settling(r)',
           \A e \in ToSet(q) : IsAsk(e) /\ e.kind # "query" => Settling(e.run)',
           \A t \in Steps' : t.op = "deliver" => t \in Steps,
           \A x \in Live, d \in 1..MaxCaps :
               Deliver(x, d) \in Steps /\ ~(x = r /\ d \in closed) => Deliver(x, d) \in Steps',
           pending' = {c \in DOMAIN caps : caps[c].class = "provider" /\ fate'[c] = "sent"}
    PROVE  WorkInv'
<1>0. KernelTyped /\ OpenByAlive /\ TypeOK
    BY DEF RunsInv, TypeOK
<1>1. /\ DOMAIN caps = 1..Len(caps) /\ Len(caps) \in Nat /\ Len(caps) <= MaxCaps
      /\ caps' \in Seq(Capabilities) /\ Len(caps) <= Len(caps') /\ Len(caps') <= MaxCaps
      /\ \A c \in 1..Len(caps) : caps'[c] = caps[c]
    BY <1>0, LenProperties DEF KernelTyped, Acts, Grows
<1>2. DOMAIN caps' = 1..Len(caps') /\ Len(caps') \in Nat /\ MaxCaps \in Nat
    BY <1>1, LenProperties, BoundsAreNaturals
<1>3. /\ DOMAIN caps' = DOMAIN caps \cup New(caps') /\ DOMAIN caps' \subseteq 1..MaxCaps
      /\ DOMAIN caps \cap New(caps') = {}
    BY <1>1, <1>2 DEF New
<1>4. /\ Live' = Live /\ runs'[r] = y /\ \A x \in Runs : x # r => runs'[x] = runs[x]
      /\ \A x \in Live : /\ runs'[x].request = runs[x].request
                         /\ runs'[x].outputFailed = runs[x].outputFailed
    BY <1>0, ActsKernel
<1>5. /\ em \in Seq(Emissions) /\ Pairwise(FollowsRel, em)
      /\ \A e \in ToSet(em) :
             /\ e.run = r /\ Fits(e, caps')
             /\ IsAsk(e) => e.id \in New(caps')
             /\ IsCancel(e) => e.id \in ((runs[r].open \ closed) \cup New(caps')) \ y.open
    BY DEF Acts
<1>6. /\ y.open \subseteq (runs[r].open \ closed) \cup New(caps')
      /\ runs[r].alive \cup runs[r].dead \subseteq y.alive \cup y.dead
      /\ \A c \in New(caps') : /\ caps'[c].request = runs[r].request
                               /\ caps'[c].actor \in y.alive \cup y.dead
                               /\ \E e \in ToSet(em) : IsAsk(e) /\ e.id = c
      /\ \A c \in ((runs[r].open \ closed) \cup New(caps')) \ y.open :
             caps'[c].class = "query" \/ \E e \in ToSet(em) : IsCancel(e) /\ e.id = c
    BY DEF Acts
<1>7. \A c \in New(caps') : fate'[c] = "unsent" /\ c \in 1..MaxCaps /\ c \notin DOMAIN caps
  <2> TAKE c \in New(caps')
  <2>1. c \in 1..MaxCaps /\ c \notin DOMAIN caps
    BY <1>3
  <2>2. c \notin runs[r].open
    BY <1>0, <2>1, OpenKnown
  <2>3. fate[c] = "unsent"
    BY <2>1 DEF WorkInv, WantedIsOpen
  <2> QED BY <2>1, <2>2, <2>3
<1>8. \A e \in ToSet(q) : IsAsk(e) \/ IsCancel(e) => e.id \in DOMAIN caps /\ e.id \in 1..MaxCaps
    BY QueueShape
<1>9. AsksFirst' /\ Emitted' = ToSet(q) \cup ToSet(em)
  <2>1. \A a \in ToSet(q), b \in ToSet(em) : Follows(a, b)
    <3> TAKE a \in ToSet(q), b \in ToSet(em)
    <3>1. IsAsk(b) => b.id \notin DOMAIN caps
      BY <1>5, <1>7
    <3>2. IsAsk(a) \/ IsCancel(a) => a.id \in DOMAIN caps
      BY <1>8
    <3> QED BY <3>1, <3>2 DEF Follows
  <2> QED BY <1>5, <2>1, QueueBecomes
<1>10. \A c \in DOMAIN caps : caps'[c] = caps[c]
    BY <1>1
<1>11. EmissionsFit'
  <2>1. \A e \in ToSet(q) : Fits(e, caps')
    <3> TAKE e \in ToSet(q)
    <3>1. Fits(e, caps)
      BY DEF WorkInv, EmissionsFit
    <3> QED BY <1>3, <1>10, <3>1, Zenon DEF Fits
  <2> QED BY <1>5, <1>9, <2>1, Zenon DEF EmissionsFit, Fits
<1>12. AsksPending'
  <2>1. ASSUME NEW e \in Emitted', IsAsk(e)
        PROVE  /\ fate'[e.id] = "unsent"
               /\ replied'[caps'[e.id].request] = <<>>
               /\ e.run \in Live' /\ (e.kind # "query" => Settling(e.run)')
               /\ caps'[e.id].request = runs'[e.run].request
               /\ caps'[e.id].actor \in runs'[e.run].alive \cup runs'[e.run].dead
    <3>1. CASE e \in ToSet(q)
      <4>1. /\ fate[e.id] = "unsent" /\ replied[caps[e.id].request] = <<>>
            /\ e.run \in Live /\ caps[e.id].request = runs[e.run].request
            /\ caps[e.id].actor \in runs[e.run].alive \cup runs[e.run].dead
        BY <2>1, <3>1 DEF WorkInv, AsksPending
      <4>2. caps'[e.id] = caps[e.id] /\ fate'[e.id] = fate[e.id]
        BY <1>8, <1>10, <2>1, <3>1
      <4>3. runs'[e.run].request = runs[e.run].request
        BY <1>4, <4>1
      <4>4. caps[e.id].actor \in runs'[e.run].alive \cup runs'[e.run].dead
        BY <1>4, <1>6, <4>1 DEF Live
      <4> QED BY <1>4, <2>1, <3>1, <4>1, <4>2, <4>3, <4>4
    <3>2. CASE e \in ToSet(em)
      <4>1. e.run = r /\ e.id \in New(caps')
        BY <1>5, <2>1, <3>2
      <4>2. /\ fate'[e.id] = "unsent" /\ caps'[e.id].request = runs[r].request
            /\ caps'[e.id].actor \in y.alive \cup y.dead
        BY <1>6, <1>7, <4>1
      <4>3. replied[runs[r].request] = <<>>
        BY OwedNoReply
      <4>4. e.kind # "query" => Settling(r)'
        BY <2>1, <3>2
      <4> QED BY <1>4, <4>1, <4>2, <4>3, <4>4
    <3> QED BY <1>9, <2>1, <3>1, <3>2
  <2> QED BY <2>1, Zenon DEF AsksPending, IsAsk
<1>13. \A x \in Live : \A c \in runs'[x].open :
           \/ x = r /\ c \in New(caps')
           \/ /\ c \in runs[x].open /\ c \in DOMAIN caps /\ c \in 1..MaxCaps
              /\ c \notin closed \cap runs[r].open /\ fate'[c] = fate[c]
              /\ x = r => c \notin closed
  <2> TAKE x \in Live
  <2> TAKE c \in runs'[x].open
  <2>0. x \in Runs
    BY DEF Live
  <2>1. CASE x = r
    <3>1. c \in y.open
      BY <1>4, <2>1
    <3>2. CASE c \in runs[r].open \ closed
      <4>1. c \in DOMAIN caps /\ c \in 1..MaxCaps
        BY <1>0, <1>3, <3>2, OpenKnown
      <4> QED BY <2>1, <3>2, <4>1
    <3> QED BY <1>6, <2>1, <3>1, <3>2
  <2>2. CASE x # r
    <3>1. c \in runs[x].open
      BY <1>4, <2>0, <2>2
    <3>2. c \in DOMAIN caps /\ c \in 1..MaxCaps
      BY <1>0, <1>3, <3>1, OpenKnown
    <3>3. c \notin runs[r].open
      BY <2>2, <3>1, OneWaiter
    <3> QED BY <2>2, <3>1, <3>2, <3>3
  <2> QED BY <2>1, <2>2
<1>14. CancelsPending'
  <2>1. ASSUME NEW e \in Emitted', IsCancel(e)
        PROVE  /\ fate'[e.id] # "answered"
               /\ \A x \in Live' : e.id \in runs'[x].open => Deliver(x, e.id) \in Steps'
    <3>1. CASE e \in ToSet(q)
      <4>1. fate[e.id] # "answered"
            /\ \A x \in Live : e.id \in runs[x].open => Deliver(x, e.id) \in Steps
        BY <2>1, <3>1 DEF WorkInv, CancelsPending
      <4>2. e.id \in DOMAIN caps /\ e.id \in 1..MaxCaps /\ fate'[e.id] = fate[e.id]
        BY <1>8, <2>1, <3>1
      <4>3. ASSUME NEW x \in Live, e.id \in runs'[x].open PROVE Deliver(x, e.id) \in Steps'
        <5>1. e.id \notin New(caps')
          BY <1>7, <4>2
        <5>2. e.id \in runs[x].open /\ (x = r => e.id \notin closed)
          BY <1>13, <4>3, <5>1
        <5> QED BY <4>1, <4>2, <5>2
      <4> QED BY <1>4, <4>1, <4>2, <4>3
    <3>2. CASE e \in ToSet(em)
      <4>1. e.id \in (runs[r].open \ closed) \cup New(caps') /\ e.id \notin y.open
        BY <1>5, <2>1, <3>2
      <4>2. fate'[e.id] # "answered"
        <5>1. CASE e.id \in New(caps')
          BY <1>7, <5>1
        <5>2. CASE e.id \in runs[r].open \ closed
          <6>1. fate[e.id] \in {"unsent", "sent"} /\ e.id \in 1..MaxCaps
            BY <1>0, <1>3, <5>2, OpenKnown DEF WorkInv, OpenIsAsked
          <6> QED BY <5>2, <6>1
        <5> QED BY <4>1, <5>1, <5>2
      <4>3. ASSUME NEW x \in Live, e.id \in runs'[x].open PROVE FALSE
        <5>1. x # r
          BY <1>4, <4>1, <4>3
        <5>2. e.id \in runs[x].open /\ e.id \in DOMAIN caps
          BY <1>13, <4>3, <5>1
        <5>3. e.id \in runs[r].open
          BY <1>3, <4>1, <5>2
        <5> QED BY <5>1, <5>2, <5>3, OneWaiter
      <4> QED BY <1>4, <4>2, <4>3
    <3> QED BY <1>9, <2>1, <3>1, <3>2
  <2>2. ASSUME NEW t \in Steps', t.op = "deliver"
        PROVE  \/ \E e \in Emitted' : IsCancel(e) /\ e.id = t.id
               \/ t.id \in DOMAIN caps' /\ ~IsWork(t.id)'
    <3>1. Withdrawn(t.id) \/ (t.id \in DOMAIN caps /\ ~IsWork(t.id))
      BY <2>2 DEF WorkInv, CancelsPending
    <3>2. CASE Withdrawn(t.id)
      <4>1. PICK e \in Emitted : IsCancel(e) /\ e.id = t.id
        BY <3>2 DEF Withdrawn
      <4>2. e \in ToSet(q)
        BY <4>1
      <4> QED BY <1>9, <4>1, <4>2
    <3>3. CASE t.id \in DOMAIN caps /\ ~IsWork(t.id)
      BY <1>3, <1>10, <3>3 DEF IsWork
    <3> QED BY <3>1, <3>2, <3>3
  <2> QED BY <2>1, <2>2, Zenon DEF CancelsPending, Withdrawn, IsCancel, Deliver
<1>15. OpenIsAsked'
  <2>1. ASSUME NEW x \in Live', NEW c \in runs'[x].open
        PROVE  /\ fate'[c] \in {"unsent", "sent"}
               /\ ~runs'[x].outputFailed =>
                      (fate'[c] = "sent" \/ \E e \in Emitted' : IsAsk(e) /\ e.id = c)
    <3>0. x \in Live
      BY <1>4
    <3>1. CASE x = r /\ c \in New(caps')
      BY <1>6, <1>7, <1>9, <3>1
    <3>2. CASE /\ c \in runs[x].open /\ c \notin closed \cap runs[r].open
               /\ fate'[c] = fate[c]
      <4>1. fate[c] \in {"unsent", "sent"} /\ (~runs[x].outputFailed => Wanted(c))
        BY <3>0, <3>2 DEF WorkInv, OpenIsAsked
      <4>2. ASSUME NEW e \in Emitted, IsAsk(e), e.id = c PROVE e \in Emitted'
        BY <1>9, <3>2, <4>2
      <4>3. runs'[x].outputFailed = runs[x].outputFailed
        BY <1>4, <3>0
      <4> QED BY <3>2, <4>1, <4>2, <4>3 DEF Wanted
    <3> QED BY <1>13, <3>0, <3>1, <3>2
  <2> QED BY <2>1, Zenon DEF OpenIsAsked, Wanted, IsAsk
<1>16. WantedIsOpen'
  <2>1. \A c \in 1..MaxCaps : c \notin DOMAIN caps' => fate'[c] = "unsent"
    <3> TAKE c \in 1..MaxCaps
    <3> HAVE c \notin DOMAIN caps'
    <3>1. c \notin DOMAIN caps
      BY <1>3
    <3>2. fate[c] = "unsent" /\ c \notin runs[r].open
      BY <1>0, <3>1, OpenKnown DEF WorkInv, WantedIsOpen
    <3> QED BY <3>2
  <2>2. ASSUME NEW c \in DOMAIN caps'
        PROVE  /\ caps'[c].request <= requests'
               /\ (IsWork(c)' /\ (fate'[c] = "sent" \/ \E e \in Emitted' : IsAsk(e) /\ e.id = c)) =>
                      \/ \E x \in Live' : c \in runs'[x].open
                      \/ \E e \in Emitted' : IsCancel(e) /\ e.id = c
    <3>1. CASE c \in New(caps')
      <4>1. caps'[c].request = runs[r].request /\ runs[r].request <= requests
        BY <1>6, <3>1, OwedNoReply
      <4>2. CASE c \in y.open
        BY <1>4, <4>1, <4>2
      <4>3. CASE c \notin y.open
        BY <1>6, <1>9, <3>1, <4>1, <4>3 DEF IsWork
      <4> QED BY <4>2, <4>3
    <3>2. CASE c \in DOMAIN caps
      <4>1. caps'[c] = caps[c] /\ c \in 1..MaxCaps /\ c \notin New(caps')
        BY <1>3, <1>10, <3>2
      <4>2. caps[c].request <= requests /\ (IsWork(c) /\ Wanted(c) => Waiting(c) # {} \/ Withdrawn(c))
        BY <3>2 DEF WorkInv, WantedIsOpen
      <4>w. IsWork(c)' <=> IsWork(c)
        BY <4>1 DEF IsWork
      <4>3. ASSUME IsWork(c), fate'[c] = "sent" \/ \E e \in Emitted' : IsAsk(e) /\ e.id = c
            PROVE  \/ \E x \in Live' : c \in runs'[x].open
                   \/ \E e \in Emitted' : IsCancel(e) /\ e.id = c
        <5>1. fate[c] = "sent" \/ \E e \in ToSet(q) : IsAsk(e) /\ e.id = c
          <6>1. \A e \in ToSet(em) : IsAsk(e) => e.id # c
            BY <1>5, <4>1
          <6>2. fate'[c] = "sent" => fate[c] = "sent"
            BY <4>1
          <6> QED BY <1>9, <4>3, <6>1, <6>2
        <5>2. Waiting(c) # {} \/ Withdrawn(c)
          BY <4>2, <4>3, <5>1 DEF Wanted
        <5>3. CASE Withdrawn(c)
          <6>1. PICK e \in Emitted : IsCancel(e) /\ e.id = c
            BY <5>3 DEF Withdrawn
          <6>2. e \in ToSet(q)
            BY <6>1
          <6> QED BY <1>9, <6>1, <6>2
        <5>4. CASE Waiting(c) # {}
          <6>1. PICK x \in Live : c \in runs[x].open
            BY <5>4 DEF Waiting
          <6>2. CASE x # r
            BY <1>4, <6>1, <6>2 DEF Live
          <6>3. CASE x = r /\ c \in closed
            <7>1. fate'[c] = "sent" \/ \E e \in ToSet(q) : IsAsk(e) /\ e.id = c
              <8>1. \A e \in ToSet(em) : IsAsk(e) => e.id # c
                BY <1>5, <4>1
              <8> QED BY <1>9, <4>3, <8>1
            <7>2. \E e \in ToSet(q) : IsCancel(e) /\ e.id = c
              BY <3>2, <4>3, <6>3, <7>1
            <7> QED BY <1>9, <7>2
          <6>4. CASE x = r /\ c \notin closed
            <7>1. CASE c \in y.open
              BY <1>4, <6>4, <7>1
            <7>2. CASE c \notin y.open
              BY <1>6, <1>9, <4>1, <4>3, <6>1, <6>4, <7>2 DEF IsWork
            <7> QED BY <7>1, <7>2
          <6> QED BY <6>2, <6>3, <6>4
        <5> QED BY <5>2, <5>3, <5>4
      <4> QED BY <4>1, <4>2, <4>w, <4>3
    <3> QED BY <1>3, <2>2, <3>1, <3>2
  <2>3. \A c : (\E x \in Live' : c \in runs'[x].open) => Waiting(c)' # {}
    BY DEF Waiting
  <2> QED BY <2>1, <2>2, <2>3, Zenon DEF WantedIsOpen, Wanted, Withdrawn, IsAsk, IsCancel
<1>17. BridgeExact'
  <2>1. \A c \in New(caps') : fate'[c] # "sent"
    BY <1>7
  <2>2. pending' = {c \in DOMAIN caps' : caps'[c].class = "provider" /\ fate'[c] = "sent"}
    BY <1>3, <1>10, <2>1
  <2> QED BY <2>2 DEF BridgeExact
<1>18. NothingOutlivesItsRun'
  <2>1. ASSUME NEW c \in DOMAIN caps', IsWork(c)', replied'[caps'[c].request] # <<>>
        PROVE  fate'[c] # "sent"
    <3>1. CASE c \in New(caps')
      BY <1>7, <3>1
    <3>2. CASE c \in DOMAIN caps
      <4>1. caps'[c] = caps[c] /\ c \in 1..MaxCaps
        BY <1>3, <1>10, <3>2
      <4>2. fate[c] # "sent"
        BY <2>1, <3>2, <4>1 DEF WorkInv, NothingOutlivesItsRun, IsWork
      <4> QED BY <4>1, <4>2
    <3> QED BY <1>3, <2>1, <3>1, <3>2
  <2> QED BY <2>1 DEF NothingOutlivesItsRun
<1> QED BY <1>9, <1>11, <1>12, <1>14, <1>15, <1>16, <1>17, <1>18 DEF WorkInv

(* Activations that leave the wire as it is. *)
LEMMA WorkActsAlone ==
    ASSUME RunsInv, WorkInv, process = "up", UNCHANGED <<active, requests, replied, process>>,
           UNCHANGED wire, NEW r \in Live, NEW y, NEW em, Acts(r, y, em, {}),
           \A e \in ToSet(em) : IsAsk(e) /\ e.kind # "query" => Settling(r)',
           \A e \in Emitted : IsAsk(e) /\ e.kind # "query" => Settling(e.run)',
           \A t \in Steps' : t.op = "deliver" => t \in Steps,
           \A x \in Live, d \in 1..MaxCaps : Deliver(x, d) \in Steps => Deliver(x, d) \in Steps'
    PROVE  WorkInv'
<1>1. fate' = fate /\ pending' = pending /\ batch' = batch
    BY DEF wire
<1>2. em \in Seq(Emissions) /\ emits' = emits \o em
    BY DEF Acts
<1>3. PICK q : q = Queue
    OBVIOUS
<1>4. q \in Seq(Emissions) /\ Pairwise(FollowsRel, q) /\ Queue' = q \o em /\ ToSet(q) = Emitted
    BY <1>1, <1>2, <1>3, QueueShape, QueueAppends DEF Emitted
<1>5. pending' = {c \in DOMAIN caps : caps[c].class = "provider" /\ fate'[c] = "sent"}
    BY <1>1 DEF WorkInv, BridgeExact
<1> QED BY <1>1, <1>4, <1>5, WorkActs

(* A report in the name of run r is an activation that does nothing else. *)
LEMMA EventActs ==
    ASSUME TypeOK, NEW r \in Live, runs' = runs, caps' = caps, emits' = Append(emits, Event(r))
    PROVE  \E em : Acts(r, runs[r], em, {}) /\ \A e \in ToSet(em) : ~IsAsk(e)
<1>1. r \in Runs /\ runs[r] \in Contexts /\ runs \in [Runs -> Contexts \cup {NoRun}]
      /\ caps \in Seq(Capabilities) /\ Len(caps) \in Nat /\ Len(caps) <= MaxCaps
      /\ emits \in Seq(Emissions)
    BY LiveContext, LenProperties DEF TypeOK, KernelTyped
<1>2. PICK ev : ev = Event(r)
    OBVIOUS
<1>3. ev \in Emissions /\ ev.run = r /\ ~IsAsk(ev) /\ ~IsCancel(ev)
    BY <1>1, <1>2, EventShape
<1>4. PICK em : em = <<ev>>
    OBVIOUS
<1>5. em \in Seq(Emissions) /\ ToSet(em) = {ev} /\ Pairwise(FollowsRel, em)
  <2>1. <<ev>> \in Seq(Emissions)
    BY <1>3
  <2> QED BY <1>4, <2>1, ToSetSmall, PairwiseSmall
<1>6. emits' = emits \o em
    BY <1>1, <1>2, <1>3, <1>4
<1>7. New(caps') = {}
    BY <1>1 DEF New
<1>8. Grows(caps')
    BY <1>1 DEF Grows
<1>9. runs' = [runs EXCEPT ![r] = runs[r]]
    BY <1>1
<1>10. runs[r].alive \cap runs[r].dead = {} /\ \A c \in runs[r].open : caps'[c].actor \in runs[r].alive
    BY DEF TypeOK, OpenByAlive
<1>11. \A e \in ToSet(em) : e.run = r /\ Fits(e, caps') /\ ~IsAsk(e) /\ ~IsCancel(e)
    BY <1>3, <1>5, Zenon DEF Fits
<1>12. Acts(r, runs[r], em, {})
    BY <1>1, <1>5, <1>6, <1>7, <1>8, <1>9, <1>10, <1>11 DEF Acts
<1> QED BY <1>11, <1>12

LEMMA IdleQueue ==
    ASSUME RunsInv, WorkInv, Idle
    PROVE  Emitted = {} /\ Queue = <<>>
<1>1. batch = <<>> /\ emits = <<>>
    BY IdleFacts
<1>2. Queue = <<>>
    BY <1>1 DEF Queue
<1> QED BY <1>2 DEF Emitted, ToSet

(* A handler that activates run r, flushes and settles it. *)
LEMMA ActivationWork ==
    ASSUME RunsInv, WorkInv, Idle, NEW r \in Live, NEW y, NEW em, Acts(r, y, em, {}),
           \/ todo' = <<Flush, Settle(r)>>
           \/ todo' = <<Flush>> /\ \A e \in ToSet(em) : IsAsk(e) => e.kind = "query",
           UNCHANGED wire, UNCHANGED <<active, requests, replied, process>>
    PROVE  WorkInv'
<1>1. Live' = Live /\ process = "up" /\ Steps = {} /\ Emitted = {} /\ r \in Runs
    BY ActsKernel, IdleFacts, IdleQueue DEF RunsInv, Live
<1>2. \A t \in Steps' : t.op # "deliver"
    BY <1>1, FlushThenSettle, FlushOnly, StepFields
<1>3. \A e \in ToSet(em) : IsAsk(e) /\ e.kind # "query" => Settling(r)'
    BY <1>1, FlushThenSettle DEF Settling
<1> QED BY <1>1, <1>2, <1>3, WorkActsAlone

LEMMA HandlersWork ==
    ASSUME RunsInv, WorkInv, NEW r \in Runs, Apply(r) \/ ResumeActor(r) \/ ApplyRejected(r)
    PROVE  WorkInv'
<1>1. /\ Idle /\ todo' = <<Flush, Settle(r)>> /\ UNCHANGED wire
      /\ UNCHANGED <<active, requests, replied, process>>
    BY DEF Apply, ResumeActor, ApplyRejected
<1>2. \E y, em : r \in Live /\ Acts(r, y, em, {})
  <2>1. CASE Apply(r)
    BY <2>1, ApplyRunActs
  <2>2. CASE ResumeActor(r)
    BY <2>2, ResumeActs
  <2>3. CASE ApplyRejected(r)
    <3>1. r \in Live /\ runs' = runs /\ caps' = caps /\ emits' = Append(emits, Event(r))
      BY <2>3, IdleFacts DEF ApplyRejected
    <3> QED BY <3>1, EventActs DEF RunsInv
  <2> QED BY <2>1, <2>2, <2>3
<1> QED BY <1>1, <1>2, ActivationWork

LEMMA ObserveWork ==
    ASSUME RunsInv, WorkInv, NEW c, Observe(c) PROVE WorkInv'
<1>1. /\ Idle /\ todo' = <<Flush>> /\ UNCHANGED wire
      /\ UNCHANGED <<active, requests, replied, process>>
    BY DEF Observe
<1>2. PICK r \in Live : \E y, em : /\ Acts(r, y, em, {})
                                  /\ \A e \in ToSet(em) : IsAsk(e) => e.kind = "query"
    BY ObserveActs
<1>3. PICK y, em : Acts(r, y, em, {}) /\ \A e \in ToSet(em) : IsAsk(e) => e.kind = "query"
    BY <1>2
<1> QED BY <1>1, <1>3, ActivationWork

LEMMA CompactedWork ==
    ASSUME RunsInv, WorkInv, NEW c, Compacted(c) PROVE WorkInv'
<1>1. /\ Idle /\ UNCHANGED wire /\ runs' = runs /\ caps' = caps
      /\ UNCHANGED <<active, requests, replied, process>>
    BY DEF Compacted
<1>2. PICK r \in Live : emits' = Append(emits, Event(r)) /\ todo' = <<Flush, Settle(r)>>
    BY DEF Compacted, Waiting
<1>3. PICK em : Acts(r, runs[r], em, {})
    BY <1>1, <1>2, EventActs DEF RunsInv
<1> QED BY <1>1, <1>2, <1>3, ActivationWork

LEMMA StartProgramWork ==
    ASSUME RunsInv, WorkInv, StartProgram PROVE WorkInv'
<1>1. At("start") /\ UNCHANGED wire /\ UNCHANGED <<active, requests, replied, process>>
    BY DEF StartProgram
<1>2. PICK r : r = Head(todo).run
    OBVIOUS
<1>3. /\ r \in Live /\ Head(todo) = Start(r) /\ Steps' = {Settle(r)} \cup Rest
      /\ \A b \in Rest : b.op # "deliver"
    BY <1>2, StartedSteps
<1>4. PICK y, em : Acts(r, y, em, {})
    BY <1>2, StartActs
<1>5. process = "up" /\ Steps = {Head(todo)} \cup Rest /\ r \in Runs
    BY <1>1, <1>3, AtFacts DEF Live
<1>6. Start(r).op = "start" /\ Settle(r).op = "settle"
    BY <1>5, StepFields
<1>7. \A t \in Steps \cup Steps' : t.op # "deliver"
    BY <1>3, <1>5, <1>6
<1>8. \A x, d : Deliver(x, d) \notin Steps
    BY <1>7 DEF Deliver
<1>9. Settling(r)' /\ \A e \in Emitted : IsAsk(e) /\ e.kind # "query" => Settling(e.run)'
  <2>1. Settling(r)'
    BY <1>3 DEF Settling
  <2>2. \A x : Settling(x) => Settling(x)'
    <3>1. \A x : Settle(x) # Start(r) /\ Decide(x) # Start(r)
      BY <1>6 DEF Settle, Decide
    <3> QED BY <1>3, <1>5, <3>1, Zenon DEF Settling, Settle, Decide
  <2>3. \A e \in Emitted : IsAsk(e) /\ e.kind # "query" => Settling(e.run)
    BY <1>5 DEF WorkInv, AsksPending
  <2> QED BY <2>1, <2>2, <2>3
<1> QED BY <1>1, <1>4, <1>5, <1>3, <1>7, <1>8, <1>9, WorkActsAlone

(* While interrupts are delivered the rest of the program stays. *)
LEMMA InterruptedKeeps ==
    ASSUME RunsInv, WorkInv, DeliverInterrupted \/ MarkInterrupted, NEW r, r = Head(todo).run
    PROVE  /\ Settling(r)' /\ \A e \in Emitted : IsAsk(e) /\ e.kind # "query" => Settling(e.run)'
           /\ \A t \in Steps' : t \in Steps
           /\ \A t \in Steps : t # Head(todo) => t \in Steps'
<1>2. /\ Head(todo).op \in {"deliver", "mark"} /\ Steps = {Head(todo)} \cup Rest /\ Steps' = Rest
      /\ process = "up" /\ Settle(r) \in Rest
    BY InterruptedSteps
<1>3. \A x : Settle(x) # Head(todo) /\ Decide(x) # Head(todo)
    BY <1>2 DEF Settle, Decide
<1>4. \A x : Settling(x) => Settling(x)'
    BY <1>2, <1>3, Zenon DEF Settling, Settle, Decide
<1>5. Settling(r)'
    BY <1>2 DEF Settling
<1>6. \A e \in Emitted : IsAsk(e) /\ e.kind # "query" => Settling(e.run)
    BY <1>2 DEF WorkInv, AsksPending
<1> QED BY <1>2, <1>4, <1>5, <1>6

LEMMA MarkInterruptedWork ==
    ASSUME RunsInv, WorkInv, MarkInterrupted PROVE WorkInv'
<1>1. /\ At("mark") /\ UNCHANGED wire /\ runs' = runs /\ caps' = caps
      /\ UNCHANGED <<active, requests, replied, process>>
    BY DEF MarkInterrupted
<1>2. PICK r : r = Head(todo).run
    OBVIOUS
<1>3. r \in Live /\ emits' = Append(emits, Event(r)) /\ process = "up"
    BY <1>2, InterruptedSteps DEF MarkInterrupted
<1>4. PICK em : Acts(r, runs[r], em, {}) /\ \A e \in ToSet(em) : ~IsAsk(e)
    BY <1>1, <1>3, EventActs DEF RunsInv
<1>5. \A x, d : Deliver(x, d) # Head(todo)
    BY <1>1, AtFacts DEF Deliver
<1>6. /\ \A e \in Emitted : IsAsk(e) /\ e.kind # "query" => Settling(e.run)'
      /\ \A t \in Steps' : t \in Steps
      /\ \A x \in Live, d \in 1..MaxCaps : Deliver(x, d) \in Steps => Deliver(x, d) \in Steps'
    BY <1>2, <1>5, InterruptedKeeps
<1> QED BY <1>1, <1>3, <1>4, <1>6, WorkActsAlone

LEMMA DeliverInterruptedWork ==
    ASSUME RunsInv, WorkInv, DeliverInterrupted PROVE WorkInv'
<1>1. At("deliver") /\ UNCHANGED wire /\ UNCHANGED <<active, requests, replied, process>>
    BY DEF DeliverInterrupted
<1>2. PICK r, c : r = Head(todo).run /\ c = Head(todo).id
    OBVIOUS
<1>3. r \in Live /\ process = "up"
    BY <1>2, InterruptedSteps
<1>4. PICK y, em : Acts(r, y, em, {c})
    BY <1>2, DeliverActs
<1>5. Head(todo) \in Steps /\ Head(todo) = Deliver(r, c) /\ Head(todo).op = "deliver"
    BY <1>1, <1>2, AtFacts, StepKinds
<1>6. Withdrawn(c) \/ (c \in DOMAIN caps /\ ~IsWork(c))
    BY <1>2, <1>5 DEF WorkInv, CancelsPending
<1>7. fate' = fate /\ pending' = pending /\ batch' = batch
    BY <1>1 DEF wire
<1>8. em \in Seq(Emissions) /\ emits' = emits \o em
    BY <1>4 DEF Acts
<1>9. PICK q : q = Queue
    OBVIOUS
<1>10. q \in Seq(Emissions) /\ Pairwise(FollowsRel, q) /\ Queue' = q \o em /\ ToSet(q) = Emitted
    BY <1>7, <1>8, <1>9, QueueShape, QueueAppends DEF Emitted
<1>11. pending' = {d \in DOMAIN caps : caps[d].class = "provider" /\ fate'[d] = "sent"}
    BY <1>3, <1>7 DEF WorkInv, BridgeExact
<1>12. /\ Settling(r)' /\ \A e \in ToSet(q) : IsAsk(e) /\ e.kind # "query" => Settling(e.run)'
       /\ \A t \in Steps' : t \in Steps
       /\ \A t \in Steps : t # Head(todo) => t \in Steps'
    BY <1>2, <1>10, InterruptedKeeps
<1>13. \A x \in Live, d \in 1..MaxCaps :
           Deliver(x, d) \in Steps /\ ~(x = r /\ d \in {c}) => Deliver(x, d) \in Steps'
  <2>1. \A x, d : Deliver(x, d).run = x /\ Deliver(x, d).id = d
    BY DEF Deliver
  <2> QED BY <1>5, <1>12, <2>1
<1>14. \A d \in {c} : IsWork(d) => \E e \in ToSet(q) : IsCancel(e) /\ e.id = d
    BY <1>6, <1>10, Zenon DEF Withdrawn
<1> QED BY <1>1, <1>3, <1>4, <1>7, <1>10, <1>11, <1>12, <1>13, <1>14, WorkActs, SMTT(30)

LEMMA AnswerWork ==
    ASSUME RunsInv, WorkInv, NEW c, Answer(c) PROVE WorkInv'
<1>1. Idle /\ batch' = batch /\ UNCHANGED <<active, requests, replied, process>>
      /\ pending' = pending \ {c} /\ fate' = [fate EXCEPT ![c] = "answered"]
    BY DEF Answer
<1>2. PICK r \in Live : /\ c \in runs[r].open /\ todo' = <<Flush, Settle(r)>>
                        /\ \E y, em : Acts(r, y, em, {c})
    BY AnswerActs
<1>3. PICK y, em : Acts(r, y, em, {c})
    BY <1>2
<1>4. Live' = Live /\ process = "up" /\ Steps = {} /\ r \in Runs
    BY <1>1, <1>3, ActsKernel, IdleFacts DEF RunsInv, Live
<1>5. Steps' = {Flush, Settle(r)}
    BY <1>2, <1>4, FlushThenSettle
<1>6. \A t \in Steps' : t.op # "deliver"
    BY <1>4, <1>5, StepFields
<1>7. Settling(r)'
    BY <1>5 DEF Settling
<1>8. em \in Seq(Emissions) /\ emits' = emits \o em
    BY <1>3 DEF Acts
<1>9. PICK q : q = Queue
    OBVIOUS
<1>10. q \in Seq(Emissions) /\ Pairwise(FollowsRel, q) /\ Queue' = q \o em /\ ToSet(q) = {}
       /\ Emitted = {}
    BY <1>1, <1>8, <1>9, QueueShape, QueueAppends, IdleQueue DEF Emitted
<1>11. fate \in [1..MaxCaps -> {"unsent", "sent", "answered", "cancelled"}] /\ c \in 1..MaxCaps
    BY <1>2, OpenKnown, LiveContext DEF RunsInv, TypeOK, WireTyped, Contexts
<1>12. /\ \A d \in 1..MaxCaps : d # c => fate'[d] = fate[d]
       /\ fate'[c] = "answered"
    BY <1>1, <1>11
<1>13. pending = {d \in DOMAIN caps : caps[d].class = "provider" /\ fate[d] = "sent"}
    BY <1>4 DEF WorkInv, BridgeExact
<1>14. DOMAIN caps \subseteq 1..MaxCaps
    BY LenProperties, BoundsAreNaturals DEF RunsInv, TypeOK, KernelTyped
<1>15. pending' = {d \in DOMAIN caps : caps[d].class = "provider" /\ fate'[d] = "sent"}
    BY <1>1, <1>12, <1>13, <1>14
<1> QED BY <1>1, <1>2, <1>3, <1>4, <1>6, <1>7, <1>10, <1>12, <1>15, WorkActs

LEMMA RefuseInvokeWork ==
    ASSUME RunsInv, WorkInv, RefuseInvoke PROVE WorkInv'
<1>1. /\ At("flush") /\ UNCHANGED host /\ batch # <<>> /\ fate' = fate
      /\ Head(batch).kind = "invoke" /\ batch' = Tail(batch)
      /\ pending' = pending \ {Head(batch).id}
    BY DEF RefuseInvoke, Refusing
<1>2. PICK r \in Live : /\ Head(batch).id \in runs[r].open
                        /\ \E y, em : Acts(r, y, em, {Head(batch).id})
    BY RefuseActs
<1>3. PICK h, c : h = Head(batch) /\ c = Head(batch).id
    OBVIOUS
<1>4. PICK y, em : Acts(r, y, em, {c})
    BY <1>2, <1>3
<1>5. process = "up" /\ UNCHANGED <<active, requests, replied, process>> /\ todo' = todo
    BY <1>1 DEF RunsInv, EndedIsOver, host
<1>6. PICK q : q = Tail(batch) \o emits
    OBVIOUS
<1>7. /\ q \in Seq(Emissions) /\ Pairwise(FollowsRel, q) /\ h \in Emissions
      /\ Emitted = {h} \cup ToSet(q) /\ \A e \in ToSet(q) : Follows(h, e)
    BY <1>1, <1>3, <1>6, QueuePops
<1>8. IsAsk(h) /\ ~IsCancel(h) /\ h.id = c /\ h \in Emitted
    BY <1>1, <1>3, <1>7 DEF IsAsk, IsCancel
<1>9. /\ fate[c] = "unsent" /\ h.run \in Live /\ Settling(h.run)
      /\ caps[c].request = runs[h.run].request
  <2>1. h.kind # "query"
    BY <1>1, <1>3
  <2> QED BY <1>5, <1>8, <2>1 DEF WorkInv, AsksPending
<1>10. h.run = r
  <2>1. caps[c].request = runs[r].request
    BY <1>2, <1>3, Zenon DEF RunsInv, TypeOK, OpenByAlive
  <2> QED BY <1>9, <2>1, OneRunPerRequest
<1>11. Steps' = Steps
    BY <1>5 DEF Steps
<1>12. \A x : Settling(x) => Settling(x)'
    BY <1>11, Zenon DEF Settling, Settle, Decide
<1>13. Settling(r)' /\ \A e \in ToSet(q) : IsAsk(e) /\ e.kind # "query" => Settling(e.run)'
  <2>1. \A e \in Emitted : IsAsk(e) /\ e.kind # "query" => Settling(e.run)
    BY <1>5 DEF WorkInv, AsksPending
  <2> QED BY <1>7, <1>9, <1>10, <1>12, <2>1
<1>14. em \in Seq(Emissions) /\ emits' = emits \o em
    BY <1>4 DEF Acts
<1>15. Queue' = q \o em
  <2>1. PICK b : b = Tail(batch)
    OBVIOUS
  <2>2. b \in Seq(Emissions) /\ emits \in Seq(Emissions)
    BY <1>1, <2>1, BatchShape DEF RunsInv, TypeOK, KernelTyped
  <2>3. Associates(Emissions)
    BY ConcatAssociates, Zenon
  <2>4. Queue' = b \o (emits \o em)
    BY <1>1, <1>14, <2>1 DEF Queue
  <2> QED BY <1>6, <1>14, <2>1, <2>2, <2>3, <2>4, Zenon DEF Associates
<1>16. \A e \in ToSet(q) : ~(IsAsk(e) /\ e.id = c)
    BY <1>7, <1>8 DEF Follows
<1>17. pending' = {d \in DOMAIN caps : caps[d].class = "provider" /\ fate'[d] = "sent"}
    BY <1>1, <1>3, <1>5, <1>9 DEF WorkInv, BridgeExact
<1>18. \A e \in Emitted : e \notin ToSet(q) => e.id \in {c} \cap runs[r].open /\ ~IsCancel(e)
    BY <1>2, <1>3, <1>7, <1>8
<1>19. \A d \in {c} \cap DOMAIN caps :
           (IsWork(d) /\ (fate'[d] = "sent" \/ \E e \in ToSet(q) : IsAsk(e) /\ e.id = d)) =>
               \E e \in ToSet(q) : IsCancel(e) /\ e.id = d
    BY <1>1, <1>9, <1>16
<1>20. ToSet(q) \subseteq Emitted
    BY <1>7
<1>21. \A e \in ToSet(em) : IsAsk(e) /\ e.kind # "query" => Settling(r)'
    BY <1>13
<1> QED BY <1>1, <1>4, <1>5, <1>7, <1>11, <1>13, <1>15, <1>17, <1>18, <1>19, <1>20, <1>21, WorkActs

LEMMA CapRequest ==
    ASSUME RunsInv, NEW c \in DOMAIN caps PROVE caps[c].request \in Requests
<1>1. caps[c] \in Capabilities
    BY ElementOfSeq, LenProperties DEF RunsInv, TypeOK, KernelTyped
<1> QED BY <1>1 DEF Capabilities

(***************************************************************************)
(* Steps that leave the kernel, the queue and the world outside as they    *)
(* are keep WorkInv, when who is owed a reply and what the program still   *)
(* does agree with it.                                                     *)
(***************************************************************************)
LEMMA WorkSame ==
    ASSUME RunsInv, WorkInv, runs' = runs, caps' = caps, fate' = fate, Queue' = Queue,
           requests' \in Nat, requests <= requests',
           process' = process \/ process' = "failed" \/ (process = "stopping" /\ process' = "stopped"),
           process' = "up" => pending' = pending,
           \A e \in Emitted : IsAsk(e) => /\ replied'[caps[e.id].request] = <<>>
                                          /\ process = "up" /\ e.kind # "query" => Settling(e.run)',
           \A t \in Steps' : t.op = "deliver" => t \in Steps,
           \A x \in Live, d \in 1..MaxCaps : Deliver(x, d) \in Steps => Deliver(x, d) \in Steps',
           \A c \in DOMAIN caps : IsWork(c) /\ fate[c] = "sent" => replied'[caps[c].request] = <<>>
    PROVE  WorkInv'
<1>1. Emitted' = Emitted /\ Live' = Live
    BY DEF Emitted, Live
<1>2. process' = "up" => process = "up"
    OBVIOUS
<1>3. AsksFirst' /\ EmissionsFit'
    BY <1>1, Zenon DEF WorkInv, AsksFirst, EmissionsFit, Fits
<1>4. AsksPending'
  <2>1. ASSUME NEW e \in Emitted, IsAsk(e)
        PROVE  /\ fate'[e.id] = "unsent"
               /\ replied'[caps'[e.id].request] = <<>>
               /\ process' # "stopping"
               /\ process' = "up" => /\ e.run \in Live' /\ (e.kind # "query" => Settling(e.run)')
                                     /\ caps'[e.id].request = runs'[e.run].request
                                     /\ caps'[e.id].actor \in runs'[e.run].alive \cup runs'[e.run].dead
    BY <1>1, <1>2, <2>1 DEF WorkInv, AsksPending
  <2> QED BY <1>1, <2>1, Zenon DEF AsksPending, IsAsk
<1>5. \A c : (Wanted(c)' => Wanted(c)) /\ (Wanted(c) => Wanted(c)')
    BY <1>1, Zenon DEF Wanted, IsAsk
<1>6. \A c : Withdrawn(c) => Withdrawn(c)'
    BY <1>1, Zenon DEF Withdrawn, IsCancel
<1>7. CancelsPending'
  <2>1. ASSUME NEW e \in Emitted, IsCancel(e), NEW r \in Live, e.id \in runs[r].open
        PROVE  Deliver(r, e.id) \in Steps'
    BY <2>1, QueueShape DEF WorkInv, CancelsPending
  <2>2. \A e \in Emitted : IsCancel(e) => fate[e.id] # "answered"
    BY DEF WorkInv, CancelsPending
  <2>3. \A t \in Steps' : t.op = "deliver" =>
            Withdrawn(t.id)' \/ (t.id \in DOMAIN caps' /\ ~IsWork(t.id)')
    BY <1>6, Zenon DEF WorkInv, CancelsPending, IsWork
  <2> QED BY <1>1, <2>1, <2>2, <2>3, Zenon DEF CancelsPending, IsCancel, Deliver
<1>8. OpenIsAsked'
  <2>1. \A r \in Live : \A c \in runs[r].open :
            fate[c] \in {"unsent", "sent"} /\ (~runs[r].outputFailed => Wanted(c)')
    BY <1>5 DEF WorkInv, OpenIsAsked
  <2> QED BY <1>1, <2>1, Zenon DEF OpenIsAsked
<1>9. WantedIsOpen'
  <2>1. \A c \in 1..MaxCaps : c \notin DOMAIN caps => fate[c] = "unsent"
    BY DEF WorkInv, WantedIsOpen
  <2>2. \A c \in DOMAIN caps : caps[c].request <= requests'
    <3> TAKE c \in DOMAIN caps
    <3>1. caps[c].request <= requests
      BY DEF WorkInv, WantedIsOpen
    <3>2. caps[c].request \in Nat /\ requests \in Nat
      <4>1. caps[c].request \in Requests /\ requests \in 0..MaxRequests
        BY CapRequest DEF RunsInv, TypeOK, HostTyped
      <4> QED BY <4>1, BoundsAreNaturals DEF Requests
    <3> QED BY <3>1, <3>2
  <2>3. \A c : Waiting(c)' = Waiting(c)
    BY <1>1 DEF Waiting
  <2>4. process' \in {"up", "stopping", "stopped"} => process \in {"up", "stopping", "stopped"}
    OBVIOUS
  <2>5. ASSUME NEW c \in DOMAIN caps, IsWork(c), Wanted(c)', process' \in {"up", "stopping", "stopped"}
        PROVE  Waiting(c)' # {} \/ Withdrawn(c)'
    <3>1. Wanted(c) /\ process \in {"up", "stopping", "stopped"}
      BY <1>5, <2>4, <2>5, Zenon
    <3>2. Waiting(c) # {} \/ Withdrawn(c)
      BY <2>5, <3>1 DEF WorkInv, WantedIsOpen
    <3> QED BY <1>6, <2>3, <3>2
  <2> QED BY <2>1, <2>2, <2>5, Zenon DEF WantedIsOpen, IsWork
<1>10. BridgeExact'
    BY <1>2 DEF WorkInv, BridgeExact
<1>11. NothingOutlivesItsRun'
    BY DEF NothingOutlivesItsRun, IsWork
<1> QED BY <1>3, <1>4, <1>7, <1>8, <1>9, <1>10, <1>11 DEF WorkInv

(* Nothing queued, nobody to deliver to: only the replies matter. *)
LEMMA WorkQuiet ==
    ASSUME RunsInv, WorkInv, UNCHANGED kernel, UNCHANGED <<fate, batch, pending, process>>,
           batch = <<>>, emits = <<>>, requests' \in Nat, requests <= requests',
           \A t \in Steps \cup Steps' : t.op # "deliver",
           \A c \in DOMAIN caps : IsWork(c) /\ fate[c] = "sent" => replied'[caps[c].request] = <<>>
    PROVE  WorkInv'
<1>1. Queue = <<>> /\ Queue' = <<>> /\ runs' = runs /\ caps' = caps
    BY DEF Queue, kernel
<1>2. Emitted = {}
    BY <1>1 DEF Emitted, ToSet
<1>3. \A x, d : Deliver(x, d) \notin Steps
    BY DEF Deliver
<1> QED BY <1>1, <1>2, <1>3, WorkSame

(* An interrupt is delivered before any step that counts on an empty queue. *)
LEMMA QuietUndelivered ==
    ASSUME RunsInv, Idle \/ \E op \in Quiet : At(op)
    PROVE  \A t \in Steps : t.op # "deliver"
<1>1. CASE Idle
    BY <1>1, IdleFacts
<1>2. CASE \E op \in Quiet : At(op)
  <2>1. PICK op \in Quiet : At(op)
    BY <1>2
  <2>2. /\ Head(todo).op \in Quiet /\ Steps = {Head(todo)} \cup Rest
        /\ \A b \in Rest : Ordered(Head(todo), b)
    BY <2>1, AtFacts
  <2> QED BY <2>2 DEF Quiet, Ordered
<1> QED BY <1>1, <1>2

(* Before a step, whoever has work sent has had no reply. *)
LEMMA SentUnreplied ==
    ASSUME WorkInv
    PROVE  \A c \in DOMAIN caps : IsWork(c) /\ fate[c] = "sent" => replied[caps[c].request] = <<>>
BY DEF WorkInv, NothingOutlivesItsRun

LEMMA RequestsNat ==
    ASSUME RunsInv PROVE requests \in Nat /\ requests <= requests
<1>1. requests \in 0..MaxRequests
    BY DEF RunsInv, TypeOK, HostTyped
<1> QED BY <1>1, BoundsAreNaturals

LEMMA KillsWork ==
    ASSUME RunsInv, WorkInv, KillAllRuns \/ \E r \in Runs : KillRun(r) \/ TerminateRun(r)
    PROVE  WorkInv'
<1>1. Idle /\ UNCHANGED kernel /\ UNCHANGED <<fate, batch, pending, process, replied, requests>>
    BY DEF KillAllRuns, KillRun, TerminateRun, wire
<1>2. \A t \in Steps' : t.op # "deliver"
  <2>1. CASE KillAllRuns
    <3>1. \A t \in Steps' : \E r \in Runs : t = End(r, "killed")
      BY <2>1, KillAllSteps DEF Live
    <3> QED BY <3>1, StepFields
  <2>2. ASSUME NEW r \in Runs, KillRun(r) \/ TerminateRun(r) PROVE \A t \in Steps' : t.op # "deliver"
    <3>1. PICK a : a \in {End(r, "killed"), End(r, "failed")} /\ todo' = <<a>>
      BY <2>2 DEF KillRun, TerminateRun
    <3>2. a \in Steplike /\ a.op = "end"
      BY <3>1, StepFields
    <3>3. Steps' = {a}
      BY <3>1, <3>2, ProgramOfOne
    <3> QED BY <3>2, <3>3
  <2> QED BY <2>1, <2>2
<1> QED BY <1>1, <1>2, IdleFacts, QuietUndelivered, SentUnreplied, RequestsNat, WorkQuiet

LEMMA RejectExecuteWork ==
    ASSUME RunsInv, WorkInv, RejectExecute PROVE WorkInv'
<1>1. /\ Idle /\ UNCHANGED kernel /\ UNCHANGED <<fate, batch, pending, process, todo>>
      /\ requests < MaxRequests /\ requests' = requests + 1
      /\ replied' = [replied EXCEPT ![requests'] = <<"rejected">>]
    BY DEF RejectExecute, wire
<1>2. requests' \in Nat /\ requests <= requests' /\ requests \in Nat
    BY <1>1, RequestsNat
<1>3. Steps' = {}
    BY <1>1, IdleFacts DEF Steps
<1>4. \A c \in DOMAIN caps : IsWork(c) /\ fate[c] = "sent" => replied'[caps[c].request] = <<>>
  <2> TAKE c \in DOMAIN caps
  <2> HAVE IsWork(c) /\ fate[c] = "sent"
  <2>1. replied[caps[c].request] = <<>> /\ caps[c].request <= requests
    BY SentUnreplied DEF WorkInv, WantedIsOpen
  <2>2. caps[c].request \in Requests
    BY CapRequest
  <2>3. caps[c].request # requests'
    BY <1>1, <1>2, <2>1, <2>2, BoundsAreNaturals DEF Requests
  <2>4. replied \in [Requests -> Seq(Statuses)]
    BY DEF RunsInv, TypeOK, HostTyped
  <2> QED BY <1>1, <2>1, <2>2, <2>3, <2>4
<1> QED BY <1>1, <1>2, <1>3, <1>4, IdleFacts, QuietUndelivered, WorkQuiet

LEMMA ExecuteDuplicateWork ==
    ASSUME RunsInv, WorkInv, NEW r \in Runs, ExecuteDuplicate(r) PROVE WorkInv'
<1>1. /\ Idle /\ UNCHANGED kernel /\ UNCHANGED <<fate, batch, pending, process, replied>>
      /\ requests < MaxRequests /\ requests' = requests + 1
    BY DEF ExecuteDuplicate, wire
<1>2. PICK n : n = requests'
    OBVIOUS
<1>3. n \in Requests /\ n \in Nat /\ requests <= n
    BY <1>1, <1>2, NextRequest, RequestsNat
<1>4. PICK a : a = Reply(n, "failed")
    OBVIOUS
<1>5. a \in Steplike /\ a.op = "reply" /\ todo' = <<a>>
    BY <1>2, <1>3, <1>4, StepFields DEF ExecuteDuplicate
<1>6. Steps' = {a}
    BY <1>5, ProgramOfOne
<1> QED BY <1>1, <1>2, <1>3, <1>5, <1>6, IdleFacts, QuietUndelivered, SentUnreplied, WorkQuiet

LEMMA UndecidedWork ==
    ASSUME RunsInv, WorkInv, Undecided PROVE WorkInv'
<1>1. At("decide") /\ UNCHANGED kernel /\ UNCHANGED <<fate, batch, pending, process, replied, requests>>
    BY DEF Undecided, wire
<1>2. Steps' = Rest /\ batch = <<>> /\ emits = <<>>
    BY UndecidedSteps
<1>3. \A b \in Rest : Ordered(Head(todo), b) /\ Head(todo).op = "decide"
    BY <1>1, AtFacts
<1>4. \A t \in Steps' : t.op # "deliver"
    BY <1>2, <1>3 DEF Ordered
<1>5. \A t \in Steps : t.op # "deliver"
    BY <1>1, QuietUndelivered DEF Quiet
<1> QED BY <1>1, <1>2, <1>4, <1>5, SentUnreplied, RequestsNat, WorkQuiet

LEMMA SettleReapedWork ==
    ASSUME RunsInv, WorkInv, SettleReaped PROVE WorkInv'
<1>1. At("reaped") /\ UNCHANGED kernel /\ UNCHANGED <<fate, batch, pending, process, replied, requests>>
    BY DEF SettleReaped, wire
<1>2. PICK r : r = Head(todo).run
    OBVIOUS
<1>3. /\ active[r] \in Requests /\ Steps' = {Reply(active[r], "failed")} \cup Rest
      /\ \A b \in Rest : b.op # "deliver"
    BY <1>2, SettleReapedSteps
<1>4. \A t \in Steps' : t.op # "deliver"
    BY <1>3, StepFields
<1>5. batch = <<>> /\ emits = <<>>
    BY <1>1, AtFacts DEF Quiet
<1>6. \A t \in Steps : t.op # "deliver"
    BY <1>1, QuietUndelivered DEF Quiet
<1> QED BY <1>1, <1>4, <1>5, <1>6, SentUnreplied, RequestsNat, WorkQuiet

(* When an execute is answered nothing its run asked for is worked on: a   *)
(* waiter would be a run that is still owed this reply.                    *)
LEMMA SendReplyWork ==
    ASSUME RunsInv, WorkInv, SendReply PROVE WorkInv'
<1>1. At("reply") /\ UNCHANGED kernel /\ UNCHANGED <<fate, batch, pending, process, requests>>
      /\ Then(<<>>)
    BY DEF SendReply
<1>2. PICK q : q = Head(todo).request
    OBVIOUS
<1>3. /\ batch = <<>> /\ emits = <<>> /\ process = "up" /\ StepSound(Head(todo))
      /\ Head(todo).op = "reply" /\ Head(todo) \in Steplike /\ HostTyped /\ ProgramOrdered
      /\ todo # <<>> /\ \A b \in Rest : Ordered(Head(todo), b)
    BY <1>1, AtFacts DEF Quiet
<1>4. q \in Requests /\ \A x \in Runs : active[x] # q
    BY <1>2, <1>3, StepKinds DEF StepSound
<1>5. Emitted = {}
  <2>1. Queue = <<>>
    BY <1>3 DEF Queue
  <2> QED BY <2>1 DEF Emitted, ToSet
<1>6. \A t \in Steps' : t.op # "deliver"
    BY <1>1, <1>3, ThenNothing DEF Ordered
<1>7. \A n \in Requests : n # q => replied'[n] = replied[n]
    BY <1>2, <1>3, <1>4 DEF SendReply, HostTyped
<1>8. \A c \in DOMAIN caps : IsWork(c) /\ fate[c] = "sent" => replied'[caps[c].request] = <<>>
  <2> TAKE c \in DOMAIN caps
  <2> HAVE IsWork(c) /\ fate[c] = "sent"
  <2>1. caps[c].request \in Requests /\ replied[caps[c].request] = <<>>
    BY CapRequest, SentUnreplied
  <2>2. Waiting(c) # {}
    BY <1>3, <1>5 DEF WorkInv, WantedIsOpen, Wanted, Withdrawn
  <2>3. PICK x \in Live : c \in runs[x].open
    BY <2>2 DEF Waiting
  <2>4. caps[c].request = runs[x].request /\ active[x] = runs[x].request /\ x \in Runs
    BY <2>3 DEF RunsInv, TypeOK, OpenByAlive, RepliesOwed, Live
  <2>5. caps[c].request # q
    BY <1>4, <2>4
  <2> QED BY <1>7, <2>1, <2>5
<1>9. \A t \in Steps : t.op # "deliver"
    BY <1>1, QuietUndelivered DEF Quiet
<1> QED BY <1>1, <1>3, <1>6, <1>8, <1>9, RequestsNat, WorkQuiet

LEMMA DrainWork ==
    ASSUME RunsInv, WorkInv, Drain PROVE WorkInv'
<1>1. /\ batch = <<>> /\ batch' = emits /\ emits' = <<>> /\ runs' = runs /\ caps' = caps
      /\ fate' = fate /\ pending' = pending /\ UNCHANGED host
    BY DEF Drain
<1>2. emits \in Seq(Emissions)
    BY DEF RunsInv, TypeOK, KernelTyped
<1>3. Queue' = Queue
    BY <1>1, <1>2 DEF Queue
<1>4. todo' = todo /\ requests' = requests /\ replied' = replied /\ process' = process
    BY <1>1 DEF host
<1>5. Steps' = Steps
    BY <1>4 DEF Steps
<1>6. \A x : Settling(x) => Settling(x)'
    BY <1>5, Zenon DEF Settling, Settle, Decide
<1>7. \A e \in Emitted : IsAsk(e) => /\ replied'[caps[e.id].request] = <<>>
                                     /\ process = "up" /\ e.kind # "query" => Settling(e.run)'
    BY <1>4, <1>6 DEF WorkInv, AsksPending
<1> QED BY <1>1, <1>3, <1>4, <1>5, <1>7, RequestsNat, SentUnreplied, WorkSame

(* No interrupt is delivered after a flush. *)
LEMMA FlushUndelivered ==
    ASSUME RunsInv, WorkInv, At("flush")
    PROVE  /\ \A t \in Steps : t.op # "deliver"
           /\ \A e \in Emitted : IsCancel(e) => \A r \in Live : e.id \notin runs[r].open
<1>1. /\ Steps = {Head(todo)} \cup Rest /\ Head(todo).op = "flush"
      /\ \A b \in Rest : Ordered(Head(todo), b)
    BY AtFacts
<1>2. \A t \in Steps : t.op # "deliver"
    BY <1>1 DEF Ordered
<1>3. \A x, d : Deliver(x, d) \notin Steps
    BY <1>2 DEF Deliver
<1> QED BY <1>2, <1>3 DEF WorkInv, CancelsPending

LEMMA DrainedWork ==
    ASSUME RunsInv, WorkInv, Drained PROVE WorkInv'
<1>1. /\ At("flush") /\ batch = <<>> /\ emits = <<>> /\ batch' = batch /\ emits' = emits
      /\ runs' = runs /\ caps' = caps /\ fate' = fate /\ Then(<<>>)
      /\ requests' = requests /\ replied' = replied
    BY DEF Drained, kernel
<1>2. Queue' = Queue /\ Queue = <<>>
    BY <1>1 DEF Queue
<1>3. Emitted = {}
    BY <1>2 DEF Emitted, ToSet
<1>4. Steps' = Rest /\ Steps = {Head(todo)} \cup Rest
    BY <1>1, AtFacts, ThenNothing
<1>5. \A t \in Steps : t.op # "deliver"
    BY <1>1, FlushUndelivered
<1>6. \A x, d : Deliver(x, d) \notin Steps
    BY <1>5 DEF Deliver
<1>7. /\ process' = process \/ process' = "failed" \/ (process = "stopping" /\ process' = "stopped")
      /\ process' = "up" => pending' = pending
    BY DEF Drained
<1> QED BY <1>1, <1>2, <1>3, <1>4, <1>6, <1>7, RequestsNat, SentUnreplied, WorkSame

LEMMA SettleRunWork ==
    ASSUME RunsInv, WorkInv, SettleRun \/ StartWithoutOutput PROVE WorkInv'
<1>1. /\ UNCHANGED <<kernel, wire>>
      /\ UNCHANGED <<requests, replied, process>>
    BY DEF SettleRun, StartWithoutOutput
<1>2. /\ runs' = runs /\ caps' = caps /\ batch' = batch /\ emits' = emits /\ fate' = fate
      /\ pending' = pending
    BY DEF SettleRun, StartWithoutOutput, kernel, wire
<1>3. PICK r : r = Head(todo).run
    OBVIOUS
<1>4. PICK s : /\ s \in {Settle(r), Decide(r)} /\ s \in Steps' /\ Rest \subseteq Steps'
               /\ \A t \in Steps' : t \in Rest \/ t = s \/ t = Flush
               /\ Head(todo) = Settle(r) \/ Head(todo) = Start(r)
  <2>1. CASE SettleRun
    BY <1>3, <2>1, SettleRunSteps
  <2>2. CASE StartWithoutOutput
    BY <1>3, <2>2, StartedSteps
  <2> QED BY <2>1, <2>2
<1>5. Steps = {Head(todo)} \cup Rest
    BY AtFacts DEF SettleRun, StartWithoutOutput
<1>6. s.op # "deliver" /\ Flush.op # "deliver" /\ Head(todo).op # "deliver"
    BY <1>4 DEF Settle, Decide, Start, Flush
<1>7. \A x, d : Deliver(x, d) # Head(todo)
    BY <1>6 DEF Deliver
<1>8. \A x : Settling(x) => Settling(x)'
  <2>1. Settling(r)'
    BY <1>4, Zenon DEF Settling, Settle, Decide
  <2>2. \A x : x # r => Settle(x) # Head(todo)
    BY <1>4 DEF Settle, Start
  <2>3. \A x : Decide(x) # Head(todo)
    BY <1>4 DEF Settle, Start, Decide
  <2>4. \A x : x # r /\ Settling(x) => Settling(x)'
    BY <1>4, <1>5, <2>2, <2>3, Zenon DEF Settling, Settle, Decide
  <2> QED BY <2>1, <2>4
<1>9. \A e \in Emitted : IsAsk(e) => /\ replied'[caps[e.id].request] = <<>>
                                     /\ process = "up" /\ e.kind # "query" => Settling(e.run)'
    BY <1>1, <1>8 DEF WorkInv, AsksPending
<1>10. Queue' = Queue
    BY <1>2 DEF Queue
<1>11. /\ \A t \in Steps' : t.op = "deliver" => t \in Steps
       /\ \A x \in Live, d \in 1..MaxCaps : Deliver(x, d) \in Steps => Deliver(x, d) \in Steps'
    BY <1>4, <1>5, <1>6, <1>7
<1> QED BY <1>1, <1>2, <1>9, <1>10, <1>11, RequestsNat, SentUnreplied, WorkSame

(***************************************************************************)
(* One emission of a flush is sent, withheld or refused.  No interrupt is  *)
(* waiting to be delivered, so what is being cancelled nobody waits for; a *)
(* request that does not leave fails the output of the run that made it.   *)
(***************************************************************************)
LEMMA WorkPops ==
    ASSUME RunsInv, WorkInv, At("flush"), batch # <<>>, batch' = Tail(batch), UNCHANGED host,
           caps' = caps, emits' = emits, Live' = Live, NEW h, h = Head(batch),
           \A x \in Live : /\ runs'[x].open = runs[x].open /\ runs'[x].request = runs[x].request
                           /\ runs'[x].alive = runs[x].alive /\ runs'[x].dead = runs[x].dead
                           /\ ~runs'[x].outputFailed => ~runs[x].outputFailed,
           \A c \in 1..MaxCaps : ~(c = h.id /\ (IsAsk(h) \/ IsCancel(h))) => fate'[c] = fate[c],
           IsAsk(h) => \/ fate'[h.id] = "sent"
                       \/ /\ fate'[h.id] = fate[h.id]
                          /\ h.run \in Live => runs'[h.run].outputFailed,
           IsCancel(h) => fate'[h.id] = "cancelled",
           process = "up" =>
               pending' = {c \in DOMAIN caps : caps[c].class = "provider" /\ fate'[c] = "sent"}
    PROVE  WorkInv'
<1>1. /\ todo' = todo /\ requests' = requests /\ replied' = replied /\ process' = process
      /\ Steps' = Steps
    BY DEF host, Steps
<1>2. PICK q : q = Tail(batch) \o emits
    OBVIOUS
<1>3. /\ q \in Seq(Emissions) /\ Pairwise(FollowsRel, q) /\ h \in Emissions
      /\ Emitted = {h} \cup ToSet(q) /\ \A e \in ToSet(q) : Follows(h, e)
    BY <1>2, QueuePops
<1>4. Queue' = q /\ Emitted' = ToSet(q) /\ h \in Emitted
    BY <1>2, <1>3 DEF Queue, Emitted
<1>5. AsksFirst'
    BY <1>3, <1>4, FollowsPairwise DEF AsksFirst
<1>6. EmissionsFit'
  <2>1. \A e \in ToSet(q) : Fits(e, caps)
    BY <1>3 DEF WorkInv, EmissionsFit
  <2> QED BY <1>4, <2>1, Zenon DEF EmissionsFit, Fits
<1>7. \A e \in Emitted : IsAsk(e) \/ IsCancel(e) => e.id \in DOMAIN caps /\ e.id \in 1..MaxCaps
    BY QueueShape
<1>8. \A t \in Steps : t.op # "deliver"
    BY FlushUndelivered
<1>9. \A e \in Emitted : IsCancel(e) => \A r \in Live : e.id \notin runs[r].open
    BY FlushUndelivered
<1>10. ~(IsAsk(h) /\ IsCancel(h))
    BY DEF IsAsk, IsCancel
<1>11. IsAsk(h) => /\ fate[h.id] = "unsent" /\ replied[caps[h.id].request] = <<>>
                   /\ process = "up" => /\ h.run \in Live
                                        /\ caps[h.id].request = runs[h.run].request
    BY <1>4 DEF WorkInv, AsksPending
<1>12. DOMAIN caps \subseteq 1..MaxCaps
    BY LenProperties, BoundsAreNaturals DEF RunsInv, TypeOK, KernelTyped
<1>13. \A e \in ToSet(q) : IsAsk(e) => ~(h.id = e.id /\ (IsAsk(h) \/ IsCancel(h)))
    BY <1>3 DEF Follows
<1>14. AsksPending'
  <2>1. ASSUME NEW e \in ToSet(q), IsAsk(e)
        PROVE  /\ fate'[e.id] = "unsent"
               /\ replied'[caps'[e.id].request] = <<>>
               /\ process' # "stopping"
               /\ process' = "up" => /\ e.run \in Live' /\ (e.kind # "query" => Settling(e.run))
                                     /\ caps'[e.id].request = runs'[e.run].request
                                     /\ caps'[e.id].actor \in runs'[e.run].alive \cup runs'[e.run].dead
    <3>1. /\ fate[e.id] = "unsent" /\ replied[caps[e.id].request] = <<>> /\ process # "stopping"
          /\ process = "up" => /\ e.run \in Live /\ (e.kind # "query" => Settling(e.run))
                               /\ caps[e.id].request = runs[e.run].request
                               /\ caps[e.id].actor \in runs[e.run].alive \cup runs[e.run].dead
      BY <1>3, <2>1 DEF WorkInv, AsksPending
    <3>2. fate'[e.id] = fate[e.id]
      BY <1>3, <1>7, <1>13, <2>1
    <3> QED BY <1>1, <3>1, <3>2
  <2>2. \A x : Settling(x) => Settling(x)'
    BY <1>1, Zenon DEF Settling, Settle, Decide
  <2> QED BY <1>4, <2>1, <2>2, Zenon DEF AsksPending, IsAsk
<1>15. CancelsPending'
  <2>1. ASSUME NEW e \in ToSet(q), IsCancel(e)
        PROVE  fate'[e.id] # "answered" /\ \A r \in Live' : e.id \notin runs'[r].open
    <3>1. fate[e.id] # "answered" /\ e.id \in 1..MaxCaps
      BY <1>3, <1>7, <2>1 DEF WorkInv, CancelsPending
    <3>2. \A r \in Live : e.id \notin runs[r].open
      BY <1>3, <1>9, <2>1
    <3>3. fate'[e.id] # "answered"
      BY <1>11, <3>1
    <3> QED BY <3>2, <3>3
  <2> QED BY <1>1, <1>4, <1>8, <2>1, Zenon DEF CancelsPending, IsCancel
<1>16. OpenIsAsked'
  <2>1. ASSUME NEW r \in Live, NEW c \in runs[r].open
        PROVE  /\ fate'[c] \in {"unsent", "sent"}
               /\ ~runs'[r].outputFailed =>
                      (fate'[c] = "sent" \/ \E e \in ToSet(q) : IsAsk(e) /\ e.id = c)
    <3>1. /\ fate[c] \in {"unsent", "sent"} /\ (~runs[r].outputFailed => Wanted(c))
          /\ c \in DOMAIN caps /\ caps[c].request = runs[r].request /\ c \in 1..MaxCaps
      BY <1>12 DEF WorkInv, OpenIsAsked, RunsInv, TypeOK, OpenByAlive
    <3>2. ~(IsCancel(h) /\ c = h.id)
      BY <1>4, <1>9
    <3>3. CASE IsAsk(h) /\ c = h.id
      <4>1. process = "up"
        BY DEF RunsInv, EndedIsOver
      <4>2. h.run \in Live /\ runs[h.run].request = runs[r].request
        BY <1>11, <3>1, <3>3, <4>1
      <4>3. h.run = r
        BY <4>2, OneRunPerRequest
      <4> QED BY <1>11, <3>3, <4>2, <4>3
    <3>4. CASE ~(IsAsk(h) /\ c = h.id)
      <4>1. fate'[c] = fate[c]
        BY <3>1, <3>2, <3>4
      <4>2. ASSUME NEW e \in Emitted, IsAsk(e), e.id = c PROVE e \in ToSet(q)
        BY <1>3, <3>4, <4>2
      <4> QED BY <3>1, <4>1, <4>2 DEF Wanted
    <3> QED BY <3>3, <3>4
  <2>2. \A r \in Live : runs'[r].open = runs[r].open
    OBVIOUS
  <2> QED BY <1>4, <2>1, <2>2, Zenon DEF OpenIsAsked, Wanted, IsAsk
<1>17. WantedIsOpen'
  <2>1. \A c \in 1..MaxCaps : c \notin DOMAIN caps => fate'[c] = "unsent"
    BY <1>4, <1>7 DEF WorkInv, WantedIsOpen
  <2>2. \A c \in DOMAIN caps : caps[c].request <= requests
    BY DEF WorkInv, WantedIsOpen
  <2>3. ASSUME NEW c \in DOMAIN caps, IsWork(c), process \in {"up", "stopping", "stopped"},
               fate'[c] = "sent" \/ \E e \in ToSet(q) : IsAsk(e) /\ e.id = c
        PROVE  (\E r \in Live : c \in runs[r].open) \/ \E e \in ToSet(q) : IsCancel(e) /\ e.id = c
    <3>1. ~(IsCancel(h) /\ c = h.id)
      BY <1>13, <2>3
    <3>2. Wanted(c)
      <4>1. CASE \E e \in ToSet(q) : IsAsk(e) /\ e.id = c
        BY <1>3, <4>1 DEF Wanted
      <4>2. CASE fate'[c] = "sent" /\ ~(c = h.id /\ IsAsk(h))
        BY <1>12, <3>1, <4>2 DEF Wanted
      <4>3. CASE c = h.id /\ IsAsk(h)
        BY <1>4, <4>3 DEF Wanted
      <4> QED BY <2>3, <4>1, <4>2, <4>3
    <3>3. Waiting(c) # {} \/ Withdrawn(c)
      BY <2>3, <3>2 DEF WorkInv, WantedIsOpen
    <3>4. CASE Waiting(c) # {}
      BY <3>4 DEF Waiting
    <3>5. CASE Withdrawn(c)
      BY <1>3, <3>1, <3>5 DEF Withdrawn
    <3> QED BY <3>3, <3>4, <3>5
  <2>4. \A c : (\E r \in Live : c \in runs[r].open) => Waiting(c)' # {}
    BY DEF Waiting
  <2> QED BY <1>1, <1>4, <2>1, <2>2, <2>3, <2>4, Zenon DEF WantedIsOpen, Wanted, Withdrawn, IsAsk, IsCancel, IsWork
<1>18. BridgeExact'
    BY <1>1 DEF BridgeExact
<1>19. NothingOutlivesItsRun'
  <2>1. ASSUME NEW c \in DOMAIN caps, IsWork(c), fate'[c] = "sent" PROVE replied[caps[c].request] = <<>>
    BY <1>11, <1>12, <2>1, SentUnreplied
  <2> QED BY <1>1, <2>1 DEF NothingOutlivesItsRun, IsWork
<1> QED BY <1>5, <1>6, <1>14, <1>15, <1>16, <1>17, <1>18, <1>19 DEF WorkInv

LEMMA WithholdWork ==
    ASSUME RunsInv, WorkInv, Withhold PROVE WorkInv'
<1>1. /\ At("flush") /\ batch # <<>> /\ batch' = Tail(batch) /\ UNCHANGED host /\ runs' = runs
      /\ caps' = caps /\ emits' = emits /\ fate' = fate /\ pending' = pending
      /\ Withheld(Head(batch))
    BY DEF Withhold, kernel
<1>2. PICK h : h = Head(batch)
    OBVIOUS
<1>3. ~IsCancel(h) /\ runs'[h.run].outputFailed
    BY <1>1, <1>2, Zenon DEF Withheld
<1>4. Live' = Live
    BY <1>1 DEF Live
<1>5. process = "up" =>
          pending' = {c \in DOMAIN caps : caps[c].class = "provider" /\ fate'[c] = "sent"}
    BY <1>1 DEF WorkInv, BridgeExact
<1> QED BY <1>1, <1>2, <1>3, <1>4, <1>5, WorkPops

LEMMA RefuseEventWork ==
    ASSUME RunsInv, WorkInv, RefuseEvent PROVE WorkInv'
<1>1. /\ At("flush") /\ batch # <<>> /\ batch' = Tail(batch) /\ UNCHANGED host
      /\ caps' = caps /\ emits' = emits /\ fate' = fate /\ pending' = pending
      /\ Head(batch).kind \notin {"invoke", "cancel", "compactCancel"} /\ Head(batch).run \in Live
      /\ runs' = [runs EXCEPT ![Head(batch).run].outputFailed = TRUE]
    BY DEF RefuseEvent, Refusing
<1>2. PICK h, r : h = Head(batch) /\ r = Head(batch).run
    OBVIOUS
<1>3. ~IsCancel(h) /\ r \in Live /\ r \in Runs /\ KernelTyped
    BY <1>1, <1>2 DEF IsCancel, Live, RunsInv, TypeOK
<1>4. PICK y : y = [runs[r] EXCEPT !.outputFailed = TRUE]
    OBVIOUS
<1>5. runs[r] \in Contexts /\ y \in Contexts /\ y.open = runs[r].open /\ y.request = runs[r].request
      /\ y.outputFailed /\ y.alive = runs[r].alive /\ y.dead = runs[r].dead
    BY <1>3, <1>4, LiveContext DEF Contexts
<1>6. runs' = [runs EXCEPT ![r] = y]
    BY <1>1, <1>2, <1>4
<1>7. Live' = Live /\ runs'[r] = y /\ \A x \in Runs : x # r => runs'[x] = runs[x]
    BY <1>3, <1>5, <1>6, LiveKept
<1>8. \A x \in Live : /\ runs'[x].open = runs[x].open /\ runs'[x].request = runs[x].request
                      /\ runs'[x].alive = runs[x].alive /\ runs'[x].dead = runs[x].dead
                      /\ ~runs'[x].outputFailed => ~runs[x].outputFailed
    BY <1>5, <1>7 DEF Live
<1>9. process = "up" =>
          pending' = {c \in DOMAIN caps : caps[c].class = "provider" /\ fate'[c] = "sent"}
    BY <1>1 DEF WorkInv, BridgeExact
<1>10. runs'[h.run].outputFailed
    BY <1>2, <1>5, <1>7
<1> QED BY <1>1, <1>2, <1>3, <1>7, <1>8, <1>9, <1>10, WorkPops

LEMMA SendShape ==
    ASSUME RunsInv, WorkInv, Send, NEW h, h = Head(batch)
    PROVE  /\ h \in Emitted /\ h \in Emissions /\ Fits(h, caps)
           /\ IsAsk(h) \/ IsCancel(h) => h.id \in 1..MaxCaps /\ h.id \in DOMAIN caps
           /\ \A c \in 1..MaxCaps : ~(c = h.id /\ (IsAsk(h) \/ IsCancel(h))) => fate'[c] = fate[c]
           /\ IsAsk(h) => fate'[h.id] = "sent"
           /\ IsCancel(h) => fate'[h.id] = "cancelled"
<1>1. batch # <<>> /\ fate' = Told(h)
    BY DEF Send
<1>2. PICK q : q = Tail(batch) \o emits
    OBVIOUS
<1>3. h \in Emissions /\ h \in Emitted
    BY <1>1, <1>2, QueuePops
<1>4. Fits(h, caps)
    BY <1>3 DEF WorkInv, EmissionsFit
<1>5. IsAsk(h) \/ IsCancel(h) => h.id \in 1..MaxCaps /\ h.id \in DOMAIN caps
    BY <1>3, QueueShape
<1>6. fate \in [1..MaxCaps -> {"unsent", "sent", "answered", "cancelled"}]
    BY DEF RunsInv, TypeOK, WireTyped
<1>7. CASE IsAsk(h)
  <2>1. fate' = [fate EXCEPT ![h.id] = "sent"] /\ ~IsCancel(h)
    BY <1>1, <1>7 DEF Told, IsAsk, IsCancel
  <2> QED BY <1>3, <1>4, <1>5, <1>6, <1>7, <2>1
<1>8. CASE IsCancel(h)
  <2>1. fate' = [fate EXCEPT ![h.id] = "cancelled"] /\ ~IsAsk(h)
    BY <1>1, <1>8 DEF Told, IsAsk, IsCancel
  <2> QED BY <1>3, <1>4, <1>5, <1>6, <1>8, <2>1
<1>9. CASE ~IsAsk(h) /\ ~IsCancel(h)
  <2>1. fate' = fate
    BY <1>1, <1>9 DEF Told, IsAsk, IsCancel
  <2> QED BY <1>3, <1>4, <1>9, <2>1
<1> QED BY <1>7, <1>8, <1>9

LEMMA SendWork ==
    ASSUME RunsInv, WorkInv, Send PROVE WorkInv'
<1>1. /\ At("flush") /\ batch # <<>> /\ batch' = Tail(batch) /\ UNCHANGED host /\ runs' = runs
      /\ caps' = caps /\ emits' = emits
    BY DEF Send, kernel
<1>2. PICK h : h = Head(batch)
    OBVIOUS
<1>3. /\ h \in Emissions /\ Fits(h, caps)
      /\ IsAsk(h) \/ IsCancel(h) => h.id \in 1..MaxCaps /\ h.id \in DOMAIN caps
      /\ \A c \in 1..MaxCaps : ~(c = h.id /\ (IsAsk(h) \/ IsCancel(h))) => fate'[c] = fate[c]
      /\ IsAsk(h) => fate'[h.id] = "sent"
      /\ IsCancel(h) => fate'[h.id] = "cancelled"
    BY <1>2, SendShape
<1>4. pending' = Translated(h)
    BY <1>2 DEF Send
<1>5. DOMAIN caps \subseteq 1..MaxCaps
    BY LenProperties, BoundsAreNaturals DEF RunsInv, TypeOK, KernelTyped
<1>6. ASSUME process = "up"
      PROVE  pending' = {c \in DOMAIN caps : caps[c].class = "provider" /\ fate'[c] = "sent"}
  <2>1. pending = {c \in DOMAIN caps : caps[c].class = "provider" /\ fate[c] = "sent"}
    BY <1>6 DEF WorkInv, BridgeExact
  <2>2. CASE h.kind = "invoke" /\ caps[h.id].class = "provider"
    <3>1. pending' = pending \cup {h.id} /\ IsAsk(h)
      BY <1>4, <2>2 DEF Translated, IsAsk
    <3> QED BY <1>3, <1>5, <2>1, <2>2, <3>1
  <2>3. CASE h.kind = "cancel"
    <3>1. pending' = pending \ {h.id} /\ IsCancel(h)
      BY <1>4, <2>3 DEF Translated, IsCancel
    <3> QED BY <1>3, <1>5, <2>1, <3>1
  <2>4. CASE ~(h.kind = "invoke" /\ caps[h.id].class = "provider") /\ h.kind # "cancel"
    <3>1. pending' = pending
      BY <1>4, <2>4 DEF Translated
    <3>2. IsAsk(h) \/ IsCancel(h) => caps[h.id].class # "provider"
      BY <1>3, <2>4 DEF Fits, IsAsk, IsCancel
    <3> QED BY <1>3, <1>5, <2>1, <3>1, <3>2
  <2> QED BY <2>2, <2>3, <2>4
<1>7. Live' = Live
    BY <1>1 DEF Live
<1> QED BY <1>1, <1>2, <1>3, <1>6, <1>7, WorkPops

(***************************************************************************)
(* Ending runs, and interrupting one: cancellations are emitted for what   *)
(* is open in the runs that end, or whose interruption will be delivered.  *)
(***************************************************************************)
LEMMA NoAsksFollow ==
    ASSUME NEW em \in Seq(Emissions), \A e \in ToSet(em) : ~IsAsk(e)
    PROVE  Pairwise(FollowsRel, em) /\ \A a, b : b \in ToSet(em) => Follows(a, b)
<1>1. \A k \in 1..Len(em) : em[k] \in ToSet(em)
    BY ToSetByIndex
<1>2. \A a, b : b \in ToSet(em) => Follows(a, b)
    BY DEF Follows
<1> QED BY <1>1, <1>2, FollowsPairwise

LEMMA WorkTorn ==
    ASSUME RunsInv, WorkInv, process = "up", caps' = caps, fate' = fate, replied' = replied,
           requests' \in Nat, requests <= requests',
           process' \in {"up", "stopping", "aborting"}, process' = "up" => pending' = pending,
           process' = "aborting" => Live' = {},
           NEW em \in Seq(Emissions), NEW q \in Seq(Emissions), Pairwise(FollowsRel, q),
           Queue' = q \o em, ToSet(q) \subseteq Emitted,
           process' # "aborting" => ToSet(q) = Emitted,
           \A e \in ToSet(em) : ~IsAsk(e) /\ Fits(e, caps),
           \A e \in ToSet(em) : IsCancel(e) =>
               \E x \in Live : /\ e.id \in runs[x].open
                               /\ x \in Live' => Deliver(x, e.id) \in Steps',
           \A x \in Live' : x \notin Live => runs'[x].open = {},
           \A x \in Live : x \in Live' => runs'[x] = runs[x],
           \A x \in Live : \A c \in runs[x].open :
               x \in Live' \/ ~IsWork(c) \/ \E e \in ToSet(em) : IsCancel(e) /\ e.id = c,
           \A t \in Steps : t.op # "deliver",
           \A t \in Steps' : t.op = "deliver" =>
               \/ \E e \in ToSet(em) : IsCancel(e) /\ e.id = t.id
               \/ t.id \in DOMAIN caps /\ ~IsWork(t.id),
           \A e \in ToSet(q) : IsAsk(e) =>
               /\ process' # "stopping"
               /\ process' = "up" => e.run \in Live' /\ (e.kind # "query" => Settling(e.run)')
    PROVE  WorkInv'
<1>1. AsksFirst' /\ Emitted' = ToSet(q) \cup ToSet(em)
    BY NoAsksFollow, QueueBecomes
<1>2. EmissionsFit'
  <2>1. \A e \in ToSet(q) : Fits(e, caps)
    BY DEF WorkInv, EmissionsFit
  <2> QED BY <1>1, <2>1, Zenon DEF EmissionsFit, Fits
<1>3. AsksPending'
  <2>1. ASSUME NEW e \in Emitted', IsAsk(e)
        PROVE  /\ fate'[e.id] = "unsent"
               /\ replied'[caps'[e.id].request] = <<>>
               /\ process' # "stopping"
               /\ process' = "up" => /\ e.run \in Live' /\ (e.kind # "query" => Settling(e.run)')
                                     /\ caps'[e.id].request = runs'[e.run].request
                                     /\ caps'[e.id].actor \in runs'[e.run].alive \cup runs'[e.run].dead
    <3>1. e \in ToSet(q)
      BY <1>1, <2>1
    <3>2. /\ fate[e.id] = "unsent" /\ replied[caps[e.id].request] = <<>>
          /\ e.run \in Live /\ caps[e.id].request = runs[e.run].request
          /\ caps[e.id].actor \in runs[e.run].alive \cup runs[e.run].dead
      BY <2>1, <3>1 DEF WorkInv, AsksPending
    <3>3. process' = "up" => runs'[e.run] = runs[e.run]
      BY <2>1, <3>1, <3>2
    <3> QED BY <2>1, <3>1, <3>2, <3>3
  <2> QED BY <2>1, Zenon DEF AsksPending, IsAsk
<1>4. \A x, d : Deliver(x, d) \notin Steps
    BY DEF Deliver
<1>5. CancelsPending'
  <2>1. ASSUME NEW e \in Emitted', IsCancel(e)
        PROVE  /\ fate'[e.id] # "answered"
               /\ \A x \in Live' : e.id \in runs'[x].open => Deliver(x, e.id) \in Steps'
    <3>1. CASE e \in ToSet(q)
      <4>1. fate[e.id] # "answered" /\ \A x \in Live : e.id \notin runs[x].open
        BY <1>4, <2>1, <3>1 DEF WorkInv, CancelsPending
      <4> QED BY <4>1
    <3>2. CASE e \in ToSet(em)
      <4>1. PICK x \in Live : /\ e.id \in runs[x].open
                              /\ x \in Live' => Deliver(x, e.id) \in Steps'
        BY <2>1, <3>2
      <4>2. fate[e.id] # "answered"
        BY <4>1 DEF WorkInv, OpenIsAsked
      <4>3. ASSUME NEW z \in Live', e.id \in runs'[z].open PROVE Deliver(z, e.id) \in Steps'
        <5>1. z \in Live /\ e.id \in runs[z].open
          BY <4>3
        <5>2. z = x
          BY <4>1, <5>1, OneWaiter
        <5> QED BY <4>1, <5>2
      <4> QED BY <4>2, <4>3
    <3> QED BY <1>1, <2>1, <3>1, <3>2
  <2>2. \A t \in Steps' : t.op = "deliver" =>
            \/ \E e \in Emitted' : IsCancel(e) /\ e.id = t.id
            \/ t.id \in DOMAIN caps' /\ ~IsWork(t.id)'
    BY <1>1 DEF IsWork
  <2> QED BY <2>1, <2>2, Zenon DEF CancelsPending, Withdrawn, IsCancel, Deliver
<1>6. OpenIsAsked'
  <2>1. ASSUME NEW x \in Live', NEW c \in runs'[x].open
        PROVE  /\ fate'[c] \in {"unsent", "sent"}
               /\ ~runs'[x].outputFailed =>
                      (fate'[c] = "sent" \/ \E e \in Emitted' : IsAsk(e) /\ e.id = c)
    <3>1. x \in Live /\ runs'[x] = runs[x] /\ ToSet(q) = Emitted
      BY <2>1
    <3>2. fate[c] \in {"unsent", "sent"} /\ (~runs[x].outputFailed => Wanted(c))
      BY <2>1, <3>1 DEF WorkInv, OpenIsAsked
    <3> QED BY <1>1, <3>1, <3>2 DEF Wanted
  <2> QED BY <2>1, Zenon DEF OpenIsAsked, Wanted, IsAsk
<1>7. WantedIsOpen'
  <2>1. \A c \in 1..MaxCaps : c \notin DOMAIN caps => fate[c] = "unsent"
    BY DEF WorkInv, WantedIsOpen
  <2>2. \A c \in DOMAIN caps : caps[c].request <= requests'
    <3> TAKE c \in DOMAIN caps
    <3>1. caps[c].request <= requests
      BY DEF WorkInv, WantedIsOpen
    <3>2. caps[c].request \in Nat /\ requests \in Nat
      <4>1. caps[c].request \in Requests /\ requests \in 0..MaxRequests
        BY CapRequest DEF RunsInv, TypeOK, HostTyped
      <4> QED BY <4>1, BoundsAreNaturals DEF Requests
    <3> QED BY <3>1, <3>2
  <2>3. ASSUME NEW c \in DOMAIN caps, IsWork(c), process' \in {"up", "stopping", "stopped"},
               fate[c] = "sent" \/ \E e \in Emitted' : IsAsk(e) /\ e.id = c
        PROVE  \/ \E x \in Live' : c \in runs'[x].open
               \/ \E e \in Emitted' : IsCancel(e) /\ e.id = c
    <3>0. ToSet(q) = Emitted
      BY <2>3
    <3>1. Wanted(c)
      BY <1>1, <2>3, <3>0 DEF Wanted
    <3>2. Waiting(c) # {} \/ Withdrawn(c)
      BY <2>3, <3>1 DEF WorkInv, WantedIsOpen
    <3>3. CASE Withdrawn(c)
      BY <1>1, <3>0, <3>3 DEF Withdrawn
    <3>4. CASE Waiting(c) # {}
      <4>1. PICK x \in Live : c \in runs[x].open
        BY <3>4 DEF Waiting
      <4>2. CASE x \in Live'
        BY <4>1, <4>2
      <4>3. CASE \E e \in ToSet(em) : IsCancel(e) /\ e.id = c
        BY <1>1, <4>3
      <4> QED BY <2>3, <4>1, <4>2, <4>3
    <3> QED BY <3>2, <3>3, <3>4
  <2>4. \A c : (\E x \in Live' : c \in runs'[x].open) => Waiting(c)' # {}
    BY DEF Waiting
  <2> QED BY <2>1, <2>2, <2>3, <2>4, Zenon DEF WantedIsOpen, Wanted, Withdrawn, IsAsk, IsCancel, IsWork
<1>8. BridgeExact'
    BY DEF WorkInv, BridgeExact
<1>9. NothingOutlivesItsRun'
    BY DEF WorkInv, NothingOutlivesItsRun, IsWork
<1> QED BY <1>1, <1>2, <1>3, <1>5, <1>6, <1>7, <1>8, <1>9 DEF WorkInv

LEMMA TornFits ==
    ASSUME NEW rs, NEW em, Torn(rs, em)
    PROVE  em \in Seq(Emissions) /\ \A e \in ToSet(em) : ~IsAsk(e) /\ Fits(e, caps)
BY Zenon DEF Torn, Fits

LEMMA FinishWork ==
    ASSUME RunsInv, WorkInv, NEW op \in {"decide", "end", "start"}, At(op), NEW r, r = Head(todo).run,
           NEW status \in {"completed", "failed", "killed"}, Finish(r, status)
    PROVE  WorkInv'
<1>1. /\ EndRuns({r}) /\ UNCHANGED <<fate, batch, pending, requests, replied, process>>
    BY DEF Finish, wire
<1>2. /\ r \in Live /\ active[r] \in Requests
      /\ Steps' = {Flush, Reply(active[r], status)} \cup Rest
      /\ \A b \in Rest : /\ b.op # "deliver"
                         /\ b.op \notin {"flush", "reply"} => b.run # r
    BY FinishSteps
<1>3. /\ process = "up" /\ Head(todo).op = op /\ Steps = {Head(todo)} \cup Rest
      /\ op \in Quiet => emits = <<>> /\ batch = <<>>
    BY AtFacts
<1>4. Live' = Live \ {r} /\ caps' = caps /\ \A x \in Live' : runs'[x] = runs[x]
    BY <1>1, <1>2, EndRunsKernel
<1>5. PICK em : Torn({r}, em) /\ emits' = emits \o em
    BY <1>1, <1>2, EndRunsKernel
<1>6. em \in Seq(Emissions) /\ \A e \in ToSet(em) : ~IsAsk(e) /\ Fits(e, caps)
    BY <1>5, TornFits
<1>7. PICK q : q = Queue
    OBVIOUS
<1>8. q \in Seq(Emissions) /\ Pairwise(FollowsRel, q) /\ Queue' = q \o em /\ ToSet(q) = Emitted
    BY <1>1, <1>5, <1>6, <1>7, QueueShape, QueueAppends DEF Emitted
<1>9. /\ \A e \in ToSet(em) : IsCancel(e) => e.id \in runs[r].open
      /\ \A c \in runs[r].open : ~IsWork(c) \/ \E e \in ToSet(em) : IsCancel(e) /\ e.id = c
    BY <1>5, Zenon DEF Torn, IsWork
<1>10. \A t \in Steps \cup Steps' : t.op # "deliver"
    BY <1>2, <1>3, StepFields
<1>11. \A e \in ToSet(q) : IsAsk(e) =>
           e.run \in Live' /\ (e.kind # "query" => Settling(e.run)')
  <2>1. CASE op \in {"decide", "end"}
    <3>1. Queue = <<>>
      BY <1>3, <2>1 DEF Queue, Quiet
    <3>2. Emitted = {}
      BY <3>1 DEF Emitted, ToSet
    <3> QED BY <1>8, <3>2
  <2>2. CASE op = "start"
    <3> TAKE e \in ToSet(q)
    <3> HAVE IsAsk(e)
    <3>1. PICK x : x = e.run
      OBVIOUS
    <3>2. /\ x \in Live /\ (e.kind # "query" => Settling(x))
          /\ caps[e.id].actor \in runs[x].alive \cup runs[x].dead
      BY <1>3, <1>8, <3>1 DEF WorkInv, AsksPending
    <3>3. runs[r].alive \cup runs[r].dead = {}
      BY <1>3, <2>2 DEF RunsInv, StepsSound, StepSound
    <3>4. x \in Live'
      BY <1>4, <3>2, <3>3
    <3>5. ASSUME Settling(x) PROVE Settling(x)'
      <4>1. PICK s \in Steps : s \in {Settle(x), Decide(x)}
        BY <3>5 DEF Settling
      <4>2. s.op \in {"settle", "decide"}
        BY <4>1 DEF Settle, Decide
      <4>3. s \in Steps'
        BY <1>2, <1>3, <2>2, <4>2
      <4> QED BY <4>1, <4>3, Zenon DEF Settling, Settle, Decide
    <3> QED BY <3>1, <3>2, <3>4, <3>5
  <2> QED BY <2>1, <2>2
<1> QED BY <1>1, <1>2, <1>3, <1>4, <1>6, <1>8, <1>9, <1>10, <1>11, RequestsNat, WorkTorn

LEMMA EndingStepWork ==
    ASSUME RunsInv, WorkInv, Decided \/ EndRun \/ StartFails PROVE WorkInv'
<1>1. PICK r : r = Head(todo).run
    OBVIOUS
<1>2. CASE Decided
  <2>1. Verdict(runs[r]) \in {"completed", "failed"}
    BY <1>1, <1>2 DEF Decided, Verdict
  <2> QED BY <1>1, <1>2, <2>1, FinishWork DEF Decided
<1>3. CASE EndRun
  <2>1. Head(todo).status \in {"killed", "failed"}
    BY <1>3, AtFacts, StepKinds DEF EndRun
  <2> QED BY <1>1, <1>3, <2>1, FinishWork DEF EndRun
<1>4. CASE StartFails
    BY <1>1, <1>4, FinishWork DEF StartFails
<1> QED BY <1>2, <1>3, <1>4

LEMMA ExecuteWork ==
    ASSUME RunsInv, WorkInv, NEW r \in Runs, NEW s \in Sessions, Execute(r, s) PROVE WorkInv'
<1>1. /\ Idle /\ UNCHANGED <<fate, batch, pending, replied, process>>
      /\ requests < MaxRequests /\ requests' = requests + 1
    BY DEF Execute, wire
<1>2. PICK n, rs : n = requests' /\ rs = Stale(s)
    OBVIOUS
<1>3. /\ Live' = (Live \ rs) \cup {r} /\ rs \subseteq Live /\ r \notin Live /\ caps' = caps
      /\ runs'[r] = Context(s, n) /\ \A x \in Live \ rs : runs'[x] = runs[x]
      /\ \A t \in Steps' : t = Flush \/ t = Start(r) \/ \E x \in rs : t = Reaped(x)
    BY <1>2, ExecuteShape
<1>4. PICK em : Torn(rs, em) /\ emits' = emits \o em \o <<Event(r)>>
    BY <1>2, ExecuteShape
<1>5. em \in Seq(Emissions) /\ \A e \in ToSet(em) : ~IsAsk(e) /\ Fits(e, caps)
    BY <1>4, TornFits
<1>6. PICK ev : ev = Event(r)
    OBVIOUS
<1>7. ev \in Emissions /\ ~IsAsk(ev) /\ ~IsCancel(ev) /\ Fits(ev, caps)
    BY <1>6, EventShape DEF Fits
<1>8. PICK one : one = <<ev>>
    OBVIOUS
<1>9. one \in Seq(Emissions) /\ ToSet(one) = {ev}
  <2>1. <<ev>> \in Seq(Emissions)
    BY <1>7
  <2> QED BY <1>8, <2>1, ToSetSmall
<1>10. PICK all : all = em \o one
    OBVIOUS
<1>11. all \in Seq(Emissions) /\ ToSet(all) = ToSet(em) \cup {ev}
    BY <1>5, <1>9, <1>10, ToSetConcat
<1>12. emits' = emits \o all
  <2>1. Associates(Emissions) /\ emits \in Seq(Emissions)
    BY ConcatAssociates, Zenon DEF RunsInv, TypeOK, KernelTyped
  <2>2. emits' = (emits \o em) \o one
    BY <1>4, <1>6, <1>8
  <2> QED BY <1>5, <1>9, <1>10, <2>1, <2>2, Zenon DEF Associates
<1>13. PICK q : q = Queue
    OBVIOUS
<1>14. q \in Seq(Emissions) /\ Pairwise(FollowsRel, q) /\ Queue' = q \o all /\ ToSet(q) = Emitted
       /\ Emitted = {}
    BY <1>1, <1>11, <1>12, <1>13, QueueShape, QueueAppends, IdleQueue DEF Emitted
<1>15. /\ \A e \in ToSet(em) : IsCancel(e) => e.run \in rs /\ e.id \in runs[e.run].open
       /\ \A x \in rs : \A c \in runs[x].open :
              ~IsWork(c) \/ \E e \in ToSet(em) : IsCancel(e) /\ e.id = c
    BY <1>4, Zenon DEF Torn, IsWork
<1>16. \A e \in ToSet(all) : ~IsAsk(e) /\ Fits(e, caps)
    BY <1>5, <1>7, <1>11
<1>17. \A e \in ToSet(all) : IsCancel(e) =>
               \E x \in Live : /\ e.id \in runs[x].open
                               /\ x \in Live' => Deliver(x, e.id) \in Steps'
  <2> TAKE e \in ToSet(all)
  <2> HAVE IsCancel(e)
  <2>1. e.run \in rs /\ e.id \in runs[e.run].open
    BY <1>7, <1>11, <1>15
  <2>2. e.run \in Live /\ e.run \notin Live'
    BY <1>3, <2>1
  <2> QED BY <2>1, <2>2
<1>18. \A x \in Live : \A c \in runs[x].open :
               x \in Live' \/ ~IsWork(c) \/ \E e \in ToSet(all) : IsCancel(e) /\ e.id = c
    BY <1>3, <1>11, <1>15
<1>19. /\ \A x \in Live' : x \notin Live => runs'[x].open = {}
       /\ \A x \in Live : x \in Live' => runs'[x] = runs[x]
  <2>1. Context(s, n).open = {}
    BY DEF Context
  <2> QED BY <1>3, <2>1
<1>20. \A t \in Steps' : t.op # "deliver"
  <2>1. rs \subseteq Runs
    BY <1>3 DEF Live
  <2> QED BY <1>3, <2>1, StepFields
<1>21. process = "up" /\ Steps = {} /\ process' = "up"
    BY <1>1, IdleFacts
<1>22. requests' \in Nat /\ requests <= requests'
    BY <1>1, RequestsNat
<1> QED BY <1>1, <1>3, <1>11, <1>14, <1>16, <1>17, <1>18, <1>19, <1>20, <1>21, <1>22, WorkTorn

LEMMA InterruptRunWork ==
    ASSUME RunsInv, WorkInv, NEW r \in Runs, InterruptRun(r) PROVE WorkInv'
<1>1. /\ Idle /\ runs' = runs /\ caps' = caps
      /\ UNCHANGED <<fate, batch, pending, requests, replied, process>>
    BY DEF InterruptRun, wire
<1>2. /\ r \in Live
      /\ Steps' = {Deliver(r, c) : c \in runs[r].open} \cup {Mark(r), Flush, Settle(r)}
    BY InterruptShape
<1>3. PICK em : CancelsAll(em, r, runs[r].open, caps) /\ emits' = emits \o em
    BY InterruptShape
<1>4. /\ em \in Seq(Emissions) /\ \A e \in ToSet(em) : ~IsAsk(e) /\ Fits(e, caps)
      /\ \A e \in ToSet(em) : IsCancel(e) /\ e.id \in runs[r].open
      /\ \A c \in runs[r].open : ~IsWork(c) \/ \E e \in ToSet(em) : IsCancel(e) /\ e.id = c
    BY <1>3, Zenon DEF CancelsAll, IsWork
<1>5. PICK q : q = Queue
    OBVIOUS
<1>6. q \in Seq(Emissions) /\ Pairwise(FollowsRel, q) /\ Queue' = q \o em /\ ToSet(q) = Emitted
      /\ Emitted = {}
    BY <1>1, <1>3, <1>4, <1>5, QueueShape, QueueAppends, IdleQueue DEF Emitted
<1>7. Live' = Live /\ process = "up" /\ Steps = {}
    BY <1>1, IdleFacts DEF Live
<1>8. \A t \in Steps' : t.op = "deliver" =>
          \/ \E e \in ToSet(em) : IsCancel(e) /\ e.id = t.id
          \/ t.id \in DOMAIN caps /\ ~IsWork(t.id)
  <2> TAKE t \in Steps'
  <2> HAVE t.op = "deliver"
  <2>1. PICK c \in runs[r].open : t = Deliver(r, c)
    BY <1>2, StepFields
  <2>2. t.id = c
    BY <2>1 DEF Deliver
  <2>3. c \in DOMAIN caps
    BY <1>2, OpenKnown DEF RunsInv, TypeOK
  <2> QED BY <1>4, <2>2, <2>3
<1>9. \A e \in ToSet(em) : IsCancel(e) =>
          \E x \in Live : e.id \in runs[x].open /\ (x \in Live' => Deliver(x, e.id) \in Steps')
    BY <1>2, <1>4
<1> QED BY <1>1, <1>4, <1>6, <1>7, <1>8, <1>9, RequestsNat, WorkTorn

LEMMA ShutdownWork ==
    ASSUME RunsInv, WorkInv, Shutdown PROVE WorkInv'
<1>1. /\ Idle /\ EndRuns(Live) /\ todo' = <<Flush>> /\ process' = "stopping"
      /\ UNCHANGED <<fate, batch, pending, requests, replied>>
    BY DEF Shutdown, Ending, wire
<1>2. Live' = Live \ Live /\ caps' = caps
    BY <1>1, EndRunsKernel
<1>3. PICK em : Torn(Live, em) /\ emits' = emits \o em
    BY <1>1, EndRunsKernel
<1>4. em \in Seq(Emissions) /\ \A e \in ToSet(em) : ~IsAsk(e) /\ Fits(e, caps)
    BY <1>3, TornFits
<1>5. PICK q : q = Queue
    OBVIOUS
<1>6. q \in Seq(Emissions) /\ Pairwise(FollowsRel, q) /\ Queue' = q \o em /\ ToSet(q) = Emitted
      /\ Emitted = {}
    BY <1>1, <1>3, <1>4, <1>5, QueueShape, QueueAppends, IdleQueue DEF Emitted
<1>7. /\ \A e \in ToSet(em) : IsCancel(e) => e.run \in Live /\ e.id \in runs[e.run].open
      /\ \A x \in Live : \A c \in runs[x].open :
             ~IsWork(c) \/ \E e \in ToSet(em) : IsCancel(e) /\ e.id = c
    BY <1>3, Zenon DEF Torn, IsWork
<1>8. \A t \in Steps' : t.op # "deliver"
    BY <1>1, FlushOnly, StepFields
<1>9. process = "up" /\ Steps = {}
    BY <1>1, IdleFacts
<1> QED BY <1>1, <1>2, <1>4, <1>6, <1>7, <1>8, <1>9, RequestsNat, WorkTorn

(* The process has failed, with nothing left in it. *)
LEMMA WorkGone ==
    ASSUME RunsInv, WorkInv, Live' = {}, caps' = caps, fate' = fate, requests' = requests,
           replied' = replied, process' = "failed", todo' = <<>>, batch' = <<>>, emits' = <<>>
    PROVE  WorkInv'
<1>1. Queue' = <<>> /\ Steps' = {}
    BY NoProgram DEF Queue
<1>2. Emitted' = {} /\ AsksFirst'
    BY <1>1 DEF Emitted, ToSet, AsksFirst
<1>3. WantedIsOpen'
    BY DEF WorkInv, WantedIsOpen, IsWork
<1> QED BY <1>1, <1>2, <1>3 DEF WorkInv, EmissionsFit, AsksPending, CancelsPending, OpenIsAsked,
                                BridgeExact, NothingOutlivesItsRun, IsWork

LEMMA AbortWork ==
    ASSUME RunsInv, WorkInv, Abort PROVE WorkInv'
<1>1. At("flush") /\ batch # <<>> /\ batch' = <<>> /\ fate' = fate
    BY DEF Abort, Refusing
<1>2. CASE process = "up" /\ Ending("aborting")
  <2>1. /\ EndRuns(Live) /\ todo' = <<Flush>> /\ process' = "aborting"
        /\ UNCHANGED <<requests, replied>>
    BY <1>2 DEF Ending
  <2>2. Live' = Live \ Live /\ caps' = caps
    BY <2>1, EndRunsKernel
  <2>3. PICK em : Torn(Live, em) /\ emits' = emits \o em
    BY <2>1, EndRunsKernel
  <2>4. em \in Seq(Emissions) /\ \A e \in ToSet(em) : ~IsAsk(e) /\ Fits(e, caps)
    BY <2>3, TornFits
  <2>5. PICK q : q = emits
    OBVIOUS
  <2>6. /\ batch \in Seq(Emissions) /\ q \in Seq(Emissions) /\ ToSet(q) \subseteq Emitted
        /\ Pairwise(FollowsRel, Queue)
    BY <2>5, QueueShape
  <2>7. Pairwise(FollowsRel, q)
    BY <2>5, <2>6, PairwiseConcat DEF Queue
  <2>8. Queue' = q \o em
    <3>1. q \o em \in Seq(Emissions)
      BY <2>4, <2>6
    <3>2. Queue' = <<>> \o (q \o em)
      BY <1>1, <2>3, <2>5 DEF Queue
    <3> QED BY <3>1, <3>2
  <2>9. /\ \A e \in ToSet(em) : IsCancel(e) => e.run \in Live /\ e.id \in runs[e.run].open
        /\ \A x \in Live : \A c \in runs[x].open :
               ~IsWork(c) \/ \E e \in ToSet(em) : IsCancel(e) /\ e.id = c
    BY <2>3, Zenon DEF Torn, IsWork
  <2>10. \A t \in Steps' : t.op # "deliver"
    BY <2>1, FlushOnly, StepFields
  <2>11. \A t \in Steps : t.op # "deliver"
    BY <1>1, FlushUndelivered
  <2> QED BY <1>1, <1>2, <2>1, <2>2, <2>4, <2>6, <2>7, <2>8, <2>9, <2>10, <2>11, RequestsNat, WorkTorn
<1>3. CASE /\ process # "up"
           /\ process' = "failed" /\ todo' = <<>>
           /\ UNCHANGED <<kernel, active, requests, replied>>
  <2>1. emits = <<>> /\ Live = {}
    BY <1>1, <1>3 DEF RunsInv, EndedIsOver
  <2>2. Live' = Live /\ emits' = emits /\ caps' = caps
    BY <1>3 DEF Live, kernel
  <2> QED BY <1>1, <1>3, <2>1, <2>2, WorkGone
<1> QED BY <1>2, <1>3 DEF Abort

LEMMA WriterClosedWork ==
    ASSUME RunsInv, WorkInv, WriterClosed PROVE WorkInv'
<1>1. Live' = {}
    BY DEF WriterClosed, Live
<1> QED BY <1>1, WorkGone DEF WriterClosed

LEMMA InitWork ==
    Init => WorkInv
<1> SUFFICES ASSUME Init PROVE WorkInv
    OBVIOUS
<1>1. /\ runs = [r \in Runs |-> NoRun] /\ caps = <<>> /\ fate = [c \in 1..MaxCaps |-> "unsent"]
      /\ emits = <<>> /\ batch = <<>> /\ pending = {} /\ todo = <<>>
    BY DEF Init
<1>2. Queue = <<>> /\ Steps = {} /\ Live = {} /\ DOMAIN caps = {}
    BY <1>1 DEF Queue, Steps, ToSet, Live
<1>3. Emitted = {} /\ AsksFirst
    BY <1>2 DEF Emitted, ToSet, AsksFirst
<1>4. WantedIsOpen /\ BridgeExact /\ NothingOutlivesItsRun
    BY <1>1, <1>2 DEF WantedIsOpen, BridgeExact, NothingOutlivesItsRun
<1> QED BY <1>2, <1>3, <1>4 DEF WorkInv, EmissionsFit, AsksPending, CancelsPending, OpenIsAsked

LEMMA NextWork ==
    ASSUME RunsInv, WorkInv, [Next]_vars PROVE WorkInv'
<1>1. CASE Handler
  <2>1. CASE RejectExecute \/ KillAllRuns \/ Shutdown
    BY <2>1, RejectExecuteWork, KillsWork, ShutdownWork
  <2>2. ASSUME NEW r \in Runs, ExecuteDuplicate(r) \/ \E s \in Sessions : Execute(r, s)
        PROVE  WorkInv'
    BY <2>2, ExecuteDuplicateWork, ExecuteWork
  <2>3. ASSUME NEW r \in Runs, \/ Apply(r) \/ ApplyRejected(r) \/ ResumeActor(r)
                               \/ KillRun(r) \/ TerminateRun(r) \/ InterruptRun(r)
        PROVE  WorkInv'
    BY <2>3, HandlersWork, KillsWork, InterruptRunWork
  <2>4. ASSUME NEW c \in 1..MaxCaps, Answer(c) \/ Observe(c) \/ Compacted(c) PROVE WorkInv'
    BY <2>4, AnswerWork, ObserveWork, CompactedWork
  <2> QED BY <1>1, <2>1, <2>2, <2>3, <2>4, Zenon DEF Handler
<1>2. CASE Step
  <2>1. CASE Drain \/ Drained \/ Withhold \/ Send
    BY <2>1, DrainWork, DrainedWork, WithholdWork, SendWork
  <2>2. CASE RefuseInvoke \/ RefuseEvent \/ Abort
    BY <2>2, RefuseInvokeWork, RefuseEventWork, AbortWork
  <2>3. CASE SettleRun \/ Undecided \/ Decided \/ EndRun \/ StartFails
    BY <2>3, SettleRunWork, UndecidedWork, EndingStepWork
  <2>4. CASE SendReply \/ SettleReaped
    BY <2>4, SendReplyWork, SettleReapedWork
  <2>5. CASE StartProgram \/ StartWithoutOutput \/ DeliverInterrupted \/ MarkInterrupted
    BY <2>5, StartProgramWork, SettleRunWork, DeliverInterruptedWork, MarkInterruptedWork
  <2> QED BY <1>2, <2>1, <2>2, <2>3, <2>4, <2>5, Zenon DEF Step
<1>3. CASE WriterClosed
    BY <1>3, WriterClosedWork
<1>4. CASE UNCHANGED vars
  <2>1. /\ runs' = runs /\ caps' = caps /\ fate' = fate /\ Queue' = Queue /\ Steps' = Steps
        /\ requests' = requests /\ replied' = replied /\ process' = process /\ pending' = pending
    BY <1>4 DEF vars, kernel, wire, host, Queue, Steps
  <2>2. \A x : Settling(x) => Settling(x)'
    BY <2>1, Zenon DEF Settling, Settle, Decide
  <2>3. \A e \in Emitted : IsAsk(e) => /\ replied'[caps[e.id].request] = <<>>
                                       /\ process = "up" /\ e.kind # "query" => Settling(e.run)'
    BY <2>1, <2>2 DEF WorkInv, AsksPending
  <2> QED BY <2>1, <2>3, RequestsNat, SentUnreplied, WorkSame
<1> QED BY <1>1, <1>2, <1>3, <1>4 DEF Next

LEMMA WorkInvImplies ==
    RunsInv /\ WorkInv => WorkAccounted
<1> SUFFICES ASSUME RunsInv, WorkInv PROVE WorkAccounted
    OBVIOUS
<1>1. WorkHasAWaiter
  <2> SUFFICES ASSUME Idle
               PROVE  /\ \A c \in DOMAIN caps : IsWork(c) /\ fate[c] = "sent" => Waiting(c) # {}
                      /\ \A r \in Live : ~runs[r].outputFailed =>
                             \A c \in runs[r].open : fate[c] = "sent"
    BY DEF WorkHasAWaiter
  <2>1. Emitted = {} /\ process = "up"
    BY IdleQueue DEF Idle
  <2>2. \A c : Wanted(c) <=> fate[c] = "sent"
    BY <2>1 DEF Wanted
  <2>3. \A c : ~Withdrawn(c)
    BY <2>1 DEF Withdrawn
  <2> QED BY <2>1, <2>2, <2>3 DEF WorkInv, WantedIsOpen, OpenIsAsked
<1>2. StopCancels
  <2> SUFFICES ASSUME process = "stopped", NEW c \in DOMAIN caps, IsWork(c), fate[c] = "sent" PROVE FALSE
    BY DEF StopCancels
  <2>1. Live = {} /\ todo = <<>>
    BY DEF RunsInv, EndedIsOver
  <2>2. batch = <<>> /\ emits = <<>>
    BY <2>1 DEF RunsInv, QueueWatched
  <2>3. Queue = <<>>
    BY <2>2 DEF Queue
  <2>4. Emitted = {}
    BY <2>3 DEF Emitted, ToSet
  <2>5. Waiting(c) = {} /\ ~Withdrawn(c) /\ Wanted(c)
    BY <2>1, <2>4 DEF Waiting, Withdrawn, Wanted
  <2> QED BY <2>5 DEF WorkInv, WantedIsOpen
<1>3. BridgeAgrees
    BY DEF WorkInv, BridgeExact, BridgeAgrees, Idle
<1> QED BY <1>1, <1>2, <1>3 DEF WorkInv, WorkAccounted

(* With RunsInv, what has been asked of the rest of the system, what is    *)
(* about to be asked or cancelled, and what actors wait for agree at every *)
(* step of flush_emits and of the handlers around it.                      *)
THEOREM WorkInvariant == Spec => [](RunsInv /\ WorkInv)
<1>1. Init => RunsInv /\ WorkInv
    BY InitRuns, InitWork
<1>2. (RunsInv /\ WorkInv) /\ [Next]_vars => (RunsInv /\ WorkInv)'
    BY NextRuns, NextWork
<1> QED BY <1>1, <1>2, PTL DEF Spec

(* No work outlives its run: the reply to an execute follows the           *)
(* cancellation of every tool call, completion and compaction its run      *)
(* still had open (settle_run, handle_kill_run), such work is waited for   *)
(* while it is being done, and the bridge's table of provider requests     *)
(* neither leaks nor loses an entry.  Queries are excepted: the kernel     *)
(* detaches them without a word (compaction-broker.lua, detach_owner).     *)
THEOREM MagWorkAccounted == Spec => []WorkAccounted
<1>1. RunsInv /\ WorkInv => WorkAccounted
    BY WorkInvImplies
<1> QED BY <1>1, WorkInvariant, PTL

(* What leaves the process, or comes back, is about something unsettled. *)
LEMMA NextSettled ==
    ASSUME RunsInv, WorkInv, [Next]_vars, NEW c \in DOMAIN fate, fate[c] \in {"answered", "cancelled"}
    PROVE  fate'[c] = fate[c]
<1>0. fate \in [1..MaxCaps -> {"unsent", "sent", "answered", "cancelled"}] /\ c \in 1..MaxCaps
    BY DEF RunsInv, TypeOK, WireTyped
<1>1. ASSUME NEW d \in 1..MaxCaps, Answer(d) PROVE fate'[c] = fate[c]
  <2>1. PICK r \in Live : d \in runs[r].open
    BY <1>1, AnswerActs
  <2>2. fate[d] \in {"unsent", "sent"}
    BY <2>1 DEF WorkInv, OpenIsAsked
  <2>3. fate' = [fate EXCEPT ![d] = "answered"] /\ d # c
    BY <1>1, <2>2 DEF Answer
  <2> QED BY <1>0, <2>3
<1>2. CASE Send
  <2>1. PICK h : h = Head(batch)
    OBVIOUS
  <2>2. /\ h \in Emitted
        /\ \A d \in 1..MaxCaps : ~(d = h.id /\ (IsAsk(h) \/ IsCancel(h))) => fate'[d] = fate[d]
        /\ IsCancel(h) => fate'[h.id] = "cancelled"
    BY <1>2, <2>1, SendShape
  <2>3. (IsAsk(h) => fate[h.id] = "unsent") /\ (IsCancel(h) => fate[h.id] # "answered")
    BY <2>2 DEF WorkInv, AsksPending, CancelsPending
  <2> QED BY <1>0, <2>2, <2>3
<1>3. CASE Handler /\ ~\E d \in 1..MaxCaps : Answer(d)
  <2>1. fate' = fate
    BY <1>3 DEF Handler, RejectExecute, KillAllRuns, Shutdown, ExecuteDuplicate, Execute, Apply,
                ApplyRejected, ResumeActor, KillRun, TerminateRun, InterruptRun, Observe,
                Compacted, wire
  <2> QED BY <2>1
<1>4. CASE Step /\ ~Send
  <2>1. fate' = fate
    BY <1>4 DEF Step, Drain, Drained, Withhold, RefuseInvoke, RefuseEvent, Abort, SettleRun,
                Undecided, Decided, EndRun, Finish, SendReply, SettleReaped, StartProgram,
                StartWithoutOutput, StartFails, DeliverInterrupted, MarkInterrupted, wire
  <2> QED BY <2>1
<1>5. CASE WriterClosed \/ UNCHANGED vars
    BY <1>5 DEF WriterClosed, vars, wire
<1> QED BY <1>1, <1>2, <1>3, <1>4, <1>5 DEF Next

(* A capability is answered or cancelled once: an answer that comes after  *)
(* the cancellation, or a second time, is delivered to nobody, and what    *)
(* was answered is not cancelled (routing.lua, bus_response and            *)
(* dispatch_kill).                                                         *)
THEOREM MagSettledOnce == Spec => SettledOnce
<1>1. RunsInv /\ WorkInv /\ [Next]_vars =>
          [\A c \in DOMAIN fate : fate[c] \in {"answered", "cancelled"} => fate'[c] = fate[c]]_vars
    BY NextSettled
<1> QED BY <1>1, WorkInvariant, PTL DEF Spec, SettledOnce

-----------------------------------------------------------------------------
(***************************************************************************)
(* What a loss leads to.  A run whose output failed is going to be settled *)
(* or waits for something that is being worked on, and its answer settles  *)
(* the run; the emission that failed is on record until then.              *)
(***************************************************************************)
LEMMA LossKeeps ==
    ASSUME RunsInv, LossInv, lost' = lost, requests' \in Nat, requests <= requests',
           \A q \in lost : replied'[q] \in {<<>>, <<"failed">>, <<"killed">>},
           \A t \in Steps' : t.op = "reply" /\ t.status = "completed" => t.request \notin lost,
           \A r \in Live' :
               \/ /\ r \in Live /\ Settling(r)' /\ runs'[r].request = runs[r].request
                  /\ runs'[r].outputFailed = runs[r].outputFailed
               \/ /\ r \in Live /\ runs'[r].request = runs[r].request
                  /\ runs'[r].outputFailed = runs[r].outputFailed
                  /\ runs'[r].signal = runs[r].signal
                  /\ (Settling(r) => Settling(r)') /\ (Attended(r) => Attended(r)')
               \/ ~runs'[r].outputFailed /\ runs'[r].signal = "none" /\ runs'[r].request \notin lost,
           \A e \in Emitted' : e.run \in Live' => Attended(e.run)'
    PROVE  LossInv'
<1>1. \A q \in lost : q <= requests'
  <2> TAKE q \in lost
  <2>1. q <= requests /\ q \in Requests
    BY DEF LossInv, RunsInv, TypeOK, WireTyped
  <2>2. q \in Nat /\ requests \in Nat
    BY <2>1, RequestsNat DEF Requests
  <2> QED BY <2>1, <2>2
<1>2. \A r \in Live : /\ runs[r].request \in lost => runs[r].outputFailed
                      /\ runs[r].signal # "none" => Settling(r)
                      /\ runs[r].outputFailed => Attended(r)
    BY DEF LossInv
<1>3. ASSUME NEW r \in Live'
      PROVE  /\ runs'[r].request \in lost' => runs'[r].outputFailed
             /\ runs'[r].signal # "none" => Settling(r)'
             /\ runs'[r].outputFailed => Attended(r)'
  <2>1. Settling(r)' => Attended(r)'
    BY DEF Attended
  <2>2. CASE /\ r \in Live /\ Settling(r)' /\ runs'[r].request = runs[r].request
             /\ runs'[r].outputFailed = runs[r].outputFailed
    BY <1>2, <2>1, <2>2
  <2>3. CASE /\ r \in Live /\ runs'[r].request = runs[r].request
             /\ runs'[r].outputFailed = runs[r].outputFailed
             /\ runs'[r].signal = runs[r].signal
             /\ (Settling(r) => Settling(r)') /\ (Attended(r) => Attended(r)')
    BY <1>2, <2>3
  <2>4. CASE ~runs'[r].outputFailed /\ runs'[r].signal = "none" /\ runs'[r].request \notin lost
    BY <2>4
  <2> QED BY <2>2, <2>3, <2>4
<1>4. NoSuccessAfterLoss'
    BY DEF NoSuccessAfterLoss
<1> QED BY <1>1, <1>3, <1>4, Zenon DEF LossInv

LEMMA AttendedKept ==
    ASSUME NEW r, runs[r].open \subseteq runs'[r].open,
           \A c \in runs[r].open : fate[c] = "sent" => fate'[c] = "sent",
           Settling(r) => Settling(r)', Start(r) \in Steps => Start(r) \in Steps' \/ Settling(r)'
    PROVE  Attended(r) => Attended(r)'
<1>1. CASE Settling(r) \/ Start(r) \in Steps
    BY <1>1, Zenon DEF Attended, Start
<1>2. CASE \E c \in runs[r].open : fate[c] = "sent"
    BY <1>2, Zenon DEF Attended
<1> QED BY <1>1, <1>2 DEF Attended

(* Steps that leave the runs, the queue and the world outside as they are. *)
LEMMA LossSame ==
    ASSUME RunsInv, LossInv, runs' = runs, fate' = fate, Emitted' = Emitted, lost' = lost,
           requests' \in Nat, requests <= requests',
           \A q \in lost : replied'[q] \in {<<>>, <<"failed">>, <<"killed">>},
           \A t \in Steps' : t.op = "reply" /\ t.status = "completed" => t.request \notin lost,
           \A r \in Live :
               \/ /\ Settling(r) => Settling(r)'
                  /\ Start(r) \in Steps => Start(r) \in Steps' \/ Settling(r)'
               \/ Emitted = {} /\ Verdict(runs[r]) = "none"
    PROVE  LossInv'
<1>1. Live' = Live
    BY DEF Live
<1>2. \A r \in Live :
          \/ (Settling(r) => Settling(r)') /\ (Attended(r) => Attended(r)')
          \/ Emitted = {} /\ Verdict(runs[r]) = "none"
    BY AttendedKept
<1>3. \A e \in Emitted' : e.run \in Live' => Attended(e.run)'
    BY <1>1, <1>2 DEF LossInv
<1>4. ASSUME NEW r \in Live, Verdict(runs[r]) = "none"
      PROVE  ~runs[r].outputFailed /\ runs[r].signal = "none" /\ runs[r].request \notin lost
  <2>1. runs[r] \in Contexts
    BY LiveContext DEF RunsInv, TypeOK
  <2>2. runs[r].signal \in {"none", "complete", "failed"} /\ runs[r].outputFailed \in BOOLEAN
    BY <2>1 DEF Contexts
  <2>3. ~runs[r].outputFailed /\ runs[r].signal = "none"
    BY <1>4, <2>2 DEF Verdict
  <2> QED BY <2>3 DEF LossInv
<1> QED BY <1>1, <1>2, <1>3, <1>4, LossKeeps

(* Steps that send no reply, and none that says "completed". *)
LEMMA LossReplies ==
    ASSUME RunsInv, LossInv
    PROVE  /\ \A q \in lost : replied[q] \in {<<>>, <<"failed">>, <<"killed">>}
           /\ \A t \in Steps : t.op = "reply" /\ t.status = "completed" => t.request \notin lost
BY DEF LossInv, NoSuccessAfterLoss

LEMMA DrainLoss ==
    ASSUME RunsInv, LossInv, Drain PROVE LossInv'
<1>1. /\ batch = <<>> /\ batch' = emits /\ emits' = <<>> /\ runs' = runs /\ fate' = fate
      /\ lost' = lost /\ todo' = todo /\ requests' = requests /\ replied' = replied
    BY DEF Drain, host
<1>2. emits \in Seq(Emissions)
    BY DEF RunsInv, TypeOK, KernelTyped
<1>3. Queue' = Queue
    BY <1>1, <1>2 DEF Queue
<1>4. Steps' = Steps /\ Emitted' = Emitted
    BY <1>1, <1>3 DEF Steps, Emitted
<1>5. \A x : Settling(x) => Settling(x)'
    BY <1>4, Zenon DEF Settling, Settle, Decide
<1> QED BY <1>1, <1>4, <1>5, RequestsNat, LossReplies, LossSame

LEMMA DrainedLoss ==
    ASSUME RunsInv, LossInv, Drained PROVE LossInv'
<1>1. /\ At("flush") /\ batch' = batch /\ emits' = emits /\ runs' = runs /\ fate' = fate
      /\ lost' = lost /\ requests' = requests /\ replied' = replied /\ Then(<<>>)
    BY DEF Drained, kernel
<1>2. Emitted' = Emitted
    BY <1>1 DEF Queue, Emitted
<1>3. Steps' = Rest /\ Steps = {Head(todo)} \cup Rest /\ Head(todo).op = "flush"
    BY <1>1, AtFacts, ThenNothing
<1>4. \A x : Settle(x) # Head(todo) /\ Decide(x) # Head(todo) /\ Start(x) # Head(todo)
    BY <1>3 DEF Settle, Decide, Start
<1>5. \A x : Settling(x) => Settling(x)'
    BY <1>3, <1>4, Zenon DEF Settling, Settle, Decide
<1>6. \A x : Start(x) \in Steps => Start(x) \in Steps'
    BY <1>3, <1>4
<1>7. \A t \in Steps' : t \in Steps
    BY <1>3
<1> QED BY <1>1, <1>2, <1>5, <1>6, <1>7, RequestsNat, LossReplies, LossSame

LEMMA SettleRunLoss ==
    ASSUME RunsInv, LossInv, SettleRun \/ StartWithoutOutput PROVE LossInv'
<1>1. /\ runs' = runs /\ batch' = batch /\ emits' = emits /\ fate' = fate /\ lost' = lost
      /\ requests' = requests /\ replied' = replied
    BY DEF SettleRun, StartWithoutOutput, kernel, wire
<1>2. Emitted' = Emitted
    BY <1>1 DEF Queue, Emitted
<1>3. PICK r : r = Head(todo).run
    OBVIOUS
<1>4. PICK s : /\ s \in {Settle(r), Decide(r)} /\ s \in Steps' /\ Rest \subseteq Steps'
               /\ \A t \in Steps' : t \in Rest \/ t = s \/ t = Flush
               /\ Head(todo) = Settle(r) \/ Head(todo) = Start(r)
  <2>1. CASE SettleRun
    BY <1>3, <2>1, SettleRunSteps
  <2>2. CASE StartWithoutOutput
    BY <1>3, <2>2, StartedSteps
  <2> QED BY <2>1, <2>2
<1>5. Steps = {Head(todo)} \cup Rest
    BY AtFacts DEF SettleRun, StartWithoutOutput
<1>6. Settling(r)'
    BY <1>4, Zenon DEF Settling, Settle, Decide
<1>7. \A x : x # r => Settle(x) # Head(todo) /\ Decide(x) # Head(todo) /\ Start(x) # Head(todo)
    BY <1>4 DEF Settle, Start, Decide
<1>8. \A x : x # r => /\ Settling(x) => Settling(x)'
                      /\ Start(x) \in Steps => Start(x) \in Steps'
    BY <1>4, <1>5, <1>7, Zenon DEF Settling, Settle, Decide, Start
<1>9. s.op # "reply" /\ Flush.op # "reply"
    BY <1>4 DEF Settle, Decide, Flush
<1>10. \A t \in Steps' : t.op = "reply" => t \in Steps
    BY <1>4, <1>5, <1>9
<1> QED BY <1>1, <1>2, <1>6, <1>8, <1>10, RequestsNat, LossReplies, LossSame

LEMMA UndecidedLoss ==
    ASSUME RunsInv, LossInv, Undecided PROVE LossInv'
<1>1. /\ At("decide") /\ runs' = runs /\ batch' = batch /\ emits' = emits /\ fate' = fate
      /\ lost' = lost /\ requests' = requests /\ replied' = replied
    BY DEF Undecided, kernel, wire
<1>2. PICK r : r = Head(todo).run
    OBVIOUS
<1>3. /\ Head(todo) = Decide(r) /\ Steps' = Rest /\ batch = <<>> /\ emits = <<>>
    BY <1>2, UndecidedSteps
<1>4. Queue = <<>> /\ Queue' = <<>>
    BY <1>1, <1>3 DEF Queue
<1>5. Emitted' = {} /\ Emitted = {}
    BY <1>4 DEF Emitted, ToSet
<1>6. Verdict(runs[r]) = "none" /\ Steps = {Head(todo)} \cup Rest
    BY <1>1, <1>2, AtFacts DEF Undecided
<1>7. \A x : x # r => Settle(x) # Head(todo) /\ Decide(x) # Head(todo)
    BY <1>3 DEF Settle, Decide
<1>8. \A x : Start(x) # Head(todo)
    BY <1>3 DEF Start, Decide
<1>9. \A x : x # r => /\ Settling(x) => Settling(x)'
                      /\ Start(x) \in Steps => Start(x) \in Steps'
    BY <1>3, <1>6, <1>7, <1>8, Zenon DEF Settling, Settle, Decide, Start
<1>10. \A t \in Steps' : t \in Steps
    BY <1>3, <1>6
<1> QED BY <1>1, <1>5, <1>6, <1>9, <1>10, RequestsNat, LossReplies, LossSame

(* A handler that begins by changing only the program. *)
LEMMA LossIdle ==
    ASSUME RunsInv, LossInv, Idle, UNCHANGED kernel, UNCHANGED <<fate, batch, lost>>,
           requests' \in Nat, requests <= requests',
           \A q \in lost : replied'[q] \in {<<>>, <<"failed">>, <<"killed">>},
           \A t \in Steps' : t.op = "reply" => t.status # "completed"
    PROVE  LossInv'
<1>1. runs' = runs /\ emits' = emits /\ Steps = {}
    BY IdleFacts DEF kernel
<1>2. Emitted' = Emitted
    BY <1>1 DEF Emitted, Queue
<1>3. \A x : ~Settling(x) /\ Start(x) \notin Steps
    BY <1>1 DEF Settling
<1> QED BY <1>1, <1>2, <1>3, LossSame

LEMMA KillsLoss ==
    ASSUME RunsInv, LossInv, KillAllRuns \/ \E r \in Runs : KillRun(r) \/ TerminateRun(r)
    PROVE  LossInv'
<1>1. Idle /\ UNCHANGED kernel /\ UNCHANGED <<fate, batch, lost, replied, requests>>
    BY DEF KillAllRuns, KillRun, TerminateRun, wire
<1>2. \A t \in Steps' : t.op # "reply"
  <2>1. CASE KillAllRuns
    <3>1. \A t \in Steps' : \E r \in Runs : t = End(r, "killed")
      BY <2>1, KillAllSteps DEF Live
    <3> QED BY <3>1, StepFields
  <2>2. ASSUME NEW r \in Runs, KillRun(r) \/ TerminateRun(r) PROVE \A t \in Steps' : t.op # "reply"
    <3>1. PICK a : a \in {End(r, "killed"), End(r, "failed")} /\ todo' = <<a>>
      BY <2>2 DEF KillRun, TerminateRun
    <3>2. a \in Steplike /\ a.op = "end"
      BY <3>1, StepFields
    <3>3. Steps' = {a}
      BY <3>1, <3>2, ProgramOfOne
    <3> QED BY <3>2, <3>3
  <2> QED BY <2>1, <2>2
<1> QED BY <1>1, <1>2, LossReplies, RequestsNat, LossIdle

(* A request that is new has lost nothing. *)
LEMMA NewNotLost ==
    ASSUME RunsInv, LossInv, requests' = requests + 1
    PROVE  requests' \in Nat /\ requests <= requests' /\ requests' \notin lost
<1>1. requests \in Nat
    BY RequestsNat
<1>2. \A q \in lost : q <= requests
    BY DEF LossInv
<1>3. \A n \in Nat : n <= requests => n # requests + 1
    BY <1>1
<1>4. requests + 1 \in Nat /\ requests <= requests + 1
    BY <1>1
<1> QED BY <1>2, <1>3, <1>4

LEMMA RejectExecuteLoss ==
    ASSUME RunsInv, LossInv, RejectExecute PROVE LossInv'
<1>1. /\ Idle /\ UNCHANGED kernel /\ UNCHANGED <<fate, batch, lost, todo>>
      /\ requests' = requests + 1
      /\ replied' = [replied EXCEPT ![requests'] = <<"rejected">>]
    BY DEF RejectExecute, wire
<1>2. Steps' = {}
    BY <1>1, IdleFacts DEF Steps
<1>3. replied \in [Requests -> Seq(Statuses)] /\ lost \subseteq Requests
    BY DEF RunsInv, TypeOK, HostTyped, WireTyped
<1>4. \A q \in lost : replied'[q] = replied[q]
    BY <1>1, <1>3, NewNotLost
<1> QED BY <1>1, <1>2, <1>4, NewNotLost, LossReplies, LossIdle

LEMMA ExecuteDuplicateLoss ==
    ASSUME RunsInv, LossInv, NEW r \in Runs, ExecuteDuplicate(r) PROVE LossInv'
<1>1. /\ Idle /\ UNCHANGED kernel /\ UNCHANGED <<fate, batch, lost, replied>>
      /\ requests < MaxRequests /\ requests' = requests + 1
    BY DEF ExecuteDuplicate, wire
<1>2. PICK n : n = requests'
    OBVIOUS
<1>3. n \in Requests
    BY <1>1, <1>2, NextRequest
<1>4. PICK a : a = Reply(n, "failed")
    OBVIOUS
<1>5. a \in Steplike /\ a.status = "failed" /\ todo' = <<a>>
    BY <1>2, <1>3, <1>4, StepFields DEF ExecuteDuplicate
<1>6. Steps' = {a}
    BY <1>5, ProgramOfOne
<1> QED BY <1>1, <1>5, <1>6, NewNotLost, LossReplies, LossIdle

LEMMA SettleReapedLoss ==
    ASSUME RunsInv, LossInv, SettleReaped PROVE LossInv'
<1>1. /\ At("reaped") /\ UNCHANGED kernel /\ UNCHANGED <<fate, batch, lost, replied, requests>>
    BY DEF SettleReaped, wire
<1>2. PICK r : r = Head(todo).run
    OBVIOUS
<1>3. /\ active[r] \in Requests /\ Steps' = {Reply(active[r], "failed")} \cup Rest
      /\ Steps = {Reaped(r)} \cup Rest
    BY <1>2, SettleReapedSteps
<1>4. Reply(active[r], "failed").status = "failed"
    BY <1>3, StepFields
<1>5. \A t \in Steps' : t.op = "reply" /\ t.status = "completed" => t \in Steps
    BY <1>3, <1>4
<1>6. \A x : Settle(x) # Reaped(r) /\ Decide(x) # Reaped(r) /\ Start(x) # Reaped(r)
    BY DEF Settle, Decide, Start, Reaped
<1>7. \A x : /\ Settling(x) => Settling(x)'
             /\ Start(x) \in Steps => Start(x) \in Steps'
    BY <1>3, <1>6, Zenon DEF Settling, Settle, Decide, Start
<1>8. runs' = runs /\ Emitted' = Emitted
    BY <1>1 DEF kernel, Queue, Emitted
<1> QED BY <1>1, <1>5, <1>7, <1>8, RequestsNat, LossReplies, LossSame

LEMMA SendReplyLoss ==
    ASSUME RunsInv, LossInv, SendReply PROVE LossInv'
<1>1. At("reply") /\ UNCHANGED kernel /\ UNCHANGED <<fate, batch, lost, requests>> /\ Then(<<>>)
    BY DEF SendReply
<1>2. PICK q, s : q = Head(todo).request /\ s = Head(todo).status
    OBVIOUS
<1>3. /\ StepSound(Head(todo)) /\ Head(todo).op = "reply" /\ Head(todo) \in Steplike
      /\ HostTyped /\ ProgramOrdered /\ todo # <<>> /\ Head(todo) \in Steps
      /\ Steps = {Head(todo)} \cup Rest
    BY <1>1, AtFacts
<1>4. q \in Requests /\ s \in {"completed", "failed", "killed"} /\ replied[q] = <<>>
    BY <1>2, <1>3, StepKinds DEF StepSound
<1>5. Steps' = Rest
    BY <1>1, <1>3, ThenNothing
<1>6. q \in lost => s # "completed"
    BY <1>2, <1>3, LossReplies
<1>7. \A x : Settle(x) # Head(todo) /\ Decide(x) # Head(todo) /\ Start(x) # Head(todo)
    BY <1>3 DEF Settle, Decide, Start
<1>8. \A x : /\ Settling(x) => Settling(x)'
             /\ Start(x) \in Steps => Start(x) \in Steps'
    BY <1>3, <1>5, <1>7, Zenon DEF Settling, Settle, Decide, Start
<1>9. replied \in [Requests -> Seq(Statuses)] /\ lost \subseteq Requests
    BY DEF RunsInv, TypeOK, HostTyped, WireTyped
<1>10. \A n \in lost : replied'[n] \in {<<>>, <<"failed">>, <<"killed">>}
  <2> TAKE n \in lost
  <2>1. CASE n # q
    <3>1. replied'[n] = replied[n]
      BY <1>2, <1>9, <2>1 DEF SendReply
    <3> QED BY <3>1, LossReplies
  <2>2. CASE n = q
    <3>1. replied'[q] = Append(<<>>, s) \/ replied'[q] = Append(<<>>, "failed")
      BY <1>2, <1>4, <1>9 DEF SendReply
    <3>2. \A z : Append(<<>>, z) = <<z>>
      OBVIOUS
    <3> QED BY <1>4, <1>6, <2>2, <3>1, <3>2
  <2> QED BY <2>1, <2>2
<1>11. runs' = runs /\ Emitted' = Emitted
    BY <1>1 DEF kernel, Queue, Emitted
<1>12. \A t \in Steps' : t \in Steps
    BY <1>3, <1>5
<1> QED BY <1>1, <1>8, <1>10, <1>11, <1>12, RequestsNat, LossReplies, LossSame

(* An activation of a run that is going to be settled. *)
LEMMA LossActs ==
    ASSUME RunsInv, LossInv, NEW r \in Live, NEW y, NEW em, NEW closed, Acts(r, y, em, closed),
           lost' = lost, UNCHANGED <<requests, replied>>, Settling(r)',
           \A e \in Emitted' : e \in Emitted \/ e \in ToSet(em),
           \A x \in Live : x # r => \A c \in runs[x].open : fate'[c] = fate[c],
           \A x \in Live : x # r => /\ Settling(x) => Settling(x)'
                                    /\ Start(x) \in Steps => Start(x) \in Steps',
           \A t \in Steps' : t.op = "reply" => t \in Steps
    PROVE  LossInv'
<1>1. /\ Live' = Live /\ \A x \in Runs : x # r => runs'[x] = runs[x]
      /\ \A x \in Live : /\ runs'[x].request = runs[x].request
                         /\ runs'[x].outputFailed = runs[x].outputFailed
    BY ActsKernel DEF RunsInv
<1>2. \A x \in Live : x # r => /\ runs'[x] = runs[x] /\ (Settling(x) => Settling(x)')
                               /\ Attended(x) => Attended(x)'
  <2> TAKE x \in Live
  <2> HAVE x # r
  <2>1. runs'[x] = runs[x]
    BY <1>1 DEF Live
  <2> QED BY <2>1, AttendedKept
<1>3. Attended(r)'
    BY DEF Attended
<1>4. \A e \in ToSet(em) : e.run = r
    BY DEF Acts
<1>5. \A x \in Live : x # r /\ Attended(x) => Attended(x)'
    BY <1>2
<1>6. ASSUME NEW e \in Emitted', e.run \in Live' PROVE Attended(e.run)'
  <2>1. PICK x : x = e.run
    OBVIOUS
  <2>2. CASE x = r
    BY <1>3, <2>1, <2>2
  <2>3. CASE x # r
    <3>1. e \in Emitted /\ x \in Live
      BY <1>1, <1>4, <1>6, <2>1, <2>3
    <3>2. Attended(x)
      BY <2>1, <3>1 DEF LossInv
    <3>3. Attended(x)'
      BY <1>5, <2>3, <3>1, <3>2
    <3> QED BY <2>1, <3>3
  <2> QED BY <2>2, <2>3
<1> QED BY <1>1, <1>2, <1>6, LossReplies, RequestsNat, LossKeeps

LEMMA EmitsMore ==
    ASSUME RunsInv, batch' = batch, NEW em \in Seq(Emissions), emits' = emits \o em
    PROVE  Emitted' = Emitted \cup ToSet(em)
<1>1. PICK q : q = Queue
    OBVIOUS
<1>2. batch \in Seq(Emissions) /\ emits \in Seq(Emissions)
    BY DEF RunsInv, TypeOK, KernelTyped, WireTyped
<1>3. q \in Seq(Emissions) /\ Queue' = q \o em
    BY <1>1, <1>2, QueueAppends DEF Queue
<1> QED BY <1>1, <1>3, ToSetConcat DEF Emitted

LEMMA ActivationLoss ==
    ASSUME RunsInv, LossInv, Idle, NEW r \in Live, NEW y, NEW em, NEW closed, Acts(r, y, em, closed),
           todo' = <<Flush, Settle(r)>>, UNCHANGED <<batch, lost, requests, replied>>,
           \A x \in Live : x # r => \A c \in runs[x].open : fate'[c] = fate[c]
    PROVE  LossInv'
<1>1. Live' = Live /\ Steps = {} /\ r \in Runs
    BY ActsKernel, IdleFacts DEF RunsInv, Live
<1>2. Steps' = {Flush, Settle(r)}
    BY <1>1, FlushThenSettle
<1>3. \A t \in Steps' : t.op # "reply"
    BY <1>1, <1>2, StepFields
<1>4. Settling(r)'
    BY <1>2 DEF Settling
<1>5. \A x : ~Settling(x) /\ Start(x) \notin Steps
    BY <1>1 DEF Settling
<1>6. Emitted' = Emitted \cup ToSet(em)
    BY EmitsMore DEF Acts
<1> QED BY <1>3, <1>4, <1>5, <1>6, LossActs

LEMMA HandlersLoss ==
    ASSUME RunsInv, LossInv, NEW r \in Runs, Apply(r) \/ ResumeActor(r) \/ ApplyRejected(r)
    PROVE  LossInv'
<1>1. /\ Idle /\ todo' = <<Flush, Settle(r)>> /\ UNCHANGED <<fate, batch, lost, requests, replied>>
    BY DEF Apply, ResumeActor, ApplyRejected, wire
<1>2. \E y, em : r \in Live /\ Acts(r, y, em, {})
  <2>1. CASE Apply(r)
    BY <2>1, ApplyRunActs
  <2>2. CASE ResumeActor(r)
    BY <2>2, ResumeActs
  <2>3. CASE ApplyRejected(r)
    <3>1. r \in Live /\ runs' = runs /\ caps' = caps /\ emits' = Append(emits, Event(r))
      BY <2>3, IdleFacts DEF ApplyRejected
    <3> QED BY <3>1, EventActs DEF RunsInv
  <2> QED BY <2>1, <2>2, <2>3
<1> QED BY <1>1, <1>2, ActivationLoss

LEMMA AnswerLoss ==
    ASSUME RunsInv, LossInv, NEW c, Answer(c) PROVE LossInv'
<1>1. Idle /\ UNCHANGED <<batch, lost, requests, replied>> /\ fate' = [fate EXCEPT ![c] = "answered"]
    BY DEF Answer
<1>2. PICK r \in Live : /\ c \in runs[r].open /\ todo' = <<Flush, Settle(r)>>
                        /\ \E y, em : Acts(r, y, em, {c})
    BY AnswerActs
<1>3. PICK y, em : Acts(r, y, em, {c})
    BY <1>2
<1>4. \A x \in Live : x # r => \A d \in runs[x].open : fate'[d] = fate[d]
  <2> TAKE x \in Live
  <2> HAVE x # r
  <2> TAKE d \in runs[x].open
  <2>1. d # c
    BY <1>2, OneWaiter
  <2> QED BY <1>1, <2>1
<1> QED BY <1>1, <1>2, <1>3, <1>4, ActivationLoss

LEMMA StartProgramLoss ==
    ASSUME RunsInv, LossInv, StartProgram PROVE LossInv'
<1>1. At("start") /\ UNCHANGED <<fate, batch, lost, requests, replied>>
    BY DEF StartProgram, wire
<1>2. PICK r : r = Head(todo).run
    OBVIOUS
<1>3. r \in Live /\ Head(todo) = Start(r) /\ Steps' = {Settle(r)} \cup Rest
    BY <1>2, StartedSteps
<1>4. PICK y, em : Acts(r, y, em, {})
    BY <1>2, StartActs
<1>5. Steps = {Head(todo)} \cup Rest /\ r \in Runs
    BY <1>1, <1>3, AtFacts DEF Live
<1>6. Settling(r)'
    BY <1>3 DEF Settling
<1>7. \A x : x # r => Settle(x) # Head(todo) /\ Decide(x) # Head(todo) /\ Start(x) # Head(todo)
    BY <1>3 DEF Settle, Start, Decide
<1>8. \A x : x # r => /\ Settling(x) => Settling(x)'
                      /\ Start(x) \in Steps => Start(x) \in Steps'
    BY <1>3, <1>5, <1>7, Zenon DEF Settling, Settle, Decide, Start
<1>9. \A t \in Steps' : t.op = "reply" => t \in Steps
    BY <1>3, <1>5, StepFields
<1>10. Emitted' = Emitted \cup ToSet(em)
    BY <1>1, <1>4, EmitsMore DEF Acts
<1> QED BY <1>1, <1>3, <1>4, <1>6, <1>8, <1>9, <1>10, LossActs

LEMMA InterruptedLoss ==
    ASSUME RunsInv, WorkInv, LossInv, DeliverInterrupted \/ MarkInterrupted PROVE LossInv'
<1>1. UNCHANGED <<fate, batch, lost, requests, replied>>
    BY DEF DeliverInterrupted, MarkInterrupted, wire
<1>2. PICK r : r = Head(todo).run
    OBVIOUS
<1>3. r \in Live /\ Head(todo).op \in {"deliver", "mark"}
    BY <1>2, InterruptedSteps
<1>4. /\ Settling(r)' /\ \A t \in Steps' : t \in Steps
      /\ \A t \in Steps : t # Head(todo) => t \in Steps'
    BY <1>2, InterruptedKeeps
<1>5. PICK y, em, closed : Acts(r, y, em, closed)
  <2>1. CASE DeliverInterrupted
    BY <1>2, <2>1, DeliverActs
  <2>2. CASE MarkInterrupted
    <3>1. runs' = runs /\ caps' = caps /\ emits' = Append(emits, Event(r))
      BY <1>2, <2>2 DEF MarkInterrupted
    <3> QED BY <1>3, <3>1, EventActs DEF RunsInv
  <2> QED BY <2>1, <2>2
<1>6. \A x : Settle(x) # Head(todo) /\ Decide(x) # Head(todo) /\ Start(x) # Head(todo)
    BY <1>3 DEF Settle, Start, Decide
<1>7. \A x : /\ Settling(x) => Settling(x)'
             /\ Start(x) \in Steps => Start(x) \in Steps'
    BY <1>4, <1>6, Zenon DEF Settling, Settle, Decide, Start
<1>8. Emitted' = Emitted \cup ToSet(em)
    BY <1>1, <1>5, EmitsMore DEF Acts
<1> QED BY <1>1, <1>3, <1>4, <1>5, <1>7, <1>8, LossActs

LEMMA RefuseInvokeLoss ==
    ASSUME RunsInv, WorkInv, LossInv, RefuseInvoke PROVE LossInv'
<1>1. /\ At("flush") /\ UNCHANGED host /\ batch # <<>> /\ fate' = fate /\ lost' = lost
      /\ Head(batch).kind = "invoke" /\ batch' = Tail(batch)
    BY DEF RefuseInvoke, Refusing
<1>2. PICK r \in Live : /\ Head(batch).id \in runs[r].open
                        /\ \E y, em : Acts(r, y, em, {Head(batch).id})
    BY RefuseActs
<1>3. PICK h, c : h = Head(batch) /\ c = Head(batch).id
    OBVIOUS
<1>4. PICK y, em : Acts(r, y, em, {c})
    BY <1>2, <1>3
<1>5. process = "up" /\ UNCHANGED <<requests, replied>> /\ Steps' = Steps
    BY <1>1 DEF RunsInv, EndedIsOver, host, Steps
<1>6. PICK q : q = Tail(batch) \o emits
    OBVIOUS
<1>7. q \in Seq(Emissions) /\ Emitted = {h} \cup ToSet(q)
    BY <1>1, <1>3, <1>6, QueuePops
<1>8. IsAsk(h) /\ h.id = c /\ h \in Emitted
    BY <1>1, <1>3, <1>7 DEF IsAsk
<1>9. h.run \in Live /\ Settling(h.run) /\ caps[c].request = runs[h.run].request
    BY <1>1, <1>3, <1>5, <1>8 DEF WorkInv, AsksPending
<1>10. h.run = r
  <2>1. caps[c].request = runs[r].request
    BY <1>2, <1>3, Zenon DEF RunsInv, TypeOK, OpenByAlive
  <2> QED BY <1>9, <2>1, OneRunPerRequest
<1>11. \A x : Settling(x) => Settling(x)'
    BY <1>5, Zenon DEF Settling, Settle, Decide
<1>12. Settling(r)'
    BY <1>9, <1>10, <1>11
<1>13. em \in Seq(Emissions) /\ emits' = emits \o em
    BY <1>4 DEF Acts
<1>14. Emitted' = ToSet(q) \cup ToSet(em)
  <2>1. PICK b : b = Tail(batch)
    OBVIOUS
  <2>2. b \in Seq(Emissions) /\ emits \in Seq(Emissions)
    BY <1>1, <2>1, BatchShape DEF RunsInv, TypeOK, KernelTyped
  <2>3. Associates(Emissions)
    BY ConcatAssociates, Zenon
  <2>4. Queue' = b \o (emits \o em)
    BY <1>1, <1>13, <2>1 DEF Queue
  <2>5. Queue' = q \o em
    BY <1>6, <1>13, <2>1, <2>2, <2>3, <2>4, Zenon DEF Associates
  <2> QED BY <1>7, <1>13, <2>5, ToSetConcat DEF Emitted
<1> QED BY <1>1, <1>4, <1>5, <1>7, <1>11, <1>12, <1>14, LossActs

LEMMA ObserveLoss ==
    ASSUME RunsInv, WorkInv, LossInv, NEW c, Observe(c) PROVE LossInv'
<1>1. /\ Idle /\ todo' = <<Flush>> /\ fate[c] # "unsent"
      /\ UNCHANGED <<fate, batch, lost, requests, replied>>
    BY DEF Observe, wire
<1>2. PICK r \in Live : /\ c \in runs[r].open
                        /\ \E y, em : /\ Acts(r, y, em, {}) /\ y.signal = runs[r].signal
                                      /\ runs[r].open \subseteq y.open
    BY ObserveActs
<1>3. PICK y, em : /\ Acts(r, y, em, {}) /\ y.signal = runs[r].signal
                   /\ runs[r].open \subseteq y.open
    BY <1>2
<1>4. Steps = {}
    BY <1>1, IdleFacts
<1>k. /\ Live' = Live /\ runs'[r] = y /\ \A x \in Runs : x # r => runs'[x] = runs[x]
      /\ \A x \in Live : /\ runs'[x].request = runs[x].request
                         /\ runs'[x].outputFailed = runs[x].outputFailed
    BY <1>3, ActsKernel DEF RunsInv
<1>s. \A x \in Live : runs'[x].signal = runs[x].signal /\ runs[x].open \subseteq runs'[x].open
    BY <1>3, <1>k DEF Live
<1>5. \A t \in Steps' : t.op # "reply"
    BY <1>1, FlushOnly, StepFields
<1>6. \A x : ~Settling(x) /\ Start(x) \notin Steps
    BY <1>4 DEF Settling
<1>7. \A x \in Live : Attended(x) => Attended(x)'
    BY <1>1, <1>6, <1>s, AttendedKept
<1>8. Attended(r)
  <2>1. fate[c] = "sent"
    BY <1>1, <1>2 DEF WorkInv, OpenIsAsked
  <2> QED BY <1>2, <2>1 DEF Attended
<1>9. Emitted' = Emitted \cup ToSet(em)
    BY <1>1, <1>3, EmitsMore DEF Acts
<1>10. ASSUME NEW e \in Emitted', e.run \in Live' PROVE Attended(e.run)'
  <2>1. PICK x : x = e.run
    OBVIOUS
  <2>2. x \in Live /\ Attended(x)
    BY <1>3, <1>k, <1>8, <1>9, <1>10, <2>1 DEF LossInv, Acts
  <2> QED BY <1>7, <2>1, <2>2
<1> QED BY <1>1, <1>k, <1>s, <1>5, <1>6, <1>7, <1>10, LossReplies, RequestsNat, LossKeeps

LEMMA CompactedLoss ==
    ASSUME RunsInv, LossInv, NEW c, Compacted(c) PROVE LossInv'
<1>1. PICK r \in Live : emits' = Append(emits, Event(r)) /\ todo' = <<Flush, Settle(r)>>
    BY DEF Compacted, Waiting
<1>2. /\ Idle /\ runs' = runs /\ caps' = caps
      /\ UNCHANGED <<fate, batch, lost, requests, replied>>
    BY DEF Compacted, wire
<1>3. \E y, em : Acts(r, y, em, {})
    BY <1>1, <1>2, EventActs DEF RunsInv
<1> QED BY <1>1, <1>2, <1>3, ActivationLoss

LEMMA FlushEmitted ==
    ASSUME RunsInv, WorkInv, batch # <<>>, batch' = Tail(batch), emits' = emits
    PROVE  Head(batch) \in Emitted /\ Emitted' \subseteq Emitted
<1>1. PICK q : q = Tail(batch) \o emits
    OBVIOUS
<1>2. Emitted = {Head(batch)} \cup ToSet(q)
    BY <1>1, QueuePops
<1>3. Emitted' = ToSet(q)
    BY <1>1 DEF Emitted, Queue
<1> QED BY <1>2, <1>3

LEMMA SendLoss ==
    ASSUME RunsInv, WorkInv, LossInv, Send PROVE LossInv'
<1>1. /\ At("flush") /\ batch # <<>> /\ batch' = Tail(batch) /\ UNCHANGED host /\ runs' = runs
      /\ emits' = emits /\ lost' = lost
    BY DEF Send, kernel
<1>2. PICK h : h = Head(batch)
    OBVIOUS
<1>3. /\ h \in Emitted
      /\ \A c \in 1..MaxCaps : ~(c = h.id /\ (IsAsk(h) \/ IsCancel(h))) => fate'[c] = fate[c]
      /\ IsAsk(h) => fate'[h.id] = "sent"
    BY <1>1, <1>2, SendShape
<1>4. Emitted' \subseteq Emitted /\ Live' = Live
    BY <1>1, FlushEmitted DEF Live
<1>5. Steps' = Steps /\ requests' = requests /\ replied' = replied
    BY <1>1 DEF host, Steps
<1>6. \A x : /\ Settling(x) => Settling(x)'
             /\ Start(x) \in Steps => Start(x) \in Steps'
    BY <1>5, Zenon DEF Settling, Settle, Decide, Start
<1>7. \A x \in Live : \A c \in runs[x].open : fate[c] = "sent" => fate'[c] = "sent"
  <2> TAKE x \in Live
  <2> TAKE c \in runs[x].open
  <2>1. c \in 1..MaxCaps
    BY LiveContext DEF RunsInv, TypeOK, Contexts
  <2>2. ~(IsCancel(h) /\ c = h.id)
    BY <1>1, <1>3, FlushUndelivered
  <2> QED BY <1>3, <2>1, <2>2
<1>8. \A x \in Live : Attended(x) => Attended(x)'
    BY <1>1, <1>6, <1>7, AttendedKept
<1>9. ASSUME NEW e \in Emitted', e.run \in Live' PROVE Attended(e.run)'
  <2>1. PICK x : x = e.run
    OBVIOUS
  <2>2. x \in Live /\ Attended(x)
    BY <1>4, <1>9, <2>1 DEF LossInv
  <2> QED BY <1>8, <2>1, <2>2
<1> QED BY <1>1, <1>4, <1>5, <1>6, <1>8, <1>9, LossReplies, RequestsNat, LossKeeps

(* An emission of run r is lost: its output has failed, or fails now. *)
LEMMA LossRecorded ==
    ASSUME RunsInv, LossInv, UNCHANGED host, fate' = fate, Emitted' \subseteq Emitted,
           NEW r \in Live, lost' = lost \cup {runs[r].request}, Attended(r),
           Live' = Live, runs'[r].outputFailed,
           \A x \in Live : x # r => runs'[x].outputFailed = runs[x].outputFailed,
           \A x \in Live : /\ runs'[x].open = runs[x].open /\ runs'[x].request = runs[x].request
                           /\ runs'[x].signal = runs[x].signal
    PROVE  LossInv'
<1>1. Steps' = Steps /\ requests' = requests /\ replied' = replied
    BY DEF host, Steps
<1>2. \A x : /\ Settling(x) => Settling(x)'
             /\ Start(x) \in Steps => Start(x) \in Steps'
    BY <1>1, Zenon DEF Settling, Settle, Decide, Start
<1>3. \A x \in Live : Attended(x) => Attended(x)'
    BY <1>2, AttendedKept
<1>4. PICK n : n = runs[r].request
    OBVIOUS
<1>5. n <= requests /\ replied[n] = <<>> /\ active[r] = n /\ r \in Runs
    BY <1>4, OwedNoReply DEF RunsInv, RepliesOwed, Live
<1>6. \A q \in lost' : q <= requests'
    BY <1>1, <1>4, <1>5 DEF LossInv
<1>7. NoSuccessAfterLoss'
    BY <1>1, <1>4, <1>5 DEF LossInv, NoSuccessAfterLoss
<1>8. ASSUME NEW t \in Steps', t.op = "reply", t.status = "completed" PROVE t.request \notin lost'
  <2>1. t.request \notin lost
    BY <1>1, <1>8 DEF LossInv
  <2>2. StepSound(t)
    BY <1>1 DEF RunsInv, StepsSound
  <2>3. t.request # n
    BY <1>5, <1>8, <2>2 DEF StepSound
  <2> QED BY <1>4, <2>1, <2>3
<1>9. ASSUME NEW x \in Live
      PROVE  /\ runs'[x].request \in lost' => runs'[x].outputFailed
             /\ runs'[x].signal # "none" => Settling(x)'
             /\ runs'[x].outputFailed => Attended(x)'
  <2>1. /\ runs[x].request \in lost => runs[x].outputFailed
        /\ runs[x].signal # "none" => Settling(x)
        /\ runs[x].outputFailed => Attended(x)
    BY DEF LossInv
  <2>2. CASE x = r
    BY <1>2, <1>3, <2>1, <2>2
  <2>3. CASE x # r
    <3>1. runs[x].request # n
      BY <1>4, <2>3, OneRunPerRequest
    <3> QED BY <1>2, <1>3, <1>4, <2>1, <2>3, <3>1
  <2> QED BY <2>2, <2>3
<1>10. ASSUME NEW e \in Emitted', e.run \in Live' PROVE Attended(e.run)'
  <2>1. PICK x : x = e.run
    OBVIOUS
  <2>2. x \in Live /\ Attended(x)
    BY <1>10, <2>1 DEF LossInv
  <2> QED BY <1>3, <2>1, <2>2
<1> QED BY <1>6, <1>7, <1>8, <1>9, <1>10, Zenon DEF LossInv

LEMMA WithholdLoss ==
    ASSUME RunsInv, WorkInv, LossInv, Withhold PROVE LossInv'
<1>1. /\ batch # <<>> /\ batch' = Tail(batch) /\ UNCHANGED host /\ runs' = runs
      /\ emits' = emits /\ fate' = fate /\ Withheld(Head(batch))
      /\ lost' = lost \cup {runs[Head(batch).run].request}
    BY DEF Withhold, kernel
<1>2. PICK r : r = Head(batch).run
    OBVIOUS
<1>3. r \in Live /\ runs[r].outputFailed /\ lost' = lost \cup {runs[r].request}
    BY <1>1, <1>2, BatchShape, Zenon DEF Withheld, Live
<1>4. Attended(r)
    BY <1>3 DEF LossInv
<1>5. Emitted' \subseteq Emitted /\ Live' = Live
    BY <1>1, FlushEmitted DEF Live
<1> QED BY <1>1, <1>3, <1>4, <1>5, LossRecorded

LEMMA RefuseEventLoss ==
    ASSUME RunsInv, WorkInv, LossInv, RefuseEvent PROVE LossInv'
<1>1. /\ batch # <<>> /\ batch' = Tail(batch) /\ UNCHANGED host
      /\ emits' = emits /\ fate' = fate /\ Head(batch).run \in Live
      /\ runs' = [runs EXCEPT ![Head(batch).run].outputFailed = TRUE]
      /\ lost' = lost \cup {runs[Head(batch).run].request}
    BY DEF RefuseEvent, Refusing
<1>2. PICK r : r = Head(batch).run
    OBVIOUS
<1>3. r \in Live /\ r \in Runs /\ KernelTyped /\ lost' = lost \cup {runs[r].request}
    BY <1>1, <1>2 DEF Live, RunsInv, TypeOK
<1>4. PICK y : y = [runs[r] EXCEPT !.outputFailed = TRUE]
    OBVIOUS
<1>5. runs[r] \in Contexts /\ y \in Contexts /\ y.open = runs[r].open /\ y.request = runs[r].request
      /\ y.outputFailed /\ y.signal = runs[r].signal
    BY <1>3, <1>4, LiveContext DEF Contexts
<1>6. runs' = [runs EXCEPT ![r] = y]
    BY <1>1, <1>2, <1>4
<1>7. Live' = Live /\ runs'[r] = y /\ \A x \in Runs : x # r => runs'[x] = runs[x]
    BY <1>3, <1>5, <1>6, LiveKept
<1>8. \A x \in Live : /\ runs'[x].open = runs[x].open /\ runs'[x].request = runs[x].request
                      /\ runs'[x].signal = runs[x].signal
                      /\ x # r => runs'[x].outputFailed = runs[x].outputFailed
    BY <1>5, <1>7 DEF Live
<1>9. Head(batch) \in Emitted /\ Emitted' \subseteq Emitted
    BY <1>1, FlushEmitted
<1>10. Attended(r)
    BY <1>2, <1>3, <1>9 DEF LossInv
<1> QED BY <1>1, <1>3, <1>5, <1>7, <1>8, <1>9, <1>10, LossRecorded

LEMMA FinishLoss ==
    ASSUME RunsInv, LossInv, NEW op \in {"decide", "end", "start"}, At(op), NEW r, r = Head(todo).run,
           NEW status \in {"completed", "failed", "killed"}, Finish(r, status),
           status = "completed" => runs[r].request \notin lost
    PROVE  LossInv'
<1>1. EndRuns({r}) /\ UNCHANGED <<fate, batch, lost, requests, replied>>
    BY DEF Finish, wire
<1>2. /\ r \in Live /\ active[r] \in Requests /\ active[r] = runs[r].request
      /\ Steps' = {Flush, Reply(active[r], status)} \cup Rest
    BY FinishSteps
<1>3. Steps = {Head(todo)} \cup Rest /\ Head(todo).op = op
    BY AtFacts
<1>4. Live' = Live \ {r} /\ \A x \in Live' : runs'[x] = runs[x]
    BY <1>1, <1>2, EndRunsKernel
<1>5. PICK em : Torn({r}, em) /\ emits' = emits \o em
    BY <1>1, <1>2, EndRunsKernel
<1>6. em \in Seq(Emissions) /\ \A e \in ToSet(em) : e.run = r
    BY <1>5, Zenon DEF Torn
<1>7. Emitted' = Emitted \cup ToSet(em)
    BY <1>1, <1>5, <1>6, EmitsMore
<1>8. \A x : x # r => Settle(x) # Head(todo) /\ Decide(x) # Head(todo) /\ Start(x) # Head(todo)
    BY DEF Settle, Decide, Start
<1>9. \A x : x # r => /\ Settling(x) => Settling(x)'
                      /\ Start(x) \in Steps => Start(x) \in Steps'
    BY <1>2, <1>3, <1>8, Zenon DEF Settling, Settle, Decide, Start
<1>10. \A x \in Live' : x \in Live /\ (Attended(x) => Attended(x)') /\ (Settling(x) => Settling(x)')
    BY <1>1, <1>4, <1>9, AttendedKept
<1>11. ASSUME NEW e \in Emitted', e.run \in Live' PROVE Attended(e.run)'
  <2>1. PICK x : x = e.run
    OBVIOUS
  <2>2. x \in Live' /\ x \in Live /\ Attended(x)
    BY <1>4, <1>6, <1>7, <1>11, <2>1 DEF LossInv
  <2> QED BY <1>10, <2>1, <2>2
<1>12. ASSUME NEW t \in Steps', t.op = "reply", t.status = "completed" PROVE t.request \notin lost
  <2>1. CASE t \in Rest
    BY <1>3, <1>12, <2>1, LossReplies
  <2>2. CASE t = Reply(active[r], status)
    <3>1. t.status = status /\ t.request = active[r]
      BY <1>2, <2>2, StepFields
    <3> QED BY <1>2, <1>12, <3>1
  <2>3. t # Flush
    BY <1>12, StepFields
  <2> QED BY <1>2, <2>1, <2>2, <2>3
<1> QED BY <1>1, <1>4, <1>10, <1>11, <1>12, LossReplies, RequestsNat, LossKeeps

LEMMA EndingStepLoss ==
    ASSUME RunsInv, LossInv, Decided \/ EndRun \/ StartFails PROVE LossInv'
<1>1. PICK r : r = Head(todo).run
    OBVIOUS
<1>2. CASE Decided
  <2>1. Verdict(runs[r]) \in {"completed", "failed"}
    BY <1>1, <1>2 DEF Decided, Verdict
  <2>2. Verdict(runs[r]) = "completed" => ~runs[r].outputFailed
    BY DEF Verdict
  <2>3. r \in Live
    BY <1>1, <1>2, AtFacts DEF Decided, StepSound, OfRun
  <2>4. Verdict(runs[r]) = "completed" => runs[r].request \notin lost
    BY <2>2, <2>3 DEF LossInv
  <2> QED BY <1>1, <1>2, <2>1, <2>4, FinishLoss DEF Decided
<1>3. CASE EndRun
  <2>1. Head(todo).status \in {"killed", "failed"}
    BY <1>3, AtFacts, StepKinds DEF EndRun
  <2> QED BY <1>1, <1>3, <2>1, FinishLoss DEF EndRun
<1>4. CASE StartFails
    BY <1>1, <1>4, FinishLoss DEF StartFails
<1> QED BY <1>2, <1>3, <1>4

LEMMA ExecuteLoss ==
    ASSUME RunsInv, WorkInv, LossInv, NEW r \in Runs, NEW s \in Sessions, Execute(r, s) PROVE LossInv'
<1>1. /\ Idle /\ UNCHANGED <<fate, batch, lost, replied>> /\ requests' = requests + 1
    BY DEF Execute, wire
<1>2. PICK n, rs : n = requests' /\ rs = Stale(s)
    OBVIOUS
<1>3. /\ Live' = (Live \ rs) \cup {r} /\ rs \subseteq Live /\ r \notin Live
      /\ runs'[r] = Context(s, n) /\ \A x \in Live \ rs : runs'[x] = runs[x]
      /\ Start(r) \in Steps'
      /\ \A t \in Steps' : t = Flush \/ t = Start(r) \/ \E x \in rs : t = Reaped(x)
    BY <1>2, ExecuteShape
<1>4. PICK em : Torn(rs, em) /\ emits' = emits \o em \o <<Event(r)>>
    BY <1>2, ExecuteShape
<1>5. em \in Seq(Emissions) /\ \A e \in ToSet(em) : e.run \in rs
    BY <1>4, Zenon DEF Torn
<1>6. PICK ev : ev = Event(r)
    OBVIOUS
<1>7. ev \in Emissions /\ ev.run = r
    BY <1>6, EventShape
<1>8. PICK one : one = <<ev>>
    OBVIOUS
<1>9. one \in Seq(Emissions) /\ ToSet(one) = {ev}
  <2>1. <<ev>> \in Seq(Emissions)
    BY <1>7
  <2> QED BY <1>8, <2>1, ToSetSmall
<1>10. PICK all : all = em \o one
    OBVIOUS
<1>11. all \in Seq(Emissions) /\ ToSet(all) = ToSet(em) \cup {ev}
    BY <1>5, <1>9, <1>10, ToSetConcat
<1>12. emits' = emits \o all
  <2>1. Associates(Emissions) /\ emits \in Seq(Emissions)
    BY ConcatAssociates, Zenon DEF RunsInv, TypeOK, KernelTyped
  <2>2. emits' = (emits \o em) \o one
    BY <1>4, <1>6, <1>8
  <2> QED BY <1>5, <1>9, <1>10, <2>1, <2>2, Zenon DEF Associates
<1>13. Emitted' = ToSet(em) \cup {ev}
    BY <1>1, <1>11, <1>12, EmitsMore, IdleQueue
<1>14. Steps = {}
    BY <1>1, IdleFacts
<1>15. \A x : ~Settling(x) /\ Start(x) \notin Steps
    BY <1>14 DEF Settling
<1>16. \A x \in Live \ rs : Attended(x) => Attended(x)'
    BY <1>1, <1>3, <1>15, AttendedKept
<1>17. Attended(r)'
    BY <1>3, Zenon DEF Attended, Start
<1>18. ASSUME NEW e \in Emitted', e.run \in Live' PROVE Attended(e.run)'
  <2>1. PICK x : x = e.run
    OBVIOUS
  <2>2. x = r
    BY <1>3, <1>5, <1>7, <1>13, <1>18, <2>1
  <2> QED BY <1>17, <2>1, <2>2
<1>19. ~runs'[r].outputFailed /\ runs'[r].signal = "none" /\ runs'[r].request \notin lost
  <2>1. ~Context(s, n).outputFailed /\ Context(s, n).signal = "none" /\ Context(s, n).request = n
    BY DEF Context
  <2> QED BY <1>1, <1>2, <1>3, <2>1, NewNotLost
<1>20. \A t \in Steps' : t.op # "reply"
  <2>1. rs \subseteq Runs
    BY <1>3 DEF Live
  <2> QED BY <1>3, <2>1, StepFields
<1> QED BY <1>1, <1>3, <1>15, <1>16, <1>18, <1>19, <1>20, LossReplies, NewNotLost, LossKeeps

LEMMA InterruptRunLoss ==
    ASSUME RunsInv, LossInv, NEW r \in Runs, InterruptRun(r) PROVE LossInv'
<1>1. /\ Idle /\ runs' = runs /\ UNCHANGED <<fate, batch, lost, requests, replied>>
    BY DEF InterruptRun, wire
<1>2. /\ r \in Live
      /\ Steps' = {Deliver(r, c) : c \in runs[r].open} \cup {Mark(r), Flush, Settle(r)}
    BY InterruptShape
<1>3. PICK em : CancelsAll(em, r, runs[r].open, caps) /\ emits' = emits \o em
    BY InterruptShape
<1>4. em \in Seq(Emissions) /\ \A e \in ToSet(em) : e.run = r
    BY <1>3, Zenon DEF CancelsAll
<1>5. Emitted' = Emitted \cup ToSet(em)
    BY <1>1, <1>3, <1>4, EmitsMore
<1>6. Live' = Live /\ Steps = {}
    BY <1>1, IdleFacts DEF Live
<1>7. Settling(r)'
    BY <1>2 DEF Settling
<1>8. Attended(r)'
    BY <1>7 DEF Attended
<1>9. \A x : ~Settling(x) /\ Start(x) \notin Steps
    BY <1>6 DEF Settling
<1>10. \A x \in Live : Attended(x) => Attended(x)'
    BY <1>1, <1>9, AttendedKept
<1>11. ASSUME NEW e \in Emitted', e.run \in Live' PROVE Attended(e.run)'
  <2>1. PICK x : x = e.run
    OBVIOUS
  <2>2. CASE x = r
    BY <1>8, <2>1, <2>2
  <2>3. CASE x # r
    <3>1. x \in Live /\ Attended(x)
      BY <1>4, <1>5, <1>6, <1>11, <2>1, <2>3 DEF LossInv
    <3> QED BY <1>10, <2>1, <3>1
  <2> QED BY <2>2, <2>3
<1>12. \A t \in Steps' : t.op # "reply"
  <2>1. \A c : Deliver(r, c).op = "deliver"
    BY DEF Deliver
  <2> QED BY <1>2, <2>1, StepFields
<1> QED BY <1>1, <1>6, <1>9, <1>10, <1>11, <1>12, LossReplies, RequestsNat, LossKeeps

(* The process is ending: no run is left. *)
LEMMA LossGone ==
    ASSUME RunsInv, LossInv, Live' = {}, UNCHANGED <<lost, requests, replied>>,
           \A t \in Steps' : t.op # "reply"
    PROVE  LossInv'
BY LossReplies, RequestsNat, LossKeeps

LEMMA EndingLoss ==
    ASSUME RunsInv, LossInv, Shutdown \/ Abort \/ WriterClosed PROVE LossInv'
<1>1. UNCHANGED <<lost, requests, replied>>
    BY DEF Shutdown, Abort, WriterClosed, Ending, wire
<1>2. CASE WriterClosed
  <2>1. Live' = {} /\ todo' = <<>>
    BY <1>2 DEF WriterClosed, Live
  <2>2. Steps' = {}
    BY <2>1, NoProgram
  <2> QED BY <1>1, <2>1, <2>2, LossGone
<1>3. ASSUME NEW how, Ending(how) PROVE LossInv'
  <2>1. EndRuns(Live) /\ todo' = <<Flush>>
    BY <1>3 DEF Ending
  <2>2. Live' = Live \ Live
    BY <2>1, EndRunsKernel
  <2>3. \A t \in Steps' : t.op # "reply"
    BY <2>1, FlushOnly, StepFields
  <2> QED BY <1>1, <2>2, <2>3, LossGone
<1>4. CASE Abort /\ process # "up"
  <2>1. todo' = <<>> /\ runs' = runs
    BY <1>4 DEF Abort, kernel
  <2>2. Live' = {}
    BY <1>4, <2>1 DEF RunsInv, EndedIsOver, Live
  <2>3. Steps' = {}
    BY <2>1, NoProgram
  <2> QED BY <1>1, <2>2, <2>3, LossGone
<1> QED BY <1>2, <1>3, <1>4 DEF Shutdown, Abort

LEMMA InitLoss ==
    Init => LossInv
<1> SUFFICES ASSUME Init PROVE LossInv
    OBVIOUS
<1>1. /\ runs = [r \in Runs |-> NoRun] /\ emits = <<>> /\ batch = <<>> /\ todo = <<>> /\ lost = {}
    BY DEF Init
<1>2. Queue = <<>> /\ Steps = {} /\ Live = {}
    BY <1>1 DEF Queue, Steps, ToSet, Live
<1>3. Emitted = {}
    BY <1>2 DEF Emitted, ToSet
<1> QED BY <1>1, <1>2, <1>3 DEF LossInv, NoSuccessAfterLoss

LEMMA NextLoss ==
    ASSUME RunsInv, WorkInv, LossInv, [Next]_vars PROVE LossInv'
<1>1. CASE Handler
  <2>1. CASE RejectExecute \/ KillAllRuns \/ Shutdown
    BY <2>1, RejectExecuteLoss, KillsLoss, EndingLoss
  <2>2. ASSUME NEW r \in Runs, ExecuteDuplicate(r) \/ \E s \in Sessions : Execute(r, s)
        PROVE  LossInv'
    BY <2>2, ExecuteDuplicateLoss, ExecuteLoss
  <2>3. ASSUME NEW r \in Runs, \/ Apply(r) \/ ApplyRejected(r) \/ ResumeActor(r)
                               \/ KillRun(r) \/ TerminateRun(r) \/ InterruptRun(r)
        PROVE  LossInv'
    BY <2>3, HandlersLoss, KillsLoss, InterruptRunLoss
  <2>4. ASSUME NEW c \in 1..MaxCaps, Answer(c) \/ Observe(c) \/ Compacted(c) PROVE LossInv'
    BY <2>4, AnswerLoss, ObserveLoss, CompactedLoss
  <2> QED BY <1>1, <2>1, <2>2, <2>3, <2>4, Zenon DEF Handler
<1>2. CASE Step
  <2>1. CASE Drain \/ Drained \/ Withhold \/ Send
    BY <2>1, DrainLoss, DrainedLoss, WithholdLoss, SendLoss
  <2>2. CASE RefuseInvoke \/ RefuseEvent \/ Abort
    BY <2>2, RefuseInvokeLoss, RefuseEventLoss, EndingLoss
  <2>3. CASE SettleRun \/ Undecided \/ Decided \/ EndRun \/ StartFails
    BY <2>3, SettleRunLoss, UndecidedLoss, EndingStepLoss
  <2>4. CASE SendReply \/ SettleReaped
    BY <2>4, SendReplyLoss, SettleReapedLoss
  <2>5. CASE StartProgram \/ StartWithoutOutput \/ DeliverInterrupted \/ MarkInterrupted
    BY <2>5, StartProgramLoss, SettleRunLoss, InterruptedLoss
  <2> QED BY <1>2, <2>1, <2>2, <2>3, <2>4, <2>5, Zenon DEF Step
<1>3. CASE WriterClosed
    BY <1>3, EndingLoss
<1>4. CASE UNCHANGED vars
  <2>1. /\ runs' = runs /\ fate' = fate /\ Emitted' = Emitted /\ Steps' = Steps /\ lost' = lost
        /\ requests' = requests /\ replied' = replied
    BY <1>4 DEF vars, kernel, wire, host, Queue, Emitted, Steps
  <2>2. \A x : Settling(x) => Settling(x)'
    BY <2>1, Zenon DEF Settling, Settle, Decide
  <2> QED BY <2>1, <2>2, RequestsNat, LossReplies, LossSame
<1> QED BY <1>1, <1>2, <1>3, <1>4 DEF Next

LEMMA LossInvImplies ==
    RunsInv /\ LossInv => LossReported
<1> SUFFICES ASSUME RunsInv, LossInv PROVE LossReported
    OBVIOUS
<1>1. FailureIsNoticed
  <2> SUFFICES ASSUME Idle, NEW r \in Live
               PROVE  /\ runs[r].signal = "none"
                      /\ runs[r].outputFailed => \E c \in runs[r].open : fate[c] = "sent"
    BY DEF FailureIsNoticed
  <2>1. Steps = {}
    BY IdleFacts
  <2>2. ~Settling(r) /\ Start(r) \notin Steps
    BY <2>1 DEF Settling
  <2> QED BY <2>2 DEF LossInv, Attended
<1> QED BY <1>1 DEF LossInv, LossReported

(* A run that had an emission other than an invocation refused, or any     *)
(* emission withheld after that, is never reported completed, and a run    *)
(* whose output failed is not forgotten: between two events it waits for   *)
(* an answer that will settle it (flush_emits, settle_run).  A refused     *)
(* invocation is answered to its actor as an error instead.                *)
THEOREM MagLossReported == Spec => []LossReported
<1>1. Init => LossInv
    BY InitLoss
<1>2. RunsInv /\ WorkInv /\ LossInv /\ [Next]_vars => LossInv'
    BY NextLoss
<1>3. RunsInv /\ LossInv => LossReported
    BY LossInvImplies
<1> QED BY <1>1, <1>2, <1>3, WorkInvariant, PTL DEF Spec
=============================================================================
