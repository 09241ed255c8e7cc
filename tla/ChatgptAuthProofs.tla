-------------------------- MODULE ChatgptAuthProofs --------------------------
(***************************************************************************)
(* Proofs about the credentials of the ChatGPT provider, for any number of *)
(* callers, accounts, tokens and user acts: the credentials in use go back *)
(* to the user's last choice, and concurrent refreshes leave a session     *)
(* that can be continued.                                                  *)
(***************************************************************************)
EXTENDS ChatgptAuth, TLAPS

\* A call that holds refresh_lock over its request.
Holding == {"posting", "fresh", "refused", "transient"}

\* The holder of the lock exchanges the credentials it observed: as long as
\* they are the ones in use, nothing about them has changed.
Exchanges ==
    \A t \in Tasks : task[t].pc \in Holding =>
        /\ lock = t
        /\ task[t].prior \in Credentials /\ task[t].prior.tok = task[t].obs
        /\ task[t].obs <= minted
        /\ auth # None /\ auth.tok = task[t].obs =>
              auth = task[t].prior /\ source = "Oauth"

\* Leases are named by the user acts that began them, and the one in force is
\* not older than the last logout or auth.set.
Leases ==
    /\ 0 \notin logins /\ cut <= era
    /\ active # 0 => active >= cut

\* Tokens are counted as they are handed out.
Counted ==
    /\ auth # None => auth.tok <= minted
    /\ disk # None => disk.tok <= minted
    /\ other # None => other.tok <= minted /\ other.from.tok <= minted
    /\ \A n \in live : n <= minted
    /\ auth # None /\ source = "Oauth" /\ disk # None /\ auth.tok = disk.tok =>
          auth.acct = disk.acct

\* What another process has been given and not saved nobody else knows.
OtherPrivate ==
    other # None =>
        /\ other.tok \in live /\ other.tok # other.from.tok
        /\ auth # None => auth.tok # other.tok
        /\ disk # None => disk.tok # other.tok
        /\ disk # None /\ disk.tok = other.from.tok => disk = other.from
        /\ \A t \in Tasks : task[t].pc \in Holding => task[t].obs # other.tok

\* Nor what this process has been given and not applied.
FreshPrivate ==
    \A t \in Tasks : task[t].pc = "fresh" =>
        /\ task[t].new \in live /\ task[t].new # task[t].obs
        /\ auth # None => auth.tok # task[t].new
        /\ disk # None => disk.tok # task[t].new
        /\ other # None => other.tok # task[t].new /\ other.from.tok # task[t].new

\* A token is being replaced by this process.
InExchange(tok) == \E t \in Tasks : task[t].pc = "fresh" /\ task[t].obs = tok

\* A spent token in the file is one that another process is about to replace.
DiskCovered ==
    disk # None /\ ~trouble /\ disk.tok \notin live /\ ~InExchange(disk.tok) =>
        other # None /\ other.from.tok = disk.tok /\ other.acct = disk.acct

\* A spent token in memory has its successor in the file, or on its way there.
AuthCovered ==
    /\ source = "Oauth" /\ auth.acct # None /\ ~trouble
    /\ auth.tok \notin live /\ ~InExchange(auth.tok)
    => /\ disk # None /\ disk.acct = auth.acct
       /\ other # None => other.acct = auth.acct /\ other.from.acct = auth.acct

AuthInv ==
    /\ TypeOK /\ LateAnswersDropped /\ IdentityStands /\ StatusTruthful
    /\ Exchanges /\ Leases /\ Counted /\ OtherPrivate /\ FreshPrivate
    /\ DiskCovered /\ AuthCovered

Pcs == {"idle", "asked", "wait", "posting", "fresh", "refused", "transient", "failed"}

CallType == [pc : Pcs, obs : 0..MaxTokens, prior : Credentials \cup {None},
             new : 0..MaxTokens]

States == {"Connected", "LoginRequired", "LoginInProgress", "Error"}

-----------------------------------------------------------------------------
(* Values. *)

\* The limits, and that None is none of the things it stands in for.
LEMMA Marks ==
    /\ MaxTokens \in Nat \ {0} /\ MaxEras \in Nat
    /\ None \notin Tasks /\ None \notin Accounts /\ None \notin Credentials
    /\ None \notin File /\ None \notin Save /\ None # "Oauth" /\ None # "AuthSet"
BY AuthBounds, NoneAssumption

\* A call at rest, at any of its points.
LEMMA IdleFacts ==
    /\ Idle \in CallType /\ Idle.pc = "idle" /\ Idle.obs = 0
    /\ Idle.prior = None /\ Idle.new = 0
<1>1. 0 \in 0..MaxTokens
  BY Marks
<1> QED
  BY <1>1 DEF Idle, CallType, Pcs

\* What the parts of the state are made of.
LEMMA Values ==
    ASSUME TypeOK
    PROVE  /\ auth # None => /\ auth \in Credentials /\ auth.tok \in Tokens
                             /\ auth.acct \in Accounts \cup {None} /\ auth.era \in Eras
           /\ disk # None => /\ disk \in File /\ disk.tok \in Tokens
                             /\ disk.acct \in Accounts \cup {None}
           /\ other # None => /\ other \in Save /\ other.tok \in Tokens
                              /\ other.acct \in Accounts \cup {None}
                              /\ other.from \in File /\ other.from.tok \in Tokens
                              /\ other.from.acct \in Accounts \cup {None}
           /\ task \in [Tasks -> CallType]
           /\ minted \in Nat /\ minted <= MaxTokens /\ era \in Nat /\ cut \in Nat
           /\ active \in Nat /\ live \subseteq Tokens
           /\ source = "Oauth" => auth # None
           /\ \A n \in Tokens : n \in Nat /\ n # 0
           /\ \A l \in Eras : l \in Nat
<1>1. /\ auth \in Credentials \cup {None} /\ disk \in File \cup {None}
      /\ other \in Save \cup {None}
  BY DEF TypeOK
<1>2. auth # None => /\ auth \in Credentials /\ auth.tok \in Tokens
                     /\ auth.acct \in Accounts \cup {None} /\ auth.era \in Eras
  BY <1>1 DEF Credentials
<1>3. disk # None => /\ disk \in File /\ disk.tok \in Tokens
                     /\ disk.acct \in Accounts \cup {None}
  BY <1>1 DEF File
<1>4. other # None => /\ other \in Save /\ other.tok \in Tokens
                      /\ other.acct \in Accounts \cup {None}
                      /\ other.from \in File /\ other.from.tok \in Tokens
                      /\ other.from.acct \in Accounts \cup {None}
  <2>1. ASSUME other # None PROVE other \in Save /\ other.from \in File
    BY <1>1, <2>1 DEF Save
  <2> QED
    BY <2>1 DEF Save, File
<1>5. task \in [Tasks -> CallType]
  BY DEF TypeOK, CallType, Pcs
<1>6. /\ minted \in Nat /\ minted <= MaxTokens /\ era \in Nat /\ cut \in Nat
      /\ active \in Nat /\ live \subseteq Tokens
      /\ \A n \in Tokens : n \in Nat /\ n # 0
      /\ \A l \in Eras : l \in Nat
  BY Marks DEF TypeOK, Eras, Tokens
<1>7. source = "Oauth" => auth # None
  <2>1. (auth = None) = (source = None) /\ source \in {"Oauth", "AuthSet", None}
    BY DEF TypeOK
  <2> QED
    BY <2>1, Marks
<1> QED
  BY <1>2, <1>3, <1>4, <1>5, <1>6, <1>7


-----------------------------------------------------------------------------
(* Calls. *)

\* One call moves on and nothing else changes, except that it may give up the
\* lock, that trouble may be noted and that the state may become "Error".
LEMMA CallMoves ==
    ASSUME AuthInv, NEW t \in Tasks, NEW w \in CallType, task' = [task EXCEPT ![t] = w],
           UNCHANGED <<auth, source, active, logins, disk, other, live, minted, era, cut, who>>,
           state' \in {state, "Error"}, lock' \in Tasks \cup {None},
           trouble' \in BOOLEAN, trouble => trouble',
           w.pc # "fresh",
           task[t].pc = "fresh" =>
                \/ trouble'
                \/ /\ auth # None => auth.tok # task[t].obs
                   /\ disk # None => disk.tok # task[t].obs,
           w.pc \in Holding =>
                /\ lock' = t /\ w.prior \in Credentials /\ w.prior.tok = w.obs
                /\ w.obs <= minted
                /\ auth # None /\ auth.tok = w.obs => auth = w.prior /\ source = "Oauth"
                /\ other # None => w.obs # other.tok,
           \A u \in Tasks : u # t /\ task[u].pc \in Holding => lock' = u
    PROVE  AuthInv'
<1>0. /\ TypeOK /\ LateAnswersDropped /\ IdentityStands /\ StatusTruthful
      /\ Exchanges /\ Leases /\ Counted /\ OtherPrivate /\ FreshPrivate
      /\ DiskCovered /\ AuthCovered
  BY DEF AuthInv
<1>1. task \in [Tasks -> CallType]
  BY <1>0, Values
<1>2. /\ task'[t] = w /\ \A u \in Tasks : u # t => task'[u] = task[u]
      /\ task' \in [Tasks -> CallType]
  BY <1>1
<1>3. TypeOK'
  BY <1>0, <1>2 DEF TypeOK, CallType, Pcs
<1>4. LateAnswersDropped' /\ IdentityStands' /\ StatusTruthful' /\ Leases' /\ Counted'
  BY <1>0 DEF LateAnswersDropped, IdentityStands, StatusTruthful, Leases, Counted
<1>5. Exchanges'
  BY <1>0, <1>2 DEF Exchanges
<1>6. OtherPrivate'
  BY <1>0, <1>2 DEF OtherPrivate
<1>7. FreshPrivate'
  BY <1>0, <1>2 DEF FreshPrivate
<1>8. ASSUME NEW tok, ~trouble', InExchange(tok), ~InExchange(tok)'
      PROVE  task[t].pc = "fresh" /\ task[t].obs = tok
  BY <1>2, <1>8 DEF InExchange
<1>9. DiskCovered'
  BY <1>0, <1>8 DEF DiskCovered
<1>10. AuthCovered'
  <2>1. source = "Oauth" => auth # None
    BY <1>0, Values
  <2> QED
    BY <1>0, <1>8, <2>1 DEF AuthCovered
<1> QED
  BY <1>3, <1>4, <1>5, <1>6, <1>7, <1>9, <1>10 DEF AuthInv

\* adopt_disk_locked, by the call that holds the lock or by one that found it
\* free: the file has a successor of the same account.
LEMMA AdoptMoves ==
    ASSUME AuthInv, NEW t \in Tasks, NEW w \in CallType, task' = [task EXCEPT ![t] = w],
           CanAdopt, AdoptDisk, lock' \in Tasks \cup {None},
           UNCHANGED <<logins, disk, other, live, minted, era, cut, who, trouble>>,
           w.pc \notin Holding,
           task[t].pc = "fresh" => task[t].obs = auth.tok,
           \A u \in Tasks : task[u].pc \in Holding => u = t
    PROVE  AuthInv'
<1>0. /\ TypeOK /\ LateAnswersDropped /\ IdentityStands /\ StatusTruthful
      /\ Exchanges /\ Leases /\ Counted /\ OtherPrivate /\ FreshPrivate
      /\ DiskCovered /\ AuthCovered
  BY DEF AuthInv
<1>1. task \in [Tasks -> CallType]
  BY <1>0, Values
<1>2. /\ task'[t] = w /\ \A u \in Tasks : u # t => task'[u] = task[u]
      /\ task' \in [Tasks -> CallType]
      /\ \A u \in Tasks : task'[u].pc \notin Holding
  BY <1>1
<1>3. /\ source = "Oauth" /\ auth # None /\ disk # None /\ auth \in Credentials
      /\ disk.tok # auth.tok /\ disk.acct = auth.acct /\ disk.acct # None
      /\ disk.tok \in Tokens /\ disk.acct \in Accounts \cup {None}
  BY <1>0, Values DEF CanAdopt, SameAccount
<1>4. /\ auth' \in Credentials /\ auth'.tok = disk.tok /\ auth'.acct = disk.acct
      /\ auth'.era = auth.era /\ source' = "Oauth" /\ state' = "Connected"
      /\ active' = active
  <2>1. auth' = [auth EXCEPT !.tok = disk.tok, !.acct = disk.acct]
    BY DEF AdoptDisk
  <2>2. auth' \in Credentials
    BY <1>3, <2>1, Zenon DEF Credentials
  <2> QED
    BY <1>3, <2>1, <2>2 DEF AdoptDisk, Credentials
<1>5. auth' # None
  BY <1>4, Marks
<1>6. TypeOK'
  BY <1>0, <1>2, <1>4, <1>5, Marks DEF TypeOK, CallType, Pcs
<1>7. LateAnswersDropped' /\ IdentityStands' /\ StatusTruthful' /\ Leases'
  BY <1>0, <1>3, <1>4, <1>5 DEF LateAnswersDropped, IdentityStands, StatusTruthful, Leases
<1>8. Counted'
  BY <1>0, <1>3, <1>4 DEF Counted
<1>9. Exchanges' /\ FreshPrivate'
  BY <1>2 DEF Exchanges, FreshPrivate, Holding
<1>10. OtherPrivate'
  BY <1>0, <1>2, <1>3, <1>4 DEF OtherPrivate
<1>11. ~InExchange(disk.tok)
  BY <1>3 DEF InExchange, Holding
<1>12. DiskCovered'
  BY <1>0, <1>11 DEF DiskCovered
<1>13. AuthCovered'
  <2> SUFFICES ASSUME ~trouble, disk.tok \notin live
               PROVE  other # None => /\ other.acct = disk.acct
                                      /\ other.from.acct = disk.acct
    BY <1>3, <1>4 DEF AuthCovered
  <2>1. other # None /\ other.from.tok = disk.tok /\ other.acct = disk.acct
    BY <1>0, <1>3, <1>11 DEF DiskCovered
  <2>2. disk = other.from
    BY <1>0, <1>3, <2>1 DEF OtherPrivate
  <2> QED
    BY <2>1, <2>2
<1> QED
  BY <1>6, <1>7, <1>8, <1>9, <1>10, <1>12, <1>13 DEF AuthInv


\* The endpoint exchanges the token of the call that holds the lock.
LEMMA ExchangeMoves ==
    ASSUME AuthInv, NEW t \in Tasks, task[t].pc = "posting", task[t].obs \in live,
           NEW n \in Tokens, n = minted + 1, minted' = n,
           live' = (live \ {task[t].obs}) \cup {n},
           task' = [task EXCEPT ![t].pc = "fresh", ![t].new = n],
           UNCHANGED <<store, logins, lock, disk, other, history>>
    PROVE  AuthInv'
<1>0. /\ TypeOK /\ LateAnswersDropped /\ IdentityStands /\ StatusTruthful
      /\ Exchanges /\ Leases /\ Counted /\ OtherPrivate /\ FreshPrivate
      /\ DiskCovered /\ AuthCovered
  BY DEF AuthInv
<1>v. /\ UNCHANGED <<auth, state, source, active, logins, lock, disk, other>>
      /\ UNCHANGED <<era, cut, who, trouble>>
  BY DEF store, history
<1>1. /\ task \in [Tasks -> CallType] /\ minted \in Nat /\ n \in Nat /\ n > minted
      /\ n \in 0..MaxTokens /\ minted' \in 0..MaxTokens
      /\ \A m \in Tokens : m \in Nat
  BY <1>0, Values, Marks DEF Tokens
<1>2. /\ auth # None => auth.tok \in Nat /\ auth.tok < n
      /\ disk # None => disk.tok \in Nat /\ disk.tok < n
      /\ other # None => /\ other.tok \in Nat /\ other.from.tok \in Nat
                         /\ other.tok < n /\ other.from.tok < n
      /\ task[t].obs \in Nat /\ task[t].obs < n
      /\ \A m \in live : m \in Nat /\ m < n
  <2>1. task[t].obs \in Nat /\ task[t].obs <= minted
    BY <1>0, <1>1, Marks DEF Exchanges, Holding, CallType
  <2> QED
    BY <1>0, <1>1, <2>1, Values DEF Counted
<1> DEFINE w == [task[t] EXCEPT !.pc = "fresh", !.new = n]
<1>3. /\ w \in CallType /\ w.pc = "fresh" /\ w.new = n /\ w.obs = task[t].obs
      /\ w.prior = task[t].prior
  <2>1. task[t] \in CallType
    BY <1>1
  <2>2. w \in CallType
    BY <1>1, <2>1, Zenon DEF CallType, Pcs
  <2> QED
    BY <2>1, <2>2 DEF CallType
<1>4. task' = [task EXCEPT ![t] = w]
  BY <1>1
<1> HIDE DEF w
<1>5. /\ task'[t] = w /\ \A u \in Tasks : u # t => task'[u] = task[u]
      /\ task' \in [Tasks -> CallType]
  BY <1>1, <1>3, <1>4
<1>6. \A u \in Tasks : task[u].pc \in Holding => u = t
  BY <1>0 DEF Exchanges, Holding
<1>7. TypeOK'
  <2>1. live' \subseteq Tokens
    BY <1>0 DEF TypeOK
  <2> QED
    BY <1>0, <1>v, <1>1, <1>5, <2>1 DEF TypeOK, CallType, Pcs
<1>8. LateAnswersDropped' /\ IdentityStands' /\ StatusTruthful' /\ Leases'
  BY <1>0, <1>v DEF LateAnswersDropped, IdentityStands, StatusTruthful, Leases
<1>9. Counted'
  BY <1>0, <1>v, <1>1, <1>2 DEF Counted
<1>10. Exchanges'
  <2>1. task[t].pc \in Holding /\ "fresh" \in Holding
    BY DEF Holding
  <2> QED
    BY <1>0, <1>v, <1>1, <1>2, <1>3, <1>5, <1>6, <2>1 DEF Exchanges
<1>11. OtherPrivate'
  <2>1. task[t].pc \in Holding
    BY DEF Holding
  <2>2. other # None => task[t].obs # other.tok
    BY <1>0, <2>1 DEF OtherPrivate
  <2>3. \A u \in Tasks : task'[u].pc \in Holding => u = t
    BY <1>5, <1>6
  <2> QED
    BY <1>0, <1>v, <1>3, <1>5, <2>2, <2>3 DEF OtherPrivate
<1>12. FreshPrivate'
  <2>1. \A u \in Tasks : task'[u].pc = "fresh" => u = t
    BY <1>5, <1>6 DEF Holding
  <2> QED
    BY <1>v, <1>2, <1>3, <1>5, <2>1 DEF FreshPrivate
<1>13. ASSUME NEW tok, tok \notin live', ~InExchange(tok)'
       PROVE  tok \notin live /\ ~InExchange(tok)
  BY <1>3, <1>5, <1>13 DEF InExchange
<1>14. DiskCovered'
  BY <1>0, <1>v, <1>13 DEF DiskCovered
<1>15. AuthCovered'
  BY <1>0, <1>v, <1>13 DEF AuthCovered
<1> QED
  BY <1>7, <1>8, <1>9, <1>10, <1>11, <1>12, <1>14, <1>15 DEF AuthInv

\* The fresh tokens are applied and saved.
LEMMA FreshApplies ==
    ASSUME AuthInv, NEW t \in Tasks, task[t].pc = "fresh", Returned(t),
           ~Superseded(t), NEW a \in Merged(task[t].prior.acct),
           auth' = [task[t].prior EXCEPT !.tok = task[t].new, !.acct = a],
           disk' = [tok |-> task[t].new, acct |-> a],
           state' = "Connected", source' = "Oauth", UNCHANGED <<active, trouble>>,
           who' = (IF auth.era = task[t].prior.era THEN a ELSE who),
           UNCHANGED <<logins, other, server, era, cut>>
    PROVE  AuthInv'
<1>0. /\ TypeOK /\ LateAnswersDropped /\ IdentityStands /\ StatusTruthful
      /\ Exchanges /\ Leases /\ Counted /\ OtherPrivate /\ FreshPrivate
      /\ DiskCovered /\ AuthCovered
  BY DEF AuthInv
<1>v. UNCHANGED <<live, minted>>
  BY DEF server
<1>1. /\ task \in [Tasks -> CallType] /\ auth # None /\ auth = task[t].prior
      /\ source = "Oauth" /\ auth \in Credentials
  BY <1>0, Values DEF Superseded, Exchanges, Holding
<1> DEFINE n == task[t].new
<1>2. /\ n \in live /\ n \in Tokens /\ n <= minted
      /\ other # None => other.tok # n /\ other.from.tok # n
  BY <1>0, Values DEF FreshPrivate, Counted
<1>3. a \in Accounts \cup {None} /\ who' = a
  BY <1>1 DEF Merged, Credentials
<1>4. /\ auth' \in Credentials /\ auth'.tok = n /\ auth'.acct = a /\ auth'.era = auth.era
      /\ auth' # None
  <2>1. auth' \in Credentials
    BY <1>1, <1>2, <1>3, Zenon DEF Credentials
  <2> QED
    BY <1>1, <2>1, Marks DEF Credentials
<1>5. disk' \in File /\ disk'.tok = n /\ disk'.acct = a /\ disk' # None
  BY <1>2, <1>3, Marks DEF File
<1>6. /\ task' \in [Tasks -> CallType] /\ \A u \in Tasks : task'[u].pc \notin Holding
  <2>1. task' = [task EXCEPT ![t] = Idle]
    BY DEF Returned
  <2>2. Idle \in CallType /\ Idle.pc \notin Holding
    BY IdleFacts DEF Holding
  <2>3. \A u \in Tasks : task[u].pc \in Holding => u = t
    BY <1>0 DEF Exchanges, Holding
  <2> QED
    BY <1>1, <2>1, <2>2, <2>3
<1> HIDE DEF n
<1>7. TypeOK'
  BY <1>0, <1>v, <1>3, <1>4, <1>5, <1>6, Marks DEF TypeOK, CallType, Pcs, Returned
<1>8. LateAnswersDropped' /\ IdentityStands' /\ StatusTruthful' /\ Leases'
  BY <1>0, <1>1, <1>3, <1>4 DEF LateAnswersDropped, IdentityStands, StatusTruthful, Leases
<1>9. Counted'
  BY <1>0, <1>v, <1>2, <1>4, <1>5 DEF Counted
<1>10. Exchanges' /\ FreshPrivate'
  BY <1>6 DEF Exchanges, FreshPrivate, Holding
<1>11. OtherPrivate'
  BY <1>0, <1>v, <1>2, <1>4, <1>5, <1>6 DEF OtherPrivate
<1>12. DiskCovered' /\ AuthCovered'
  BY <1>v, <1>2, <1>4, <1>5 DEF DiskCovered, AuthCovered
<1> QED
  BY <1>7, <1>8, <1>9, <1>10, <1>11, <1>12 DEF AuthInv


\* Every step of a call.
LEMMA CallStepKeeps ==
    ASSUME AuthInv, NEW t \in Tasks,
           Ask(t) \/ Observe(t) \/ EnterRefresh(t) \/ Call(t) \/ AnswerLost(t) \/ Drop(t)
    PROVE  AuthInv'
<1>0. /\ TypeOK /\ StatusTruthful /\ Exchanges /\ OtherPrivate /\ Counted
      /\ task \in [Tasks -> CallType] /\ task[t] \in CallType
      /\ state \in States /\ lock \in Tasks \cup {None} /\ trouble \in BOOLEAN
      /\ None \notin Tasks
  BY Values, Marks DEF AuthInv, TypeOK, States
<1>i. Idle \in CallType /\ Idle.pc = "idle" /\ "idle" \notin Holding
  BY IdleFacts DEF Holding
<1>l. /\ lock = None => \A u \in Tasks : task[u].pc \notin Holding
      /\ task[t].pc \in Holding => \A u \in Tasks : task[u].pc \in Holding => u = t
      /\ \A u \in Tasks : task[u].pc \in Holding => lock = u
  BY <1>0 DEF Exchanges
<1>1. ASSUME task' = [task EXCEPT ![t] = Idle],
             UNCHANGED <<store, logins, disk, other, server, history>>,
             task[t].pc # "fresh",
             \/ lock' = lock /\ task[t].pc \notin Holding
             \/ lock' = None /\ task[t].pc \in Holding
      PROVE  AuthInv'
  <2>1. /\ UNCHANGED <<auth, state, source, active, logins, disk, other, live, minted>>
        /\ UNCHANGED <<era, cut, who, trouble>>
    BY <1>1 DEF store, server, history
  <2>2. \A u \in Tasks : u # t /\ task[u].pc \in Holding => lock' = u
    BY <1>1, <1>l
  <2>3. lock' \in Tasks \cup {None}
    BY <1>0, <1>1
  <2> QED
    BY <1>0, <1>i, <1>1, <2>1, <2>2, <2>3, CallMoves
<1>2. CASE Ask(t)
  <2> DEFINE w == [Idle EXCEPT !.pc = "asked", !.obs = auth.tok]
  <2>1. auth.tok \in 0..MaxTokens
    BY <1>0, <1>2, Values DEF Ask, StatusTruthful, Tokens
  <2>2. w \in CallType /\ w.pc = "asked"
    BY <1>i, <2>1, Zenon DEF CallType, Pcs
  <2>3. task' = [task EXCEPT ![t] = w] /\ task[t].pc = "idle"
        /\ UNCHANGED <<auth, state, source, active, logins, lock, disk, other, live>>
        /\ UNCHANGED <<minted, era, cut, who, trouble>>
    BY <1>2 DEF Ask, store, server, history
  <2> HIDE DEF w
  <2> QED
    BY <1>0, <1>l, <2>2, <2>3, CallMoves DEF Holding
<1>3. CASE Observe(t)
  <2>0. /\ UNCHANGED <<auth, state, source, active, logins, lock, disk, other, live>>
        /\ UNCHANGED <<minted, era, cut, who, trouble>> /\ task[t].pc \in {"idle", "asked"}
    BY <1>3 DEF Observe, store, server, history
  <2>1. \E w \in CallType : task' = [task EXCEPT ![t] = w] /\ w.pc = "wait"
    <3>1. CASE task' = [task EXCEPT ![t].pc = "wait"]
      <4> DEFINE w == [task[t] EXCEPT !.pc = "wait"]
      <4>1. w \in CallType /\ w.pc = "wait"
        BY <1>0, Zenon DEF CallType, Pcs
      <4>2. task' = [task EXCEPT ![t] = w]
        BY <1>0, <3>1
      <4> QED
        BY <4>1, <4>2
    <3>2. CASE /\ auth # None
               /\ task' = [task EXCEPT ![t] = [Idle EXCEPT !.pc = "wait", !.obs = auth.tok]]
      <4> DEFINE w == [Idle EXCEPT !.pc = "wait", !.obs = auth.tok]
      <4>1. auth.tok \in 0..MaxTokens
        BY <1>0, <3>2, Values DEF Tokens
      <4>2. w \in CallType /\ w.pc = "wait"
        BY <1>i, <4>1, Zenon DEF CallType, Pcs
      <4> QED
        BY <3>2, <4>2
    <3> QED
      BY <1>3, <3>1, <3>2 DEF Observe
  <2>2. PICK w \in CallType : task' = [task EXCEPT ![t] = w] /\ w.pc = "wait"
    BY <2>1
  <2> QED
    BY <1>0, <1>l, <2>0, <2>2, CallMoves DEF Holding
<1>4. CASE EnterRefresh(t)
  <2>0. /\ task[t].pc = "wait" /\ lock = None
        /\ UNCHANGED <<logins, disk, other, server, history>>
        /\ UNCHANGED <<live, minted, era, cut, who, trouble>>
    BY <1>4 DEF EnterRefresh, server, history
  <2>1. CASE source # "Oauth" \/ auth.tok # task[t].obs
    BY <1>1, <1>4, <2>0, <2>1 DEF EnterRefresh, Holding
  <2>2. CASE ~(source # "Oauth" \/ auth.tok # task[t].obs) /\ CanAdopt
    BY <1>0, <1>i, <1>l, <1>4, <2>0, <2>2, AdoptMoves DEF EnterRefresh
  <2>3. CASE ~(source # "Oauth" \/ auth.tok # task[t].obs) /\ ~CanAdopt
    <3> DEFINE w == [task[t] EXCEPT !.pc = "posting", !.prior = auth]
    <3>1. task' = [task EXCEPT ![t].pc = "posting", ![t].prior = auth] /\ lock' = t
          /\ UNCHANGED <<auth, state, source, active>>
      BY <1>4, <2>3 DEF EnterRefresh, store
    <3>2. task' = [task EXCEPT ![t] = w]
      BY <1>0, <3>1
    <3>3. /\ source = "Oauth" /\ auth.tok = task[t].obs /\ auth # None
          /\ auth \in Credentials
      BY <1>0, <2>3, Values
    <3>4. w \in CallType
      BY <1>0, <3>3, Zenon DEF CallType, Pcs
    <3>5. w.pc = "posting" /\ w.prior = auth /\ w.obs = task[t].obs
      BY <1>0 DEF CallType
    <3> HIDE DEF w
    <3>6. w.obs <= minted /\ (other # None => w.obs # other.tok)
      BY <1>0, <3>3, <3>5 DEF Counted, OtherPrivate
    <3> QED
      BY <1>0, <1>l, <2>0, <3>1, <3>2, <3>3, <3>4, <3>5, <3>6, CallMoves DEF Holding
  <2> QED
    BY <2>1, <2>2, <2>3
<1>5. CASE Endpoint(t)
  <2>0. /\ task[t].pc = "posting" /\ task[t].pc \in Holding
        /\ UNCHANGED <<store, logins, lock, disk, other, history>>
        /\ UNCHANGED <<auth, state, source, active, era, cut, who, trouble>>
    BY <1>5 DEF Endpoint, store, history, Holding
  <2>1. ASSUME NEW n \in Tokens, task[t].obs \in live, Mint(n),
               live' = (live \ {task[t].obs}) \cup {n},
               task' = [task EXCEPT ![t].pc = "fresh", ![t].new = n]
        PROVE  AuthInv'
    BY <2>0, <2>1, ExchangeMoves DEF Mint
  <2>2. ASSUME NEW pc \in {"refused", "transient"}, task' = [task EXCEPT ![t].pc = pc],
               UNCHANGED server
        PROVE  AuthInv'
    <3> DEFINE w == [task[t] EXCEPT !.pc = pc]
    <3>1. w \in CallType
      <4>1. pc \in Pcs
        BY <2>2 DEF Pcs
      <4> QED
        BY <1>0, <4>1, Zenon DEF CallType
    <3>2. task' = [task EXCEPT ![t] = w]
      BY <1>0, <2>2
    <3>3. w.pc = pc /\ w.prior = task[t].prior /\ w.obs = task[t].obs
      BY <1>0 DEF CallType
    <3> HIDE DEF w
    <3>4. /\ lock = t /\ w.prior \in Credentials /\ w.prior.tok = w.obs
          /\ w.obs <= minted
          /\ auth # None /\ auth.tok = w.obs => auth = w.prior /\ source = "Oauth"
      BY <1>0, <2>0, <3>3 DEF Exchanges
    <3>5. other # None => w.obs # other.tok
      BY <1>0, <2>0, <3>3 DEF OtherPrivate
    <3>6. UNCHANGED <<live, minted>>
      BY <2>2 DEF server
    <3> QED
      BY <1>0, <1>l, <2>0, <2>2, <3>1, <3>2, <3>3, <3>4, <3>5, <3>6, CallMoves
  <2> QED
    BY <1>5, <2>1, <2>2 DEF Endpoint
<1>6. CASE ApplyFresh(t)
  <2>0. /\ task[t].pc = "fresh" /\ task[t].pc \in Holding /\ Returned(t)
        /\ task' = [task EXCEPT ![t] = Idle] /\ lock' = None
        /\ UNCHANGED <<logins, other, server, era, cut>>
        /\ UNCHANGED <<live, minted>>
    BY <1>6 DEF ApplyFresh, Returned, server, Holding
  <2>1. CASE /\ Superseded(t)
             /\ trouble' = (trouble \/ (disk # None /\ disk.tok = task[t].obs))
             /\ UNCHANGED <<store, disk, who>>
    <3>1. /\ trouble' \in BOOLEAN /\ (trouble => trouble')
          /\ \/ trouble'
             \/ /\ auth # None => auth.tok # task[t].obs
                /\ disk # None => disk.tok # task[t].obs
      BY <2>1 DEF Superseded
    <3>2. UNCHANGED <<auth, state, source, active, disk, who>>
      BY <2>1 DEF store
    <3> QED
      BY <1>0, <1>i, <1>l, <2>0, <3>1, <3>2, CallMoves
  <2>2. CASE ~Superseded(t) /\ CanAdopt /\ AdoptDisk /\ UNCHANGED <<disk, trouble, who>>
    BY <1>0, <1>i, <1>l, <2>0, <2>2, AdoptMoves DEF Superseded
  <2>3. ASSUME ~Superseded(t), NEW a \in Merged(task[t].prior.acct),
               auth' = [task[t].prior EXCEPT !.tok = task[t].new, !.acct = a],
               disk' = [tok |-> task[t].new, acct |-> a],
               who' = (IF auth.era = task[t].prior.era THEN a ELSE who),
               state' = "Connected", source' = "Oauth", UNCHANGED <<active, trouble>>
        PROVE  AuthInv'
    BY <2>0, <2>3, FreshApplies
  <2>4. CASE trouble' = TRUE /\ UNCHANGED <<store, disk, who>>
    <3>1. UNCHANGED <<auth, state, source, active, disk, who>>
      BY <2>4 DEF store
    <3> QED
      BY <1>0, <1>i, <1>l, <2>0, <2>4, <3>1, CallMoves
  <2> QED
    BY <1>6, <2>1, <2>2, <2>3, <2>4 DEF ApplyFresh
<1>7. CASE ApplyFailure(t)
  <2>0. /\ task[t].pc \in {"refused", "transient"} /\ task[t].pc \in Holding
        /\ lock' = None /\ UNCHANGED <<logins, disk, other, server, history>>
        /\ UNCHANGED <<live, minted, era, cut, who, trouble>>
    BY <1>7 DEF ApplyFailure, server, history, Holding
  <2>1. PICK w \in CallType : task' = [task EXCEPT ![t] = w] /\ w.pc \in {"idle", "failed"}
    <3>1. /\ [Idle EXCEPT !.pc = "failed"] \in CallType
          /\ [Idle EXCEPT !.pc = "failed"].pc = "failed"
      BY <1>i, Zenon DEF CallType, Pcs
    <3> QED
      BY <1>i, <1>7, <3>1 DEF ApplyFailure
  <2>2. CASE ~Superseded(t) /\ CanAdopt
    <3>1. AdoptDisk
      BY <1>7, <2>2 DEF ApplyFailure
    <3> QED
      BY <1>0, <1>l, <2>0, <2>1, <2>2, <3>1, AdoptMoves DEF Holding
  <2>3. CASE ~(~Superseded(t) /\ CanAdopt)
    <3>1. UNCHANGED <<auth, state, source, active>>
      BY <1>7, <2>3 DEF ApplyFailure, store
    <3> QED
      BY <1>0, <1>l, <2>0, <2>1, <3>1, CallMoves DEF Holding
  <2> QED
    BY <2>2, <2>3
<1>8. CASE MarkError(t)
  <2>1. /\ task[t].pc = "failed" /\ task' = [task EXCEPT ![t] = Idle] /\ state' = "Error"
        /\ UNCHANGED <<auth, source, active, logins, lock, disk, other>>
        /\ UNCHANGED <<live, minted, era, cut, who, trouble>>
    BY <1>8 DEF MarkError, server, history
  <2> QED
    BY <1>0, <1>i, <1>l, <2>1, CallMoves
<1>9. CASE Answered(t)
  <2>0. /\ task[t].pc = "asked" /\ task[t].pc \notin Holding
        /\ task' = [task EXCEPT ![t] = Idle]
        /\ UNCHANGED <<logins, lock, disk, other, server, history>>
        /\ UNCHANGED <<live, minted, era, cut, who, trouble>>
    BY <1>9 DEF Answered, server, history, Holding
  <2>1. CASE UNCHANGED store
    BY <1>1, <2>0, <2>1
  <2>2. CASE state' = "Error" /\ UNCHANGED <<auth, source, active>>
    BY <1>0, <1>i, <1>l, <2>0, <2>2, CallMoves
  <2>3. CASE lock = None /\ CanAdopt /\ AdoptDisk
    BY <1>0, <1>i, <1>l, <2>0, <2>3, AdoptMoves
  <2> QED
    BY <1>9, <2>1, <2>2, <2>3 DEF Answered
<1>10. CASE AnswerLost(t)
  <2> DEFINE w == [task[t] EXCEPT !.pc = "posting", !.new = 0]
  <2>0. /\ task[t].pc = "fresh" /\ task[t].pc \in Holding /\ trouble' = TRUE
        /\ task' = [task EXCEPT ![t].pc = "posting", ![t].new = 0]
        /\ UNCHANGED <<auth, state, source, active, logins, lock, disk, other, live>>
        /\ UNCHANGED <<minted, era, cut, who>>
    BY <1>10 DEF AnswerLost, store, server, Holding
  <2>1. task' = [task EXCEPT ![t] = w]
    BY <1>0, <2>0
  <2>2. w \in CallType
    <3>1. 0 \in 0..MaxTokens
      BY Marks
    <3> QED
      BY <1>0, <3>1, Zenon DEF CallType, Pcs
  <2>3. w.pc = "posting" /\ w.prior = task[t].prior /\ w.obs = task[t].obs
    BY <1>0 DEF CallType
  <2> HIDE DEF w
  <2>4. /\ lock = t /\ w.prior \in Credentials /\ w.prior.tok = w.obs
        /\ w.obs <= minted
        /\ auth # None /\ auth.tok = w.obs => auth = w.prior /\ source = "Oauth"
    BY <1>0, <2>0, <2>3 DEF Exchanges
  <2>5. other # None => w.obs # other.tok
    BY <1>0, <2>0, <2>3 DEF OtherPrivate
  <2> QED
    BY <1>0, <1>l, <2>0, <2>1, <2>2, <2>3, <2>4, <2>5, CallMoves
<1>11. CASE Drop(t)
  <2>1. /\ task' = [task EXCEPT ![t] = Idle]
        /\ UNCHANGED <<auth, state, source, active, logins, disk, other, live>>
        /\ UNCHANGED <<minted, era, cut, who>>
        /\ lock' = IF lock = t THEN None ELSE lock
    BY <1>11 DEF Drop, store, server
  <2>2. trouble' \in BOOLEAN /\ (trouble => trouble') /\ (task[t].pc = "fresh" => trouble')
    BY <1>11 DEF Drop
  <2>3. \A u \in Tasks : u # t /\ task[u].pc \in Holding => lock' = u
    BY <1>l, <2>1
  <2> QED
    BY <1>0, <1>i, <2>1, <2>2, <2>3, CallMoves
<1> QED
  BY <1>2, <1>3, <1>4, <1>5, <1>6, <1>7, <1>8, <1>9, <1>10, <1>11 DEF Call


-----------------------------------------------------------------------------
(* The user and other processes. *)

\* A token handed out now is newer than every token anybody knows of.
LEMMA NewToken ==
    ASSUME AuthInv, NEW n \in Tokens, Mint(n)
    PROVE  /\ n \in Nat /\ minted' = n /\ minted' \in 0..MaxTokens /\ minted < n
           /\ auth # None => auth.tok \in Nat /\ auth.tok < n
           /\ disk # None => disk.tok \in Nat /\ disk.tok < n
           /\ other # None => /\ other.tok \in Nat /\ other.from.tok \in Nat
                              /\ other.tok < n /\ other.from.tok < n
           /\ \A m \in live : m \in Nat /\ m < n
           /\ \A t \in Tasks : task[t].pc \in Holding =>
                 task[t].obs \in Nat /\ task[t].obs < n
           /\ \A t \in Tasks : task[t].pc = "fresh" =>
                 task[t].new \in Nat /\ task[t].new < n
<1>0. TypeOK /\ Exchanges /\ Counted /\ FreshPrivate
  BY DEF AuthInv
<1>1. /\ n \in Nat /\ minted' = n /\ minted' \in 0..MaxTokens /\ minted \in Nat
      /\ n = minted + 1 /\ minted < n /\ \A m \in Tokens : m \in Nat
  BY <1>0, Values, Marks DEF Mint, Tokens
<1>2. \A m \in live : m \in Nat /\ m < n
  BY <1>0, <1>1, Values DEF Counted
<1>3. /\ auth # None => auth.tok \in Nat /\ auth.tok < n
      /\ disk # None => disk.tok \in Nat /\ disk.tok < n
      /\ other # None => /\ other.tok \in Nat /\ other.from.tok \in Nat
                         /\ other.tok < n /\ other.from.tok < n
  BY <1>0, <1>1, Values DEF Counted
<1>4. ASSUME NEW t \in Tasks, task[t].pc \in Holding
      PROVE  task[t].obs \in Nat /\ task[t].obs < n
  <2>1. task[t].obs \in 0..MaxTokens /\ task[t].obs <= minted
    BY <1>0, <1>4, Values DEF Exchanges, CallType
  <2> QED
    BY <1>1, <2>1, Marks
<1>5. ASSUME NEW t \in Tasks, task[t].pc = "fresh"
      PROVE  task[t].new \in Nat /\ task[t].new < n
  BY <1>0, <1>2, <1>5 DEF FreshPrivate
<1> QED
  BY <1>1, <1>2, <1>3, <1>4, <1>5

\* begin_login takes a lease that no logout or auth.set has outdated.
LEMMA BeginLoginKeeps ==
    ASSUME AuthInv, BeginLogin
    PROVE  AuthInv'
<1>0. /\ TypeOK /\ LateAnswersDropped /\ IdentityStands /\ StatusTruthful
      /\ Exchanges /\ Leases /\ Counted /\ OtherPrivate /\ FreshPrivate
      /\ DiskCovered /\ AuthCovered
  BY DEF AuthInv
<1>v. UNCHANGED <<auth, source, task, lock, disk, other, live, minted, cut, who, trouble>>
  BY DEF BeginLogin, server
<1>1. /\ era' = era + 1 /\ era' \in Eras /\ era \in Nat /\ cut \in Nat /\ era' > 0
      /\ active' = era' /\ logins' = logins \cup {era'} /\ state' = "LoginInProgress"
  BY <1>0, Values, Marks DEF BeginLogin, Asked, Eras
<1>2. TypeOK'
  BY <1>0, <1>v, <1>1 DEF TypeOK
<1>3. Leases'
  BY <1>0, <1>v, <1>1 DEF Leases
<1>4. LateAnswersDropped' /\ IdentityStands' /\ StatusTruthful'
  BY <1>0, <1>v, <1>1 DEF LateAnswersDropped, IdentityStands, StatusTruthful
<1>5. Exchanges' /\ Counted' /\ OtherPrivate' /\ FreshPrivate'
  BY <1>0, <1>v DEF Exchanges, Counted, OtherPrivate, FreshPrivate
<1>6. DiskCovered' /\ AuthCovered'
  BY <1>0, <1>v DEF DiskCovered, AuthCovered, InExchange
<1> QED
  BY <1>2, <1>3, <1>4, <1>5, <1>6 DEF AuthInv

\* A login flow that returns: its result is applied under its lease only.
LEMMA LoginReturnsKeeps ==
    ASSUME AuthInv, NEW l \in Eras, LoginReturns(l)
    PROVE  AuthInv'
<1>0. /\ TypeOK /\ LateAnswersDropped /\ IdentityStands /\ StatusTruthful
      /\ Exchanges /\ Leases /\ Counted /\ OtherPrivate /\ FreshPrivate
      /\ DiskCovered /\ AuthCovered
  BY DEF AuthInv
<1>1. PICK n \in Tokens, a \in Accounts \cup {None} :
        /\ Mint(n) /\ live' = live \cup {n}
        /\ IF LeaseHolds(l)
           THEN /\ disk' = [tok |-> n, acct |-> a]
                /\ auth' = [tok |-> n, acct |-> a, era |-> l]
                /\ state' = "Connected" /\ source' = "Oauth" /\ active' = 0
                /\ who' = a /\ trouble' = FALSE
           ELSE UNCHANGED <<store, disk, who, trouble>>
  BY DEF LoginReturns
<1>2. /\ l \in logins /\ logins' = logins \ {l} /\ UNCHANGED <<task, lock, other, era, cut>>
  BY DEF LoginReturns
<1>3. /\ n \in Nat /\ minted' = n /\ minted' \in 0..MaxTokens /\ minted < n /\ minted \in Nat
      /\ auth # None => auth.tok \in Nat /\ auth.tok < n
      /\ disk # None => disk.tok \in Nat /\ disk.tok < n
      /\ other # None => /\ other.tok \in Nat /\ other.from.tok \in Nat
                         /\ other.tok < n /\ other.from.tok < n
      /\ \A m \in live : m \in Nat /\ m < n
      /\ \A t \in Tasks : task[t].pc \in Holding =>
            task[t].obs \in Nat /\ task[t].obs < n
      /\ \A t \in Tasks : task[t].pc = "fresh" =>
            task[t].new \in Nat /\ task[t].new < n
  BY <1>0, <1>1, NewToken, Values
<1>4. live' = live \cup {n} /\ live' \subseteq Tokens
  BY <1>0, <1>1, Values
<1>5. CASE LeaseHolds(l)
  <2>1. /\ auth' \in Credentials /\ auth'.tok = n /\ auth'.acct = a /\ auth'.era = l
        /\ auth' # None
    BY <1>1, <1>5, Marks DEF Credentials
  <2>2. /\ disk' \in File /\ disk'.tok = n /\ disk'.acct = a /\ disk' # None
    BY <1>1, <1>5, Marks DEF File
  <2>3. /\ state' = "Connected" /\ source' = "Oauth" /\ active' = 0
        /\ who' = a /\ trouble' = FALSE
    BY <1>1, <1>5
  <2>4. l # 0 /\ l >= cut
    BY <1>0, <1>2, <1>5 DEF Leases, LeaseHolds
  <2>5. 0 \in Eras
    BY Marks DEF Eras
  <2>6. TypeOK'
    BY <1>0, <1>2, <1>3, <1>4, <2>1, <2>2, <2>3, <2>5, Marks DEF TypeOK
  <2>7. LateAnswersDropped' /\ IdentityStands' /\ StatusTruthful' /\ Leases'
    BY <1>0, <1>2, <2>1, <2>3, <2>4
       DEF LateAnswersDropped, IdentityStands, StatusTruthful, Leases
  <2>8. Counted'
    BY <1>0, <1>2, <1>3, <1>4, <2>1, <2>2 DEF Counted
  <2>9. Exchanges'
    BY <1>0, <1>2, <1>3, <2>1 DEF Exchanges
  <2>10. OtherPrivate'
    BY <1>0, <1>2, <1>3, <1>4, <2>1, <2>2 DEF OtherPrivate
  <2>11. FreshPrivate'
    BY <1>0, <1>2, <1>3, <1>4, <2>1, <2>2 DEF FreshPrivate
  <2>12. DiskCovered' /\ AuthCovered'
    BY <1>4, <2>1, <2>2 DEF DiskCovered, AuthCovered
  <2> QED
    BY <2>6, <2>7, <2>8, <2>9, <2>10, <2>11, <2>12 DEF AuthInv
<1>6. CASE ~LeaseHolds(l)
  <2>v. UNCHANGED <<auth, state, source, active, disk, who, trouble>>
    BY <1>1, <1>6 DEF store
  <2>1. TypeOK'
    BY <1>0, <1>2, <1>3, <1>4, <2>v DEF TypeOK
  <2>2. LateAnswersDropped' /\ IdentityStands' /\ StatusTruthful' /\ Leases'
    BY <1>0, <1>2, <1>6, <2>v
       DEF LateAnswersDropped, IdentityStands, StatusTruthful, Leases, LeaseHolds
  <2>3. Counted'
    BY <1>0, <1>2, <1>3, <1>4, <2>v DEF Counted
  <2>4. Exchanges'
    BY <1>0, <1>2, <1>3, <2>v DEF Exchanges
  <2>5. OtherPrivate' /\ FreshPrivate'
    BY <1>0, <1>2, <1>4, <2>v DEF OtherPrivate, FreshPrivate
  <2>6. DiskCovered' /\ AuthCovered'
    BY <1>0, <1>2, <1>4, <2>v DEF DiskCovered, AuthCovered, InExchange
  <2> QED
    BY <2>1, <2>2, <2>3, <2>4, <2>5, <2>6 DEF AuthInv
<1> QED
  BY <1>5, <1>6


\* A login flow that fails.
LEMMA LoginFailsKeeps ==
    ASSUME AuthInv, NEW l \in Eras, LoginFails(l)
    PROVE  AuthInv'
<1>0. /\ TypeOK /\ LateAnswersDropped /\ IdentityStands /\ StatusTruthful
      /\ Exchanges /\ Leases /\ Counted /\ OtherPrivate /\ FreshPrivate
      /\ DiskCovered /\ AuthCovered
  BY DEF AuthInv
<1>v. /\ UNCHANGED <<auth, source, task, lock, disk, other, live, minted, era, cut, who>>
      /\ UNCHANGED trouble /\ logins' = logins \ {l}
      /\ IF LeaseHolds(l) THEN active' = 0 /\ state' = "Error"
                          ELSE UNCHANGED <<active, state>>
  BY DEF LoginFails, server, history
<1>1. 0 \in Eras
  BY Marks DEF Eras
<1>2. TypeOK'
  BY <1>0, <1>v, <1>1 DEF TypeOK
<1>3. LateAnswersDropped' /\ IdentityStands' /\ StatusTruthful' /\ Leases'
  BY <1>0, <1>v
     DEF LateAnswersDropped, IdentityStands, StatusTruthful, Leases, LeaseHolds
<1>4. Exchanges' /\ Counted' /\ OtherPrivate' /\ FreshPrivate'
  BY <1>0, <1>v DEF Exchanges, Counted, OtherPrivate, FreshPrivate
<1>5. DiskCovered' /\ AuthCovered'
  BY <1>0, <1>v DEF DiskCovered, AuthCovered, InExchange
<1> QED
  BY <1>2, <1>3, <1>4, <1>5 DEF AuthInv

\* apply_auth_set: nobody exchanges the token that was set.
LEMMA AuthSetKeeps ==
    ASSUME AuthInv, AuthSet
    PROVE  AuthInv'
<1>0. /\ TypeOK /\ LateAnswersDropped /\ IdentityStands /\ StatusTruthful
      /\ Exchanges /\ Leases /\ Counted /\ OtherPrivate /\ FreshPrivate
      /\ DiskCovered /\ AuthCovered
  BY DEF AuthInv
<1>1. PICK n \in Tokens : Mint(n) /\ auth' = [tok |-> n, acct |-> None, era |-> era']
  BY DEF AuthSet
<1>2. /\ state' = "Connected" /\ source' = "AuthSet" /\ active' = 0 /\ who' = None
      /\ cut' = era' /\ UNCHANGED <<logins, task, lock, disk, other, live, trouble>>
  BY DEF AuthSet
<1>3. era' \in Eras /\ 0 \in Eras /\ era' \in Nat
  BY <1>0, Values, Marks DEF AuthSet, Asked, Eras
<1>4. /\ n \in Nat /\ minted' = n /\ minted' \in 0..MaxTokens /\ minted < n /\ minted \in Nat
      /\ disk # None => disk.tok \in Nat /\ disk.tok < n
      /\ other # None => /\ other.tok \in Nat /\ other.from.tok \in Nat
                         /\ other.tok < n /\ other.from.tok < n
      /\ \A m \in live : m \in Nat /\ m < n
      /\ \A t \in Tasks : task[t].pc \in Holding =>
            task[t].obs \in Nat /\ task[t].obs < n
      /\ \A t \in Tasks : task[t].pc = "fresh" =>
            task[t].new \in Nat /\ task[t].new < n
  BY <1>0, <1>1, NewToken, Values
<1>5. /\ auth' \in Credentials /\ auth'.tok = n /\ auth'.acct = None
      /\ auth'.era = era' /\ auth' # None
  BY <1>1, <1>3, Marks DEF Credentials
<1>6. TypeOK'
  BY <1>0, <1>2, <1>3, <1>4, <1>5, Marks DEF TypeOK
<1>7. LateAnswersDropped' /\ IdentityStands' /\ StatusTruthful' /\ Leases'
  BY <1>0, <1>2, <1>3, <1>5
     DEF LateAnswersDropped, IdentityStands, StatusTruthful, Leases
<1>8. Counted'
  BY <1>0, <1>2, <1>4, <1>5 DEF Counted
<1>9. Exchanges'
  BY <1>0, <1>2, <1>4, <1>5 DEF Exchanges
<1>10. OtherPrivate'
  BY <1>0, <1>2, <1>4, <1>5 DEF OtherPrivate
<1>11. FreshPrivate'
  BY <1>0, <1>2, <1>4, <1>5 DEF FreshPrivate
<1>12. DiskCovered' /\ AuthCovered'
  BY <1>0, <1>2 DEF DiskCovered, AuthCovered, InExchange
<1> QED
  BY <1>6, <1>7, <1>8, <1>9, <1>10, <1>11, <1>12 DEF AuthInv

\* apply_logout, whether or not the file could be removed.
LEMMA LogoutKeeps ==
    ASSUME AuthInv, Logout
    PROVE  AuthInv'
<1>0. /\ TypeOK /\ LateAnswersDropped /\ IdentityStands /\ StatusTruthful
      /\ Exchanges /\ Leases /\ Counted /\ OtherPrivate /\ FreshPrivate
      /\ DiskCovered /\ AuthCovered
  BY DEF AuthInv
<1>1. /\ auth' = None /\ state' = "LoginRequired" /\ source' = None /\ active' = 0
      /\ disk' \in {disk, None} /\ who' = None /\ cut' = era'
      /\ UNCHANGED <<logins, task, lock, other, live, minted, trouble>>
  BY DEF Logout, server
<1>2. era' \in Eras /\ 0 \in Eras /\ era' \in Nat
  BY <1>0, Values, Marks DEF Logout, Asked, Eras
<1>3. TypeOK'
  BY <1>0, <1>1, <1>2 DEF TypeOK
<1>4. LateAnswersDropped' /\ IdentityStands' /\ StatusTruthful' /\ Leases'
  BY <1>0, <1>1, <1>2
     DEF LateAnswersDropped, IdentityStands, StatusTruthful, Leases
<1>5. Exchanges' /\ Counted' /\ OtherPrivate' /\ FreshPrivate'
  BY <1>0, <1>1 DEF Exchanges, Counted, OtherPrivate, FreshPrivate
<1>6. DiskCovered' /\ AuthCovered'
  BY <1>0, <1>1, Marks DEF DiskCovered, AuthCovered, InExchange
<1> QED
  BY <1>3, <1>4, <1>5, <1>6 DEF AuthInv

\* A login from the command line.
LEMMA OtherLoginKeeps ==
    ASSUME AuthInv, NEW a \in Accounts, OtherLogin(a)
    PROVE  AuthInv'
<1>0. /\ TypeOK /\ LateAnswersDropped /\ IdentityStands /\ StatusTruthful
      /\ Exchanges /\ Leases /\ Counted /\ OtherPrivate /\ FreshPrivate
      /\ DiskCovered /\ AuthCovered
  BY DEF AuthInv
<1>1. PICK n \in Tokens :
        Mint(n) /\ live' = live \cup {n} /\ disk' = [tok |-> n, acct |-> a]
  BY DEF OtherLogin
<1>2. /\ trouble' = (trouble \/ (auth # None /\ auth.acct # a))
      /\ UNCHANGED <<auth, state, source, active, logins, task, lock, other, era, cut, who>>
  BY DEF OtherLogin, store
<1>3. /\ n \in Nat /\ minted' = n /\ minted' \in 0..MaxTokens /\ minted < n /\ minted \in Nat
      /\ auth # None => auth.tok \in Nat /\ auth.tok < n
      /\ other # None => /\ other.tok \in Nat /\ other.from.tok \in Nat
                         /\ other.tok < n /\ other.from.tok < n
      /\ \A m \in live : m \in Nat /\ m < n
      /\ \A t \in Tasks : task[t].pc \in Holding =>
            task[t].obs \in Nat /\ task[t].obs < n
      /\ \A t \in Tasks : task[t].pc = "fresh" =>
            task[t].new \in Nat /\ task[t].new < n
  BY <1>0, <1>1, NewToken, Values
<1>4. live' = live \cup {n} /\ live' \subseteq Tokens
  BY <1>0, <1>1, Values
<1>5. disk' \in File /\ disk'.tok = n /\ disk'.acct = a /\ disk' # None
  BY <1>1, Marks DEF File
<1>6. TypeOK'
  BY <1>0, <1>2, <1>3, <1>4, <1>5 DEF TypeOK
<1>7. LateAnswersDropped' /\ IdentityStands' /\ StatusTruthful' /\ Leases'
  BY <1>0, <1>2 DEF LateAnswersDropped, IdentityStands, StatusTruthful, Leases
<1>8. Counted'
  <2>1. \A m \in live' : m <= n
    BY <1>3, <1>4
  <2>2. auth' # None => auth'.tok # n /\ auth'.tok <= n
    BY <1>2, <1>3
  <2>3. other' # None => other'.tok <= n /\ other'.from.tok <= n
    BY <1>2, <1>3
  <2> QED
    BY <1>3, <1>5, <2>1, <2>2, <2>3 DEF Counted
<1>9. Exchanges'
  BY <1>0, <1>2, <1>3 DEF Exchanges
<1>10. OtherPrivate'
  BY <1>0, <1>2, <1>3, <1>4, <1>5 DEF OtherPrivate
<1>11. FreshPrivate'
  BY <1>0, <1>2, <1>3, <1>4, <1>5 DEF FreshPrivate
<1>12. DiskCovered'
  BY <1>4, <1>5 DEF DiskCovered
<1>13. AuthCovered'
  <2>1. source = "Oauth" => auth # None
    BY <1>0, Values
  <2> QED
    BY <1>0, <1>2, <1>4, <1>5, <2>1 DEF AuthCovered, InExchange
<1> QED
  BY <1>6, <1>7, <1>8, <1>9, <1>10, <1>11, <1>12, <1>13 DEF AuthInv

\* Another process exchanges the token of the file.
LEMMA OtherRefreshKeeps ==
    ASSUME AuthInv, OtherRefresh
    PROVE  AuthInv'
<1>0. /\ TypeOK /\ LateAnswersDropped /\ IdentityStands /\ StatusTruthful
      /\ Exchanges /\ Leases /\ Counted /\ OtherPrivate /\ FreshPrivate
      /\ DiskCovered /\ AuthCovered
  BY DEF AuthInv
<1>1. PICK n \in Tokens, a \in Merged(disk.acct) :
        /\ Mint(n) /\ live' = (live \ {disk.tok}) \cup {n}
        /\ other' = [tok |-> n, acct |-> a, from |-> disk]
        /\ trouble' = (trouble \/ a # disk.acct)
  BY DEF OtherRefresh
<1>2. /\ other = None /\ disk # None /\ disk.tok \in live
      /\ UNCHANGED <<auth, state, source, active, logins, task, lock, disk, era, cut, who>>
  BY DEF OtherRefresh, store
<1>3. /\ n \in Nat /\ minted' = n /\ minted' \in 0..MaxTokens /\ minted < n /\ minted \in Nat
      /\ auth # None => auth.tok \in Nat /\ auth.tok < n
      /\ disk.tok \in Nat /\ disk.tok < n
      /\ \A m \in live : m \in Nat /\ m < n
      /\ \A t \in Tasks : task[t].pc \in Holding =>
            task[t].obs \in Nat /\ task[t].obs < n
      /\ \A t \in Tasks : task[t].pc = "fresh" =>
            task[t].new \in Nat /\ task[t].new < n
  BY <1>0, <1>1, <1>2, NewToken, Values
<1>4. live' = (live \ {disk.tok}) \cup {n} /\ live' \subseteq Tokens
  BY <1>0, <1>1, Values
<1>5. /\ other' \in Save /\ other'.tok = n /\ other'.acct = a /\ other'.from = disk
      /\ other' # None
  <2>1. a \in Accounts \cup {None} /\ disk \in File
    BY <1>0, <1>2, Values DEF Merged
  <2>2. other' \in Save
    BY <1>1, <2>1 DEF Save
  <2> QED
    BY <1>1, <2>2, Marks
<1>6. TypeOK'
  BY <1>0, <1>1, <1>2, <1>3, <1>4, <1>5 DEF TypeOK
<1>7. LateAnswersDropped' /\ IdentityStands' /\ StatusTruthful' /\ Leases'
  BY <1>0, <1>2 DEF LateAnswersDropped, IdentityStands, StatusTruthful, Leases
<1>8. Counted'
  BY <1>0, <1>2, <1>3, <1>4, <1>5 DEF Counted
<1>9. Exchanges'
  BY <1>0, <1>2, <1>3 DEF Exchanges
<1>10. OtherPrivate'
  BY <1>2, <1>3, <1>4, <1>5 DEF OtherPrivate
<1>11. FreshPrivate'
  BY <1>0, <1>2, <1>3, <1>4, <1>5 DEF FreshPrivate
<1>12. DiskCovered'
  BY <1>1, <1>2, <1>5 DEF DiskCovered
<1>13. AuthCovered'
  <2>1. source = "Oauth" => auth # None
    BY <1>0, Values
  <2>2. source = "Oauth" /\ auth.tok = disk.tok => auth.acct = disk.acct
    BY <1>0, <1>2, <2>1 DEF Counted
  <2>3. auth.tok \notin live' /\ auth.tok # disk.tok => auth.tok \notin live
    BY <1>4
  <2>4. ~trouble' => ~trouble /\ a = disk.acct
    BY <1>1
  <2> QED
    BY <1>0, <1>2, <1>5, <2>2, <2>3, <2>4 DEF AuthCovered, InExchange
<1> QED
  BY <1>6, <1>7, <1>8, <1>9, <1>10, <1>11, <1>12, <1>13 DEF AuthInv


\* Another process saves, unless the file has changed since it read it.
LEMMA OtherSaveKeeps ==
    ASSUME AuthInv, OtherSave
    PROVE  AuthInv'
<1>0. /\ TypeOK /\ LateAnswersDropped /\ IdentityStands /\ StatusTruthful
      /\ Exchanges /\ Leases /\ Counted /\ OtherPrivate /\ FreshPrivate
      /\ DiskCovered /\ AuthCovered
  BY DEF AuthInv
<1>1. /\ other # None /\ other' = None
      /\ UNCHANGED <<auth, state, source, active, logins, task, lock, live, minted>>
      /\ UNCHANGED <<era, cut, who, trouble>>
  BY DEF OtherSave, store, server, history
<1>2. /\ other.tok \in Tokens /\ other.acct \in Accounts \cup {None}
      /\ source = "Oauth" => auth # None
  BY <1>0, <1>1, Values
<1>3. CASE disk' = disk /\ disk # None /\ disk.tok # other.from.tok
  <2>1. TypeOK'
    BY <1>0, <1>1, <1>3 DEF TypeOK
  <2>2. Counted' /\ OtherPrivate' /\ FreshPrivate'
    BY <1>0, <1>1, <1>3 DEF Counted, OtherPrivate, FreshPrivate
  <2>3. DiskCovered' /\ AuthCovered'
    BY <1>0, <1>1, <1>3 DEF DiskCovered, AuthCovered, InExchange
  <2>4. LateAnswersDropped' /\ IdentityStands' /\ StatusTruthful' /\ Leases' /\ Exchanges'
    BY <1>0, <1>1
       DEF LateAnswersDropped, IdentityStands, StatusTruthful, Leases, Exchanges
  <2> QED
    BY <2>1, <2>2, <2>3, <2>4 DEF AuthInv
<1>4. CASE disk' = [tok |-> other.tok, acct |-> other.acct]
  <2>1. disk' \in File /\ disk'.tok = other.tok /\ disk'.acct = other.acct /\ disk' # None
    BY <1>2, <1>4, Marks DEF File
  <2>2. TypeOK'
    BY <1>0, <1>1, <2>1 DEF TypeOK
  <2>3. Counted' /\ OtherPrivate' /\ FreshPrivate'
    BY <1>0, <1>1, <2>1 DEF Counted, OtherPrivate, FreshPrivate
  <2>4. DiskCovered' /\ AuthCovered'
    BY <1>0, <1>1, <2>1 DEF DiskCovered, AuthCovered, InExchange, OtherPrivate
  <2>5. LateAnswersDropped' /\ IdentityStands' /\ StatusTruthful' /\ Leases' /\ Exchanges'
    BY <1>0, <1>1
       DEF LateAnswersDropped, IdentityStands, StatusTruthful, Leases, Exchanges
  <2> QED
    BY <2>2, <2>3, <2>4, <2>5 DEF AuthInv
<1> QED
  BY <1>3, <1>4 DEF OtherSave

\* What load_from_disk returns.
LEMMA LoadedFacts ==
    ASSUME disk \in File \cup {None}
    PROVE  /\ disk = None => /\ Loaded(disk).auth = None /\ Loaded(disk).source = None
                             /\ Loaded(disk).state = "LoginRequired"
           /\ disk # None =>
                /\ Loaded(disk).auth \in Credentials /\ Loaded(disk).auth # None
                /\ Loaded(disk).auth.tok = disk.tok /\ Loaded(disk).auth.acct = disk.acct
                /\ Loaded(disk).auth.era = 0
                /\ Loaded(disk).source = "Oauth" /\ Loaded(disk).state = "Connected"
<1>1. 0 \in Eras
  BY Marks DEF Eras
<1>2. ASSUME disk # None
      PROVE  [tok |-> disk.tok, acct |-> disk.acct, era |-> 0] \in Credentials
  BY <1>1, <1>2 DEF Credentials, File
<1> QED
  BY <1>2, Marks DEF Loaded

\* A provider that starts again has what the file has.
LEMMA RestartKeeps ==
    ASSUME AuthInv, Restart
    PROVE  AuthInv'
<1>0. /\ TypeOK /\ LateAnswersDropped /\ IdentityStands /\ StatusTruthful
      /\ Exchanges /\ Leases /\ Counted /\ OtherPrivate /\ FreshPrivate
      /\ DiskCovered /\ AuthCovered
  BY DEF AuthInv
<1>1. /\ auth' = Loaded(disk).auth /\ state' = Loaded(disk).state
      /\ source' = Loaded(disk).source /\ active' = 0
      /\ logins' = {} /\ task' = [t \in Tasks |-> Idle] /\ lock' = None
      /\ UNCHANGED <<disk, other, live, minted, era>> /\ cut' = 0
      /\ who' = (IF disk = None THEN None ELSE disk.acct)
      /\ trouble' = (trouble \/ \E t \in Tasks : task[t].pc = "fresh")
  BY DEF Restart, server
<1>2. /\ disk = None => auth' = None /\ source' = None /\ state' = "LoginRequired"
      /\ disk # None =>
           /\ auth' \in Credentials /\ auth' # None
           /\ auth'.tok = disk.tok /\ auth'.acct = disk.acct /\ auth'.era = 0
           /\ source' = "Oauth" /\ state' = "Connected"
  BY <1>0, <1>1, LoadedFacts DEF TypeOK
<1>3. /\ task' \in [Tasks -> CallType]
      /\ \A t \in Tasks : task'[t].pc \notin Holding /\ task'[t].pc # "fresh"
  BY <1>1, IdleFacts DEF Holding
<1>4. 0 \in Eras /\ era \in Nat /\ who' \in Accounts \cup {None} /\ trouble' \in BOOLEAN
  BY <1>0, <1>1, Values, Marks DEF Eras
<1>5. TypeOK'
  BY <1>0, <1>1, <1>2, <1>3, <1>4, Marks DEF TypeOK, CallType, Pcs
<1>6. LateAnswersDropped' /\ IdentityStands' /\ StatusTruthful' /\ Leases'
  BY <1>1, <1>2, <1>4 DEF LateAnswersDropped, IdentityStands, StatusTruthful, Leases
<1>7. Exchanges' /\ FreshPrivate'
  BY <1>3 DEF Exchanges, FreshPrivate
<1>8. Counted' /\ OtherPrivate'
  BY <1>0, <1>1, <1>2, <1>3 DEF Counted, OtherPrivate
<1>9. ~trouble' => ~trouble /\ \A tok : ~InExchange(tok)
  BY <1>1 DEF InExchange
<1>10. DiskCovered'
  BY <1>0, <1>1, <1>9 DEF DiskCovered
<1>11. AuthCovered'
  <2> SUFFICES ASSUME source' = "Oauth", ~trouble', auth'.tok \notin live'
               PROVE  /\ disk # None /\ disk.acct = auth'.acct
                      /\ other # None => /\ other.acct = auth'.acct
                                         /\ other.from.acct = auth'.acct
    BY <1>1 DEF AuthCovered
  <2>1. disk # None /\ auth'.tok = disk.tok /\ auth'.acct = disk.acct
    BY <1>2, Marks
  <2>2. other # None /\ other.from.tok = disk.tok /\ other.acct = disk.acct
    BY <1>0, <1>1, <1>9, <2>1 DEF DiskCovered
  <2>3. other.from = disk
    BY <1>0, <2>1, <2>2 DEF OtherPrivate
  <2> QED
    BY <2>1, <2>2, <2>3
<1> QED
  BY <1>5, <1>6, <1>7, <1>8, <1>10, <1>11 DEF AuthInv

-----------------------------------------------------------------------------
(* The specification. *)

\* The provider starts from the file, whose token can be exchanged.
LEMMA AuthStarts == Init => AuthInv
<1> SUFFICES ASSUME Init PROVE AuthInv
  OBVIOUS
<1>1. /\ auth = Loaded(disk).auth /\ state = Loaded(disk).state
      /\ source = Loaded(disk).source /\ active = 0
      /\ logins = {} /\ task = [t \in Tasks |-> Idle] /\ lock = None
      /\ other = None /\ era = 0 /\ cut = 0 /\ trouble = FALSE
  BY DEF Init
<1>2. /\ disk \in File \cup {None} /\ minted \in 0..MaxTokens /\ live \subseteq Tokens
      /\ who \in Accounts \cup {None} /\ minted \in Nat
      /\ disk # None => /\ disk.tok <= minted /\ disk.tok \in live
                        /\ disk.acct = who
      /\ \A n \in live : n <= minted
  <2>1. 1 \in Tokens /\ 0 \in 0..MaxTokens /\ 1 \in 0..MaxTokens
    BY Marks DEF Tokens
  <2>2. CASE disk = None /\ minted = 0 /\ live = {} /\ who = None
    BY <2>1, <2>2
  <2>3. CASE \E a \in Accounts :
                disk = [tok |-> 1, acct |-> a] /\ minted = 1 /\ live = {1} /\ who = a
    BY <2>1, <2>3 DEF File
  <2> QED
    BY <2>2, <2>3 DEF Init
<1>3. /\ disk = None => auth = None /\ source = None /\ state = "LoginRequired"
      /\ disk # None =>
           /\ auth \in Credentials /\ auth # None
           /\ auth.tok = disk.tok /\ auth.acct = disk.acct /\ auth.era = 0
           /\ source = "Oauth" /\ state = "Connected"
  BY <1>1, <1>2, LoadedFacts
<1>4. /\ task \in [Tasks -> CallType]
      /\ \A t \in Tasks : task[t].pc \notin Holding /\ task[t].pc # "fresh"
  BY <1>1, IdleFacts DEF Holding
<1>5. 0 \in Eras
  BY Marks DEF Eras
<1>6. TypeOK
  BY <1>1, <1>2, <1>3, <1>4, <1>5, Marks DEF TypeOK, CallType, Pcs
<1>7. LateAnswersDropped /\ IdentityStands /\ StatusTruthful /\ Leases
  BY <1>1, <1>2, <1>3 DEF LateAnswersDropped, IdentityStands, StatusTruthful, Leases
<1>8. Exchanges /\ FreshPrivate /\ OtherPrivate
  BY <1>1, <1>4 DEF Exchanges, FreshPrivate, OtherPrivate
<1>9. Counted
  BY <1>1, <1>2, <1>3 DEF Counted
<1>10. DiskCovered /\ AuthCovered
  BY <1>2, <1>3, Marks DEF DiskCovered, AuthCovered
<1> QED
  BY <1>6, <1>7, <1>8, <1>9, <1>10 DEF AuthInv

LEMMA AuthStutters == ASSUME AuthInv, UNCHANGED vars PROVE AuthInv'
<1>1. /\ UNCHANGED <<auth, state, source, active, logins, task, lock, disk, other>>
      /\ UNCHANGED <<live, minted, era, cut, who, trouble>>
  BY DEF vars, store, server, history
<1> QED
  BY <1>1 DEF AuthInv, TypeOK, LateAnswersDropped, IdentityStands, StatusTruthful,
     Exchanges, Leases, Counted, OtherPrivate, FreshPrivate, DiskCovered, AuthCovered,
     InExchange

\* Every step keeps the invariant.
LEMMA AuthSteps == AuthInv /\ [Next]_vars => AuthInv'
<1> SUFFICES ASSUME AuthInv, [Next]_vars PROVE AuthInv'
  OBVIOUS
<1>1. CASE BeginLogin
  BY <1>1, BeginLoginKeeps
<1>2. CASE AuthSet
  BY <1>2, AuthSetKeeps
<1>3. CASE Logout
  BY <1>3, LogoutKeeps
<1>4. CASE \E l \in Eras : LoginReturns(l) \/ LoginFails(l)
  BY <1>4, LoginReturnsKeeps, LoginFailsKeeps
<1>5. CASE \E t \in Tasks : \/ Ask(t) \/ Observe(t) \/ EnterRefresh(t) \/ Call(t)
                            \/ AnswerLost(t) \/ Drop(t)
  BY <1>5, CallStepKeeps
<1>6. CASE \E a \in Accounts : OtherLogin(a)
  BY <1>6, OtherLoginKeeps
<1>7. CASE OtherRefresh
  BY <1>7, OtherRefreshKeeps
<1>8. CASE OtherSave
  BY <1>8, OtherSaveKeeps
<1>9. CASE Restart
  BY <1>9, RestartKeeps
<1>10. CASE UNCHANGED vars
  BY <1>10, AuthStutters
<1> QED
  BY <1>1, <1>2, <1>3, <1>4, <1>5, <1>6, <1>7, <1>8, <1>9, <1>10 DEF Next

LEMMA AuthInvHolds == Spec => []AuthInv
BY AuthStarts, AuthSteps, PTL DEF Spec

\* The credentials in use are those of the user's last choice: a login or a
\* refresh that returns after a logout or auth.set is dropped, and no file of
\* another account is adopted, however many calls and processes there are.
THEOREM ChatgptCredentialsStand == Spec => []CredentialsStand
<1>1. AuthInv => CredentialsStand
  BY DEF AuthInv, CredentialsStand
<1> QED
  BY <1>1, AuthInvHolds, PTL

\* A held session can be continued, and the status says of it what is true:
\* refreshes of any number of calls and of other processes, in any order,
\* leave a token that the endpoint exchanges in memory or in the file.
THEOREM ChatgptSessionTruthful == Spec => []SessionTruthful
<1>1. ASSUME AuthInv PROVE SessionKept
  <2> SUFFICES ASSUME source = "Oauth", auth.acct # None, ~trouble, other = None,
                      \A t \in Tasks : task[t].pc # "fresh", auth.tok \notin live
               PROVE  CanAdopt /\ disk.tok \in live
    BY DEF SessionKept
  <2>1. TypeOK /\ DiskCovered /\ AuthCovered
    BY <1>1 DEF AuthInv
  <2>2. \A tok : ~InExchange(tok)
    BY DEF InExchange
  <2>3. disk # None /\ disk.acct = auth.acct
    BY <2>1, <2>2 DEF AuthCovered
  <2>4. disk.tok \in live
    BY <2>1, <2>2, <2>3 DEF DiskCovered
  <2>5. auth # None
    BY <2>1, Values
  <2> QED
    BY <2>3, <2>4, <2>5 DEF CanAdopt, SameAccount
<1>2. AuthInv => SessionTruthful
  BY <1>1 DEF AuthInv, SessionTruthful
<1> QED
  BY <1>2, AuthInvHolds, PTL


=============================================================================
