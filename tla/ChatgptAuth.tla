----------------------------- MODULE ChatgptAuth -----------------------------
(***************************************************************************)
(* The credentials of the ChatGPT provider (plugins/chatgpt-provider/src/  *)
(* auth/mod.rs, refresh.rs, store.rs and their use in dispatcher.rs): one  *)
(* store in memory, shared by the dispatch loop, the login flows and the   *)
(* turns, and one file on disk, shared with other processes.               *)
(*                                                                         *)
(* A step is one critical section of AuthStore::inner.  refresh_lock is    *)
(* held over the request to the token endpoint, which exchanges a refresh  *)
(* token once: tok names an access token and the refresh token that came   *)
(* with it.  Saving replaces the file atomically.                          *)
(***************************************************************************)
EXTENDS Integers, FiniteSets

CONSTANTS
    Tasks,       \* turns and other callers of current_access_token
    Accounts,    \* ChatGPT accounts
    None,        \* no credentials, no account, no task
    MaxTokens,   \* bound: tokens handed out
    MaxEras      \* bound: logins, logouts and auth.set asked for

ASSUME AuthBounds == MaxTokens \in Nat \ {0} /\ MaxEras \in Nat

VARIABLES
    auth,        \* Inner::auth
    state,       \* Inner::state
    source,      \* Inner::source
    active,      \* Inner::active_login: a lease, or 0
    logins,      \* the login flows under way, by their lease
    task,        \* the calls into the store
    lock,        \* who holds refresh_lock
    disk,        \* the auth file
    other,       \* another process between its refresh and its save
    live,        \* tokens the endpoint would still exchange
    minted,      \* number of tokens handed out
    era,         \* logins, logouts and auth.set asked for so far
    cut,         \* the era of the last logout or auth.set
    who,         \* the account last chosen, by a login, auth.set or at the start,
                 \* as the endpoint has named it since
    trouble      \* credentials were lost in a way no code here can prevent

store == <<auth, state, source, active>>
server == <<live, minted>>
history == <<era, cut, who, trouble>>
vars == <<store, logins, task, lock, disk, other, server, history>>

Tokens == 1..MaxTokens
Eras == 0..MaxEras
\* A call: the token it observed, the tokens it exchanges, and the answer.
Idle == [pc |-> "idle", obs |-> 0, prior |-> None, new |-> 0]

\* `era` of a credential: when the user act it goes back to was asked for.
Credentials == [tok : Tokens, acct : Accounts \cup {None}, era : Eras]
File == [tok : Tokens, acct : Accounts \cup {None}]
\* What another process is about to save, and the file it started from.
Save == [tok : Tokens, acct : Accounts \cup {None}, from : File]

ASSUME NoneAssumption ==
    None \notin Accounts \cup Tasks \cup {"Oauth", "AuthSet"} /\ None \notin Credentials
        /\ None \notin File /\ None \notin Save

TypeOK ==
    /\ auth \in Credentials \cup {None}
    /\ state \in {"Connected", "LoginRequired", "LoginInProgress", "Error"}
    /\ source \in {"Oauth", "AuthSet", None}
    /\ (auth = None) = (source = None)
    /\ active \in Eras /\ logins \subseteq Eras
    /\ task \in [Tasks -> [pc : {"idle", "asked", "wait", "posting", "fresh",
                                 "refused", "transient", "failed"},
                           obs : 0..MaxTokens,
                           prior : Credentials \cup {None}, new : 0..MaxTokens]]
    /\ lock \in Tasks \cup {None}
    /\ disk \in File \cup {None}
    /\ other \in Save \cup {None}
    /\ live \subseteq Tokens /\ minted \in 0..MaxTokens
    /\ era \in Eras /\ cut \in Eras
    /\ who \in Accounts \cup {None} /\ trouble \in BOOLEAN

\* load_from_disk.
Loaded(file) ==
    IF file = None
    THEN [auth |-> None, state |-> "LoginRequired", source |-> None]
    ELSE [auth |-> [tok |-> file.tok, acct |-> file.acct, era |-> 0],
          state |-> "Connected", source |-> "Oauth"]

Init ==
    /\ \/ disk = None /\ minted = 0 /\ live = {} /\ who = None
       \/ \E a \in Accounts :
            disk = [tok |-> 1, acct |-> a] /\ minted = 1 /\ live = {1} /\ who = a
    /\ auth = Loaded(disk).auth /\ state = Loaded(disk).state
    /\ source = Loaded(disk).source /\ active = 0
    /\ logins = {} /\ task = [t \in Tasks |-> Idle] /\ lock = None
    /\ other = None /\ era = 0 /\ cut = 0 /\ trouble = FALSE

-----------------------------------------------------------------------------
(* What the user asks for, through the dispatch loop.                      *)

Asked == era < MaxEras /\ era' = era + 1

\* begin_login; the lease is named by its era.
BeginLogin ==
    /\ state \in {"LoginRequired", "Error"} /\ Asked
    /\ active' = era' /\ logins' = logins \cup {era'}
    /\ state' = "LoginInProgress"
    /\ UNCHANGED <<auth, source, task, lock, disk, other, server, cut, who, trouble>>

Mint(n) == minted < MaxTokens /\ n = minted + 1 /\ minted' = n

\* The lease is still the one in force: apply_login_result, apply_login_error.
LeaseHolds(l) == active = l /\ state = "LoginInProgress"

LoginReturns(l) ==
    /\ l \in logins /\ logins' = logins \ {l}
    /\ \E n \in Tokens, a \in Accounts \cup {None} :
        /\ Mint(n) /\ live' = live \cup {n}
        /\ IF LeaseHolds(l)
           THEN /\ disk' = [tok |-> n, acct |-> a]
                /\ auth' = [tok |-> n, acct |-> a, era |-> l]
                /\ state' = "Connected" /\ source' = "Oauth" /\ active' = 0
                /\ who' = a /\ trouble' = FALSE
           ELSE UNCHANGED <<store, disk, who, trouble>>
    /\ UNCHANGED <<task, lock, other, era, cut>>

\* The flow fails, or its result could not be saved.
LoginFails(l) ==
    /\ l \in logins /\ logins' = logins \ {l}
    /\ IF LeaseHolds(l) THEN active' = 0 /\ state' = "Error"
                        ELSE UNCHANGED <<active, state>>
    /\ UNCHANGED <<auth, source, task, lock, disk, other, server, history>>

\* apply_auth_set: a bare access token, for no account and without refresh.
AuthSet ==
    /\ Asked /\ cut' = era'
    /\ \E n \in Tokens :
        Mint(n) /\ auth' = [tok |-> n, acct |-> None, era |-> era']
    /\ state' = "Connected" /\ source' = "AuthSet" /\ active' = 0
    /\ who' = None
    /\ UNCHANGED <<logins, task, lock, disk, other, live, trouble>>

\* apply_logout; removing the file may fail.
Logout ==
    /\ Asked /\ cut' = era'
    /\ auth' = None /\ state' = "LoginRequired" /\ source' = None /\ active' = 0
    /\ \/ source = "Oauth" /\ disk' = None
       \/ UNCHANGED disk
    /\ who' = None
    /\ UNCHANGED <<logins, task, lock, other, server, trouble>>

-----------------------------------------------------------------------------
(* Calls: current_access_token and force_refresh_after.                    *)

SameAccount(file) == file.acct # None /\ file.acct = auth.acct

\* adopt_disk_locked.
CanAdopt ==
    /\ source = "Oauth" /\ auth # None /\ disk # None
    /\ disk.tok # auth.tok /\ SameAccount(disk)

AdoptDisk ==
    /\ auth' = [auth EXCEPT !.tok = disk.tok, !.acct = disk.acct]
    /\ state' = "Connected"
    /\ UNCHANGED <<source, active>>

\* A turn has its snapshot of the credentials and asks the endpoint.
Ask(t) ==
    /\ task[t].pc = "idle" /\ state = "Connected"
    /\ task' = [task EXCEPT ![t] = [Idle EXCEPT !.pc = "asked", !.obs = auth.tok]]
    /\ UNCHANGED <<store, logins, lock, disk, other, server, history>>

\* The token is about to expire, or was refused.
Observe(t) ==
    /\ \/ /\ task[t].pc = "idle" /\ auth # None /\ source = "Oauth"
          /\ task' = [task EXCEPT ![t] = [Idle EXCEPT !.pc = "wait", !.obs = auth.tok]]
       \/ /\ task[t].pc = "asked"
          /\ task' = [task EXCEPT ![t].pc = "wait"]
    /\ UNCHANGED <<store, logins, lock, disk, other, server, history>>

\* The request ends well; a third 401 in a row; the first one: the file first.
Answered(t) ==
    /\ task[t].pc = "asked"
    /\ task' = [task EXCEPT ![t] = Idle]
    /\ \/ UNCHANGED store
       \/ state' = "Error" /\ UNCHANGED <<auth, source, active>>
       \/ lock = None /\ CanAdopt /\ AdoptDisk
    /\ UNCHANGED <<logins, lock, disk, other, server, history>>

\* refresh_oauth up to the request: nothing to do when somebody else has
\* replaced the token, in memory or on disk.
EnterRefresh(t) ==
    /\ task[t].pc = "wait" /\ lock = None
    /\ IF source # "Oauth" \/ auth.tok # task[t].obs
       THEN task' = [task EXCEPT ![t] = Idle] /\ UNCHANGED <<store, lock>>
       ELSE IF CanAdopt
       THEN task' = [task EXCEPT ![t] = Idle] /\ AdoptDisk /\ UNCHANGED lock
       ELSE /\ task' = [task EXCEPT ![t].pc = "posting", ![t].prior = auth]
            /\ lock' = t
            /\ UNCHANGED store
    /\ UNCHANGED <<logins, disk, other, server, history>>

\* The token endpoint exchanges a live refresh token, refuses a spent one, or
\* is in trouble for longer than post_refresh_with_retry tries.
Endpoint(t) ==
    /\ task[t].pc = "posting"
    /\ \/ /\ task[t].obs \in live
          /\ \E n \in Tokens :
                /\ Mint(n) /\ live' = (live \ {task[t].obs}) \cup {n}
                /\ task' = [task EXCEPT ![t].pc = "fresh", ![t].new = n]
       \/ /\ task[t].obs \notin live
          /\ task' = [task EXCEPT ![t].pc = "refused"]
          /\ UNCHANGED server
       \/ task' = [task EXCEPT ![t].pc = "transient"] /\ UNCHANGED server
    /\ UNCHANGED <<store, logins, lock, disk, other, history>>

\* The answer is lost, and post_refresh_with_retry sends the request again.
AnswerLost(t) ==
    /\ task[t].pc = "fresh"
    /\ task' = [task EXCEPT ![t].pc = "posting", ![t].new = 0]
    /\ trouble' = TRUE
    /\ UNCHANGED <<store, logins, lock, disk, other, server, era, cut, who>>

\* Bug: other credentials than the observed ones are overwritten.
SupersededByLogout(t) == auth = None

\* The answer counts only for credentials that are still the ones observed.
Superseded(t) == ~(auth # None /\ auth.tok = task[t].obs)

Returned(t) == task' = [task EXCEPT ![t] = Idle] /\ lock' = None

\* merge_refresh_response: without an id token the account stays; an id token
\* may name any account (the service may rotate it) or, unreadable, none.
Merged(acct) == {acct, None} \cup Accounts

\* Bug: the fresh tokens are not saved.
ApplyFreshUnsaved(t) ==
    /\ task[t].pc = "fresh" /\ Returned(t)
    /\ \/ Superseded(t) /\ UNCHANGED store
       \/ ~Superseded(t) /\ CanAdopt /\ AdoptDisk
       \/ /\ ~Superseded(t) /\ ~CanAdopt
          /\ auth' = [task[t].prior EXCEPT !.tok = task[t].new]
          /\ state' = "Connected" /\ source' = "Oauth" /\ UNCHANGED active
    /\ UNCHANGED <<logins, disk, other, server, history>>

\* refresh_oauth after the request succeeded; saving may fail.
ApplyFresh(t) ==
    /\ task[t].pc = "fresh" /\ Returned(t)
    /\ \/ /\ Superseded(t)
          /\ trouble' = (trouble \/ (disk # None /\ disk.tok = task[t].obs))
          /\ UNCHANGED <<store, disk, who>>
       \/ ~Superseded(t) /\ CanAdopt /\ AdoptDisk /\ UNCHANGED <<disk, trouble, who>>
       \/ /\ ~Superseded(t) /\ ~CanAdopt
          /\ \E a \in Merged(task[t].prior.acct) :
                /\ auth' = [task[t].prior EXCEPT !.tok = task[t].new, !.acct = a]
                /\ disk' = [tok |-> task[t].new, acct |-> a]
                /\ who' = IF auth.era = task[t].prior.era THEN a ELSE who
          /\ state' = "Connected" /\ source' = "Oauth"
          /\ UNCHANGED <<active, trouble>>
       \/ /\ ~Superseded(t) /\ ~CanAdopt
          /\ trouble' = TRUE /\ UNCHANGED <<store, disk, who>>
    /\ UNCHANGED <<logins, other, server, era, cut>>

\* refresh_oauth after the request failed.
ApplyFailure(t) ==
    /\ task[t].pc \in {"refused", "transient"} /\ lock' = None
    /\ IF ~Superseded(t) /\ CanAdopt THEN AdoptDisk ELSE UNCHANGED store
    /\ task' = [task EXCEPT ![t] =
            IF task[t].pc = "refused" /\ ~Superseded(t) /\ ~CanAdopt
            THEN [Idle EXCEPT !.pc = "failed"] ELSE Idle]
    /\ UNCHANGED <<logins, disk, other, server, history>>

\* handle_refresh_error after a terminal failure: apply_error.
MarkError(t) ==
    /\ task[t].pc = "failed"
    /\ task' = [task EXCEPT ![t] = Idle]
    /\ state' = "Error"
    /\ UNCHANGED <<auth, source, active, logins, lock, disk, other, server, history>>

\* Bug: the lock outlives the turn that held it.
DropHoldingLock(t) ==
    /\ task[t].pc # "idle"
    /\ task' = [task EXCEPT ![t] = Idle]
    /\ trouble' = (trouble \/ task[t].pc = "fresh")
    /\ UNCHANGED <<store, logins, lock, disk, other, server, era, cut, who>>

\* A hard cancelled turn is dropped where it waits, its guard with it.
Drop(t) ==
    /\ task[t].pc # "idle"
    /\ task' = [task EXCEPT ![t] = Idle]
    /\ lock' = IF lock = t THEN None ELSE lock
    /\ trouble' = (trouble \/ task[t].pc = "fresh")
    /\ UNCHANGED <<store, logins, disk, other, server, era, cut, who>>

-----------------------------------------------------------------------------
(* Other processes, and the end of this one.                               *)

\* A login from the command line writes the file.  Handing it to another
\* account leaves this process on its own.
OtherLogin(a) ==
    /\ \E n \in Tokens :
        Mint(n) /\ live' = live \cup {n} /\ disk' = [tok |-> n, acct |-> a]
    /\ trouble' = (trouble \/ (auth # None /\ auth.acct # a))
    /\ UNCHANGED <<store, logins, task, lock, other, era, cut, who>>

\* Another provider process refreshes what the file holds, and saves unless
\* the file has changed meanwhile.
OtherRefresh ==
    /\ other = None /\ disk # None /\ disk.tok \in live
    /\ \E n \in Tokens, a \in Merged(disk.acct) :
        /\ Mint(n) /\ live' = (live \ {disk.tok}) \cup {n}
        /\ other' = [tok |-> n, acct |-> a, from |-> disk]
        /\ trouble' = (trouble \/ a # disk.acct)
    /\ UNCHANGED <<store, logins, task, lock, disk, era, cut, who>>

OtherSave ==
    /\ other # None /\ other' = None
    /\ IF /\ disk # None /\ disk.tok # other.from.tok
          /\ disk.acct # None /\ disk.acct = other.from.acct
       THEN UNCHANGED disk
       ELSE disk' = [tok |-> other.tok, acct |-> other.acct]
    /\ UNCHANGED <<store, logins, task, lock, server, history>>

\* The provider stops and starts again from the file.
Restart ==
    /\ auth' = Loaded(disk).auth /\ state' = Loaded(disk).state
    /\ source' = Loaded(disk).source /\ active' = 0
    /\ logins' = {} /\ task' = [t \in Tasks |-> Idle] /\ lock' = None
    /\ UNCHANGED <<disk, other, server, era>>
    /\ cut' = 0 /\ who' = IF disk = None THEN None ELSE disk.acct
    /\ trouble' = (trouble \/ \E t \in Tasks : task[t].pc = "fresh")

Call(t) ==
    \/ Endpoint(t) \/ ApplyFresh(t) \/ ApplyFailure(t) \/ MarkError(t) \/ Answered(t)

Next ==
    \/ BeginLogin \/ AuthSet \/ Logout
    \/ \E l \in Eras : LoginReturns(l) \/ LoginFails(l)
    \/ \E t \in Tasks : \/ Ask(t) \/ Observe(t) \/ EnterRefresh(t) \/ Call(t)
                        \/ AnswerLost(t) \/ Drop(t)
    \/ \E a \in Accounts : OtherLogin(a)
    \/ OtherRefresh \/ OtherSave \/ Restart

(* Every request has a timeout and every lock is fair (tokio's Mutex is    *)
(* first in, first out), so that calls go on; a login flow gives up.       *)
Spec == Init /\ [][Next]_vars
          /\ \A t \in Tasks : WF_vars(Call(t)) /\ SF_vars(EnterRefresh(t))
          /\ \A l \in Eras : WF_vars(LoginFails(l) \/ LoginReturns(l))

-----------------------------------------------------------------------------
(* Properties.                                                             *)

\* A login or a refresh that was under way when the user logged out or set a
\* token never brings the old credentials back.
LateAnswersDropped == auth # None => auth.era >= cut

\* The account in use is the one last chosen, by a login, by auth.set or by
\* the file at the start, or the one the endpoint has named since in answer to
\* a refresh of those very credentials: what other processes write into the
\* file, and answers for credentials of before, never change it.
IdentityStands == auth # None => auth.acct = who

\* The credentials in use are those of the user's last choice, whatever
\* answers, logins and files of other processes arrive after it.
CredentialsStand == TypeOK /\ LateAnswersDropped /\ IdentityStands

\* The token in memory can be refreshed, or the file has one of the same
\* account to replace it: concurrent refreshes, of this and of other
\* processes, do not leave the provider with a spent token.  It may happen
\* when an answer is lost, a save fails, the task is dropped while the answer
\* is on its way, the answer is discarded after auth.set or logout although
\* the file still has the spent token, or the file is handed to another
\* account or to none; credentials without an account are never replaced from
\* the file.
SessionKept ==
    \/ source # "Oauth" \/ auth.acct = None \/ trouble \/ other # None
    \/ \E t \in Tasks : task[t].pc = "fresh"
    \/ auth.tok \in live
    \/ CanAdopt /\ disk.tok \in live

\* "Connected" is said of credentials, and "login in progress" of a login flow
\* that will end: begin_login refuses a new login in both states.
StatusTruthful ==
    /\ state = "Connected" => auth # None
    /\ state = "LoginInProgress" => active \in logins

\* What the status says can be acted on: a session that is held can be
\* continued, and one that is being set up will be or will fail.
SessionTruthful == SessionKept /\ StatusTruthful

\* Every call into the store returns.
CallsReturn == \A t \in Tasks : []<>(task[t].pc = "idle")

=============================================================================
