----------------------------- MODULE ChatHistory -----------------------------
(***************************************************************************)
(* The message history of one chat of the ChatGPT provider                 *)
(* (plugins/chatgpt-provider/src/state.rs, dispatcher.rs): what            *)
(* `chat.append` and a turn add, and how a history handed over by          *)
(* `chat.restore` is repaired, so that the endpoint never sees a tool      *)
(* result without its call, nor after a restore a call without its result. *)
(*                                                                         *)
(* Text is left out.  An assistant message with several tool calls is that *)
(* many "calls" entries in a row, as a native item list is.                *)
(*                                                                         *)
(* Left out are replace_with_native_history and prepend_native_history     *)
(* (state.rs:745, 761), which install an item list without a repair: the   *)
(* output of a compaction of this very history, or the checkpoint such an  *)
(* output was kept in.                                                     *)
(***************************************************************************)
EXTENDS Integers, Sequences, FiniteSets, SequencesExt

CONSTANTS
    Ids,           \* tool call ids
    NoId,          \* the empty tool call id
    MaxLen         \* bound: length of a history before it is closed

ASSUME HistoryBound == MaxLen \in Nat /\ NoId \notin Ids

VARIABLES
    hist,          \* Chat::history
    given          \* what chat.restore was given, right after it; else <<>>

vars == <<hist, given>>

Entry(role, id) == [role |-> role, id |-> id]

\* "user" stands for user and system messages.
Entries ==
    {Entry("user", NoId), Entry("assistant", NoId)}
        \cup {Entry(role, id) : role \in {"calls", "tool"}, id \in Ids \cup {NoId}}

Histories == BoundedSeq(Entries, MaxLen)

TypeOK ==
    /\ hist \in Seq(Entries) /\ Len(hist) <= 2 * MaxLen
    /\ given \in Seq(Entries) /\ Len(given) <= MaxLen

Init == hist = <<>> /\ given = <<>>

-----------------------------------------------------------------------------
\* Bug: a result is accepted whenever its call was made, answered or not.
HasToolCall(h, id) ==
    \E i \in 1..Len(h) : h[i] = Entry("calls", id)

\* has_unanswered_tool_call: the last call or result of this id is a call.
HasUnansweredToolCall(h, id) ==
    \E i \in 1..Len(h) :
        /\ h[i] = Entry("calls", id)
        /\ \A j \in i+1..Len(h) : h[j] # Entry("tool", id)

\* Chats::append: a result nobody asked for is dropped.
ChatAppend(e) ==
    /\ Len(hist) < MaxLen
    /\ hist' = IF e.role = "tool" /\ ~HasUnansweredToolCall(hist, e.id)
               THEN hist
               ELSE Append(hist, e)
    /\ given' = <<>>

\* close_pending_tool_calls: an interrupted call is answered by a stand-in.
CloseCalls(h, pending) ==
    h \o [i \in 1..Len(pending) |-> Entry("tool", pending[i])]

\* One entry of repair_tool_call_history.  A call without an id waits for no
\* result.
RepairEntry(acc, e) ==
    CASE e.role = "calls" /\ e.id # NoId ->
            [hist |-> Append(acc.hist, e), pending |-> Append(acc.pending, e.id)]
      [] e.role = "tool" /\ Contains(acc.pending, e.id) ->
            [hist |-> Append(acc.hist, e), pending |-> RemoveFirst(acc.pending, e.id)]
      [] e.role = "tool" /\ ~Contains(acc.pending, e.id) -> acc
      [] e.role = "user" ->
            [hist |-> Append(CloseCalls(acc.hist, acc.pending), e), pending |-> <<>>]
      [] OTHER -> [acc EXCEPT !.hist = Append(@, e)]

\* Bug: calls left open at the end of the history stay open.
RepairWithoutEnd(h) ==
    FoldLeft(RepairEntry, [hist |-> <<>>, pending |-> <<>>], h).hist

RepairToolCallHistory(h) ==
    LET acc == FoldLeft(RepairEntry, [hist |-> <<>>, pending |-> <<>>], h)
    IN  CloseCalls(acc.hist, acc.pending)

\* chat.restore, and the private chat of a completion.request.  It replaces
\* the history, so that it is enough to look at it from an empty one.
ChatRestore ==
    /\ hist = <<>> /\ given = <<>>
    /\ \E h \in Histories : given' = h /\ hist' = RepairToolCallHistory(h)

\* reset, and a new chat under the same id.
Reset == hist' = <<>> /\ given' = <<>>

Next == (\E e \in Entries : ChatAppend(e)) \/ ChatRestore \/ Reset

Spec == Init /\ [][Next]_vars

-----------------------------------------------------------------------------
(* Properties, by counting.                                                *)

CountUpTo(h, n, e) == Cardinality({i \in 1..n : h[i] = e})

\* Every tool result in a history has a call of its own before it, whatever
\* was appended or restored, results sent twice and ids used again included.
ResultsAnswerCalls ==
    \A i \in 1..Len(hist) :
        hist[i].role = "tool" =>
            CountUpTo(hist, i, Entry("calls", hist[i].id))
                >= CountUpTo(hist, i, hist[i])

\* The endpoint never sees a tool result without its call.
HistoryWellFormed == TypeOK /\ ResultsAnswerCalls

\* After a restore every call that has an id is answered as often as it was
\* made, before the user speaks again and before the history ends.
RestoredCallsAreAnswered ==
    given # <<>> =>
        \A i \in 1..Len(hist) :
            (i = Len(hist) \/ hist[i + 1].role = "user") =>
                \A id \in Ids :
                    CountUpTo(hist, i, Entry("calls", id)) = CountUpTo(hist, i, Entry("tool", id))

\* A repair only adds and drops tool results, and leaves a repaired history
\* as it is.
RepairIsMinimal ==
    given # <<>> =>
        LET Spoken(e) == e.role # "tool"
        IN  /\ SelectSeq(hist, Spoken) = SelectSeq(given, Spoken)
            /\ RepairToolCallHistory(hist) = hist

\* A repair answers every call of a restored history, and does no more.
RepairIsRight == RestoredCallsAreAnswered /\ RepairIsMinimal
=============================================================================
