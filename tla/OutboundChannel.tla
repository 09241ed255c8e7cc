-------------------------- MODULE OutboundChannel --------------------------
(***************************************************************************)
(* What the engine promises of the outbound half of one plugin connection, *)
(* independently of how the writer task is written: lines leave in the     *)
(* order in which they were accepted; the only line that may go missing is *)
(* the oldest live ("lossy") line still pending, and only when more than   *)
(* Cap live lines are pending; replay ("lossless") lines are never         *)
(* dropped; every drop is counted.                                         *)
(***************************************************************************)
EXTENDS Integers, Sequences, FiniteSets, SequencesExt

CONSTANT Cap            \* live lines the channel must be able to hold

VARIABLES
    pending,            \* lines accepted and not yet handed to the pipe
    handed,             \* lines handed to the pipe, in order
    drops               \* number of live lines dropped so far

chanVars == <<pending, handed, drops>>

IsLossy(line) == line.lossy

LossyCount(s) == Cardinality({i \in 1..Len(s) : s[i].lossy})

Init == pending = <<>> /\ handed = <<>> /\ drops = 0

(* The channel accepts some number of consecutive lines. *)
Accept ==
    /\ Len(pending') >= Len(pending)
    /\ SubSeq(pending', 1, Len(pending)) = pending
    /\ UNCHANGED <<handed, drops>>

(* The oldest pending line goes to the pipe. *)
Hand ==
    /\ pending # <<>>
    /\ handed' = Append(handed, Head(pending))
    /\ pending' = Tail(pending)
    /\ UNCHANGED drops

(* Overflow: the oldest pending live line is lost and counted. *)
Drop ==
    /\ LossyCount(pending) > Cap
    /\ pending' = RemoveFirstMatch(pending, IsLossy)
    /\ drops' = drops + 1
    /\ UNCHANGED handed

Next == Accept \/ Hand \/ Drop

Spec == Init /\ [][Next]_chanVars
=============================================================================
