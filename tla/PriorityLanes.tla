--------------------------- MODULE PriorityLanes ----------------------------
(***************************************************************************)
(* What the send queue promises: three lanes, each first in first out; the *)
(* lane of the urgent lines always goes before the lane of the messages,   *)
(* and that one before the lane of the queries; a line is delivered once   *)
(* or, when the queue is flushed, lost with all the others.  While the     *)
(* lanes are bypassed (throttling is off) new lines do not wait.           *)
(***************************************************************************)
EXTENDS Naturals, Sequences, SequencesExt

CONSTANTS
    Lines,   \* what is queued
    NoLine   \* nothing delivered yet, not one of Lines

VARIABLES
    lanes,     \* lanes[p]: the lines of priority p that wait, oldest first
    delivered, \* the line delivered last
    bypass     \* are new lines delivered whatever waits?

Empty == [p \in 0..2 |-> <<>>]

Waiting == UNION {ToSet(lanes[p]) : p \in 0..2}

Init == lanes = Empty /\ delivered = NoLine /\ bypass \in BOOLEAN

Submit(l, p) ==
    /\ UNCHANGED <<delivered, bypass>>
    /\ lanes' = [lanes EXCEPT ![p] = Append(@, l)]

Deliver(p) ==
    /\ lanes[p] # <<>>
    /\ \A q \in 0..2 : q > p => lanes[q] = <<>>
    /\ delivered' = Head(lanes[p])
    /\ lanes' = [lanes EXCEPT ![p] = Tail(@)]
    /\ UNCHANGED bypass

\* With nothing waiting, or with the lanes bypassed, a line may go out at once.
Pass(l) ==
    /\ delivered' = l /\ UNCHANGED bypass
    /\ lanes = Empty \/ bypass
    /\ UNCHANGED lanes

Switch ==
    /\ bypass' = ~bypass
    /\ UNCHANGED <<lanes, delivered>>

Lose ==
    /\ lanes' = Empty
    /\ UNCHANGED <<delivered, bypass>>

Next == \/ \E l \in Lines \ Waiting, p \in 0..2 : Submit(l, p)
        \/ \E p \in 0..2 : Deliver(p)
        \/ \E l \in Lines : Pass(l)
        \/ Lose \/ Switch

Spec == Init /\ [][Next]_<<lanes, delivered, bypass>>
=============================================================================
