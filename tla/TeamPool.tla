------------------------------ MODULE TeamPool ------------------------------
(***************************************************************************)
(* The admission pool of one team (internal/team/pool.go), as operators on *)
(* its state: who may run, who waits and in which order.  Each operator is *)
(* one critical section of Pool.mu and yields the state it leaves behind.  *)
(* The map of running cards and the slice that lists them hold the same    *)
(* keys; the order of the slice only orders snapshots and is left out.     *)
(***************************************************************************)
EXTENDS Naturals, Sequences, FiniteSets

CONSTANTS
    Card,               \* the cards of the team; a key is a team and a card
    DefaultMaxParallel  \* what an unset bound falls back to

ASSUME PoolAssumption ==
    /\ IsFiniteSet(Card)
    /\ DefaultMaxParallel \in Nat \ {0}

Pool == [max : Nat \ {0}, running : SUBSET Card, queue : Seq(Card)]

Elems(s) == {s[i] : i \in DOMAIN s}

NormalizeMaxParallel(max) == IF max <= 0 THEN DefaultMaxParallel ELSE max

NewPool(max) ==
    [max |-> NormalizeMaxParallel(max), running |-> {}, queue |-> <<>>]

\* Mutant: one card too many fits.
FullLate(p) == Cardinality(p.running) > p.max
Full(p)     == Cardinality(p.running) >= p.max
Known(p, key) == key \in p.running \cup Elems(p.queue)

(* Admit decides; Admitted is what it leaves behind.                       *)
Admit(p, key) ==
    IF Known(p, key) THEN "duplicate" ELSE IF Full(p) THEN "queued" ELSE "running"

Admitted(p, key) ==
    CASE Admit(p, key) = "duplicate" -> p
      [] Admit(p, key) = "running"   -> [p EXCEPT !.running = @ \cup {key}]
      [] Admit(p, key) = "queued"    -> [p EXCEPT !.queue = Append(@, key)]

(* The head of the queue takes a free slot, when there are both.           *)
Promotes(p) == p.queue /= <<>> /\ ~Full(p)

Promoted(p) ==
    IF Promotes(p)
    THEN [p EXCEPT !.running = @ \cup {Head(p.queue)}, !.queue = Tail(@)]
    ELSE p

Removed(p, key) == [p EXCEPT !.running = @ \ {key}]

(* Release gives a slot back and hands it to the head of the queue; the    *)
(* keys it returns, none or one, must be started.                          *)
\* Mutant: the promoted card is not started.
ReleaseStartsNobody(p, key) == <<>>
Released(p, key) == Promoted(Removed(p, key))
ReleaseStarts(p, key) ==
    LET r == Removed(p, key) IN IF Promotes(r) THEN <<Head(r.queue)>> ELSE <<>>

(* SetMax promotes until the new bound or the end of the queue.            *)
NewSlots(p, max) ==
    LET room == IF NormalizeMaxParallel(max) > Cardinality(p.running)
                THEN NormalizeMaxParallel(max) - Cardinality(p.running) ELSE 0
    IN  IF room < Len(p.queue) THEN room ELSE Len(p.queue)

SetMaxStarts(p, max) == SubSeq(p.queue, 1, NewSlots(p, max))

Rebounded(p, max) ==
    [max     |-> NormalizeMaxParallel(max),
     running |-> p.running \cup Elems(SetMaxStarts(p, max)),
     queue   |-> SubSeq(p.queue, NewSlots(p, max) + 1, Len(p.queue))]

Emptied(p) == [p EXCEPT !.running = {}, !.queue = <<>>]

(* Dequeue removes the first place of the key, if it waits.                *)
Place(p, key) ==
    CHOOSE i \in DOMAIN p.queue :
        /\ p.queue[i] = key
        /\ \A j \in DOMAIN p.queue : p.queue[j] = key => i <= j

Dequeued(p, key) ==
    IF key \notin Elems(p.queue) THEN p
    ELSE LET i == Place(p, key)
         IN  [p EXCEPT !.queue = SubSeq(@, 1, i - 1) \o SubSeq(@, i + 1, Len(@))]

(* PoolOK: no card is booked twice, none waits while it runs, and nobody   *)
(* waits while a slot is free (Release and SetMax promote all they can).   *)
BookedOnce(p) ==
    /\ Elems(p.queue) \cap p.running = {}
    /\ \A i, j \in DOMAIN p.queue : p.queue[i] = p.queue[j] => i = j
WorkConserving(p) == p.queue /= <<>> => Full(p)
PoolOK(p) == p \in Pool /\ BookedOnce(p) /\ WorkConserving(p)
=============================================================================
