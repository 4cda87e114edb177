------------------------------ MODULE JobOutput ------------------------------
(***************************************************************************)
(* The output of one background job (internal/jobs/jobs.go): the head+tail *)
(* capped buffer the run goroutine streams into, and the incremental       *)
(* Manager.Output reads of it.  Every step holds Job.mu.                   *)
(*                                                                         *)
(* The n-th byte the job writes is the number n; a byte of the truncation  *)
(* marker is 0.                                                            *)
(***************************************************************************)
EXTENDS Naturals, Sequences

CONSTANTS
    TailCap,    \* half of the buffer's capacity
    MaxChunk,   \* the longest single Write
    MaxBytes    \* bound on what the job writes, below 100

ASSUME BoundsAssumption ==
    /\ TailCap \in Nat \ {0}
    /\ MaxChunk \in Nat \ {0}
    /\ MaxBytes \in 0..99

VARIABLES
    written,    \* bytes produced so far
    head, tail, full, truncated,    \* the cappedBuffer
    readOffset, \* Job.readOffset
    phase,      \* "running", "killed" (Kill flipped it), or "ended"
    result,     \* Job.result is not empty
    resultRead, \* Job.resultRead
    surfaced,   \* history: what Output calls returned before the cap was hit
    results     \* history: how often Output returned the result

bufVars  == <<written, head, tail, full, truncated>>
readVars == <<readOffset, resultRead, surfaced, results>>
outputVars == <<bufVars, readVars, phase, result>>

OutputTypeOK ==
    /\ written \in 0..MaxBytes
    /\ head \in Seq(1..MaxBytes) /\ tail \in Seq(1..MaxBytes)
    /\ full \in BOOLEAN
    /\ truncated \in 0..MaxBytes
    /\ readOffset \in Nat
    /\ phase \in {"running", "killed", "ended"}
    /\ result \in BOOLEAN /\ resultRead \in BOOLEAN
    /\ surfaced \in Seq(1..MaxBytes)
    /\ results \in Nat

OutputInit ==
    /\ written = 0 /\ head = <<>> /\ tail = <<>>
    /\ full = FALSE /\ truncated = 0
    /\ readOffset = 0 /\ phase = "running"
    /\ result = FALSE /\ resultRead = FALSE
    /\ surfaced = <<>> /\ results = 0

Streaming == phase # "ended"    \* run has not returned

-----------------------------------------------------------------------------
(* cappedBuffer                                                            *)

(* "\n... (truncated %d bytes) ...\n": its fixed part is one byte here,    *)
(* its digits are those of the count.                                      *)
Marker == IF truncated < 10 THEN <<0, 0>> ELSE <<0, 0, 0>>

String == IF full THEN head \o Marker \o tail ELSE head

LastOf(s, n) == SubSeq(s, Len(s) - n + 1, Len(s))

Chunk(n) == [i \in 1..n |-> written + i]

(* Once full, a write only counts.                                         *)
WriteDiscard(n) ==
    /\ Streaming /\ written + n <= MaxBytes
    /\ full
    /\ written' = written + n
    /\ truncated' = truncated + n
    /\ UNCHANGED <<head, tail, full, readVars, phase, result>>

WriteHead(n) ==
    /\ Streaming /\ written + n <= MaxBytes
    /\ ~full
    /\ Len(head) + n <= TailCap
    /\ written' = written + n
    /\ head' = head \o Chunk(n)
    /\ UNCHANGED <<tail, full, truncated, readVars, phase, result>>

(* Mutant of WriteSwitch: the tail is not cut to tailCap.                  *)
WriteSwitchUncut(n) ==
    /\ Streaming /\ written + n <= MaxBytes
    /\ ~full
    /\ Len(head) + n > TailCap
    /\ written' = written + n
    /\ full' = TRUE
    /\ tail' = Chunk(n)
    /\ UNCHANGED <<truncated, head, readVars, phase, result>>

(* The first write that does not fit the head becomes the tail, whole or   *)
(* cut to its last tailCap bytes.                                          *)
WriteSwitch(n) ==
    LET cut == IF n > TailCap THEN n - TailCap ELSE 0 IN
    /\ Streaming /\ written + n <= MaxBytes
    /\ ~full
    /\ Len(head) + n > TailCap
    /\ written' = written + n
    /\ full' = TRUE
    /\ truncated' = truncated + cut
    /\ tail' = LastOf(Chunk(n), n - cut)
    /\ UNCHANGED <<head, readVars, phase, result>>

-----------------------------------------------------------------------------
(* The job ends, with a result text or without; Kill flips its status.     *)

Finish ==
    /\ phase \in {"running", "killed"}
    /\ phase' = "ended"
    /\ result' \in BOOLEAN
    /\ UNCHANGED <<bufVars, readVars>>

Kill ==
    /\ phase = "running"
    /\ phase' = "killed"
    /\ UNCHANGED <<bufVars, readVars, result>>

(* Mutant of Output: resultRead is never set.                              *)
OutputResultAgain ==
    LET text == SubSeq(String, readOffset + 1, Len(String)) IN
    /\ readOffset' = Len(String)
    /\ surfaced' = IF full THEN surfaced ELSE surfaced \o text
    /\ results < 2
    /\ results' = IF text = <<>> /\ phase # "running" /\ result
                    THEN results + 1 ELSE results
    /\ UNCHANGED <<resultRead, bufVars, phase, result>>

(* What the buffer holds past the offset; else, once terminal, the result. *)
Output ==
    LET text  == SubSeq(String, readOffset + 1, Len(String))
        showResult == /\ text = <<>> /\ phase # "running"
                      /\ result /\ ~resultRead
    IN
    /\ readOffset' = Len(String)
    /\ surfaced' = IF full THEN surfaced ELSE surfaced \o text
    /\ resultRead' = (resultRead \/ showResult)
    /\ results' = IF showResult THEN results + 1 ELSE results
    /\ UNCHANGED <<bufVars, phase, result>>

OutputNext ==
    \/ \E n \in 1..MaxChunk : WriteDiscard(n) \/ WriteHead(n) \/ WriteSwitch(n)
    \/ Finish
    \/ Kill
    \/ Output

OutputSpec == OutputInit /\ [][OutputNext]_outputVars

-----------------------------------------------------------------------------
(* Properties.                                                             *)

(* Every byte written is held in the head, held in the tail or counted as  *)
(* truncated, the buffer never holds more than its capacity, and until the *)
(* cap is hit successive Output calls return the job's output exactly:     *)
(* every byte up to the offset, once and in order.                         *)
BytesAreExact ==
    /\ OutputTypeOK
    /\ Len(head) + Len(tail) + truncated = written
    /\ Len(head) <= TailCap /\ Len(tail) <= TailCap
    /\ ~full => surfaced = [i \in 1..readOffset |-> i]

(* Output returns a job's result text at most once, however reads, the     *)
(* Kill and the end of the job interleave.                                 *)
ResultSurfacedOnce == results <= 1
=============================================================================
