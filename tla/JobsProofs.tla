----------------------------- MODULE JobsProofs -----------------------------
(***************************************************************************)
(* Proofs about Jobs, for any number of jobs and waiters, with or without  *)
(* a completion hook, and about the output of one job, module JobOutput.   *)
(***************************************************************************)
EXTENDS Jobs, JobOutput, SequenceTheorems, TLAPS

Verdict  == {"classified", "recorded", "published", "signalled", "exited"}
Recorded == Verdict \ {"classified"}
Final    == Recorded \ {"recorded"}

(* The goroutine's position determines what st and status can be.          *)
PositionInv(j) ==
    /\ pc[j] = Absent <=> status[j] = Absent
    /\ pc[j] \in Verdict <=> st[j] \in Terminal
    /\ pc[j] \notin Final => status[j] \in {Absent, Running, Killed}
    /\ pc[j] \in Final => status[j] \in {st[j], Killed}

(* The summaries are those of the goroutines past Record, one each.        *)
ReportInv ==
    /\ completed \cap told = {}
    /\ \A r \in Reports : pc[r.job] \in Recorded /\ r.st = st[r.job]
    /\ \A j \in Job : pc[j] \in Recorded
                        => [job |-> j, st |-> st[j]] \in Reports

(* A completed Wait saw jobs whose done channel is closed for good.        *)
WaitInv(w) ==
    /\ wait[w].cut => wait[w].pc = "returned"
    /\ wait[w].pc = "returned" /\ ~wait[w].cut =>
         \A o \in wait[w].seen : DoneClosed(o.job) /\ o.st = status[o.job]

CloseInv ==
    /\ closer # "open" => rootDone
    /\ LateStartsAreKilled

IInv ==
    /\ TypeOK
    /\ \A j \in Job : PositionInv(j)
    /\ ReportInv
    /\ \A w \in Waiter : WaitInv(w)
    /\ CloseInv

LEMMA InitHolds == Init => IInv
<1> SUFFICES ASSUME Init PROVE IInv
    OBVIOUS
<1> USE DEF Init, Terminal, Absent, Running, Done, Failed, Killed
<1>1. TypeOK
  <2>1. wait \in [Waiter -> WaitState]
      BY DEF NotWaiting, WaitState
  <2> QED
      BY <2>1 DEF TypeOK, PC
<1>2. (\A j \in Job : PositionInv(j)) /\ ReportInv
    BY DEF PositionInv, ReportInv, Reports, Verdict, Recorded, Final
<1>3. (\A w \in Waiter : WaitInv(w)) /\ CloseInv
    BY DEF WaitInv, NotWaiting, CloseInv, LateStartsAreKilled
<1> QED
    BY <1>1, <1>2, <1>3 DEF IInv

LEMMA WaitBlocks ==
    ASSUME NEW q \in WaitState, NEW T \in SUBSET Job
    PROVE  [q EXCEPT !.pc = "blocked", !.targets = T] \in WaitState
  BY DEF WaitState

LEMMA TypeStep == IInv /\ [Next]_vars => TypeOK'
<1> SUFFICES ASSUME IInv, [Next]_vars PROVE TypeOK'
    OBVIOUS
<1>0. TypeOK /\ \A j \in Job : PositionInv(j)
    BY DEF IInv
<1> USE <1>0 DEF TypeOK, PC, InWaitGroup, Terminal, Absent, Running, Done,
        Failed, Killed, jobVars, killVars, mgrVars, noteVars
<1>1. ASSUME NEW j \in Job, Register(j) PROVE TypeOK'
    BY <1>1 DEF Register
<1>2. ASSUME NEW j \in Job, RunReturn(j) PROVE TypeOK'
    BY <1>2 DEF RunReturn
<1>3. ASSUME NEW j \in Job, Launch(j) PROVE TypeOK'
    BY <1>3 DEF Launch
<1>4. ASSUME NEW j \in Job, Classify(j) PROVE TypeOK'
    BY <1>4 DEF Classify
<1>5. ASSUME NEW j \in Job, Record(j) PROVE TypeOK'
  <2>1. [job |-> j, st |-> st[j]] \in Report
      BY <1>5 DEF Record, Report, PositionInv, Verdict
  <2>2. completed' \subseteq Report /\ told' \subseteq Report
      BY <1>5, <2>1 DEF Record
  <2> QED
      BY <1>5, <2>2 DEF Record
<1>6. ASSUME NEW j \in Job, Publish(j) PROVE TypeOK'
    BY <1>6 DEF Publish
<1>7. ASSUME NEW j \in Job, Signal(j) \/ Exit(j) PROVE TypeOK'
    BY <1>7 DEF Signal, Exit
<1>8. ASSUME NEW j \in Job, KillFlip(j) \/ KillCancel(j) PROVE TypeOK'
    BY <1>8 DEF KillFlip, KillCancel
<1>9. ASSUME NEW w \in Waiter, WaitCall(w) PROVE TypeOK'
  <2>0. RunningJobs \subseteq Job /\ Registered \subseteq Job
      BY DEF RunningJobs, Registered
  <2>1. PICK T \in {RunningJobs} \cup SUBSET Registered :
          wait' = [wait EXCEPT ![w].pc = "blocked", ![w].targets = T]
      BY <1>9 DEF WaitCall
  <2>2. T \subseteq Job
      BY <2>0
  <2>3. wait' = [wait EXCEPT ![w] =
                   [wait[w] EXCEPT !.pc = "blocked", !.targets = T]]
      BY <2>1
  <2>4. [wait[w] EXCEPT !.pc = "blocked", !.targets = T] \in WaitState
      BY <2>2, WaitBlocks
  <2> QED
      BY <1>9, <2>3, <2>4 DEF WaitCall
<1>10. ASSUME NEW w \in Waiter, WaitDone(w) \/ WaitCut(w) PROVE TypeOK'
    BY <1>10 DEF WaitDone, WaitCut, Snapshot, WaitState
<1>11. CASE DrainCompletedNote \/ CloseCancel \/ CloseReturn
    BY <1>11 DEF DrainCompletedNote, CloseCancel, CloseReturn
<1>12. CASE UNCHANGED vars
    BY <1>12 DEF vars
<1> QED
    BY <1>1, <1>2, <1>3, <1>4, <1>5, <1>6, <1>7, <1>8, <1>9, <1>10, <1>11,
       <1>12 DEF Next, Goroutine

(* Only a goroutine's own steps, Register and Kill touch pc, st or status. *)
LEMMA PositionStep ==
    IInv /\ [Next]_vars => (\A j \in Job : PositionInv(j))'
<1> SUFFICES ASSUME IInv, [Next]_vars, NEW k \in Job PROVE PositionInv(k)'
    OBVIOUS
<1>0. TypeOK /\ PositionInv(k)
    BY DEF IInv
<1> USE <1>0 DEF TypeOK, PositionInv, Verdict, Recorded, Final, Terminal,
        Absent, Running, Done, Failed, Killed
<1>1. ASSUME NEW j \in Job, Register(j) \/ Launch(j) PROVE PositionInv(k)'
    BY <1>1 DEF Register, Launch
<1>2. ASSUME NEW j \in Job, RunReturn(j) \/ Classify(j)
      PROVE  PositionInv(k)'
    BY <1>2 DEF RunReturn, Classify
<1>3. ASSUME NEW j \in Job, Record(j) PROVE PositionInv(k)'
    BY <1>3 DEF Record
<1>4. ASSUME NEW j \in Job, Publish(j) PROVE PositionInv(k)'
    BY <1>4 DEF Publish
<1>5. ASSUME NEW j \in Job, Signal(j) \/ Exit(j) PROVE PositionInv(k)'
    BY <1>5 DEF Signal, Exit
<1>6. ASSUME NEW j \in Job, KillFlip(j) PROVE PositionInv(k)'
    BY <1>6 DEF KillFlip
<1>7. ASSUME UNCHANGED <<pc, status, st>> PROVE PositionInv(k)'
    BY <1>7
<1> QED
    BY <1>1, <1>2, <1>3, <1>4, <1>5, <1>6, <1>7
    DEF Next, Goroutine, KillCancel, WaitCall, WaitDone, WaitCut,
        DrainCompletedNote, CloseCancel, CloseReturn, vars, jobVars

(* Record adds the one summary of its job; the drain moves summaries whole. *)
LEMMA ReportStep == IInv /\ [Next]_vars => ReportInv'
<1> SUFFICES ASSUME IInv, [Next]_vars PROVE ReportInv'
    OBVIOUS
<1>0. TypeOK /\ ReportInv /\ \A j \in Job : PositionInv(j)
    BY DEF IInv
<1> USE <1>0 DEF TypeOK, ReportInv, Reports, Verdict, Recorded
<1>1. ASSUME NEW j \in Job, Register(j) \/ Launch(j) \/ RunReturn(j)
      PROVE  ReportInv'
    BY <1>1 DEF Register, Launch, RunReturn, Absent, Report, noteVars
<1>2. ASSUME NEW j \in Job, Classify(j) PROVE ReportInv'
    BY <1>2 DEF Classify, Report, noteVars
<1>3. ASSUME NEW j \in Job, Record(j) PROVE ReportInv'
  <2> DEFINE r == [job |-> j, st |-> st[j]]
  <2>1. r \notin Reports
      BY <1>3 DEF Record
  <2>2. Reports' = Reports \cup {r} /\ (completed \cap told = {})'
      BY <1>3, <2>1 DEF Record
  <2>3. pc' = [pc EXCEPT ![j] = "recorded"] /\ st' = st
      BY <1>3 DEF Record
  <2>4. \A q \in Reports' : pc'[q.job] \in Recorded /\ q.st = st'[q.job]
      BY <2>2, <2>3 DEF Report
  <2>5. \A k \in Job : pc'[k] \in Recorded
                         => [job |-> k, st |-> st'[k]] \in Reports'
      BY <2>2, <2>3
  <2> HIDE DEF Reports, Recorded
  <2> QED
      BY <2>2, <2>4, <2>5 DEF ReportInv
<1>4. ASSUME NEW j \in Job, Publish(j) \/ Signal(j) \/ Exit(j)
      PROVE  ReportInv'
    BY <1>4 DEF Publish, Signal, Exit, Report, noteVars
<1>5. CASE DrainCompletedNote
    BY <1>5 DEF DrainCompletedNote, jobVars
<1>6. ASSUME UNCHANGED <<pc, st, noteVars>> PROVE ReportInv'
    BY <1>6 DEF noteVars
<1> QED
    BY <1>1, <1>2, <1>3, <1>4, <1>5, <1>6
    DEF Next, Goroutine, KillFlip, KillCancel, WaitCall, WaitDone, WaitCut,
        CloseCancel, CloseReturn, vars, jobVars

(* What a completed Wait saw is past changing: Final statuses are final.   *)
LEMMA WaitStep == IInv /\ [Next]_vars => (\A w \in Waiter : WaitInv(w))'
<1> SUFFICES ASSUME IInv, [Next]_vars, NEW v \in Waiter PROVE WaitInv(v)'
    OBVIOUS
<1>0. TypeOK /\ WaitInv(v) /\ \A j \in Job : PositionInv(j)
    BY DEF IInv
<1> USE <1>0 DEF TypeOK, WaitState, WaitInv, DoneClosed
<1>1. ASSUME NEW j \in Job, pc[j] \notin {"signalled", "exited"},
             \A k \in Job \ {j} : pc'[k] = pc[k] /\ status'[k] = status[k],
             wait' = wait
      PROVE  WaitInv(v)'
    BY <1>1
<1>2. ASSUME NEW j \in Job, Register(j) \/ RunReturn(j) \/ Launch(j)
                  \/ Classify(j) \/ Record(j) \/ Publish(j) \/ Signal(j)
      PROVE  WaitInv(v)'
    BY <1>1, <1>2
    DEF Register, RunReturn, Launch, Classify, Record, Publish, Signal, Absent
<1>3. ASSUME NEW j \in Job, Exit(j) PROVE WaitInv(v)'
    BY <1>3 DEF Exit
<1>4. ASSUME NEW j \in Job, KillFlip(j) PROVE WaitInv(v)'
    BY <1>1, <1>4
    DEF KillFlip, WaitState, PositionInv, Verdict, Recorded, Final, Running, Terminal,
        Done, Failed, Killed
<1>5. ASSUME NEW w \in Waiter, WaitCall(w) \/ WaitCut(w) PROVE WaitInv(v)'
    BY <1>5 DEF WaitCall, WaitCut, jobVars
<1>6. ASSUME NEW w \in Waiter, WaitDone(w) PROVE WaitInv(v)'
    BY <1>6 DEF WaitDone, Snapshot, jobVars, WaitState
<1>7. ASSUME UNCHANGED <<pc, status, wait>> PROVE WaitInv(v)'
    BY <1>7
<1> QED
    BY <1>2, <1>3, <1>4, <1>5, <1>6, <1>7
    DEF Next, Goroutine, KillCancel, DrainCompletedNote, CloseCancel,
        CloseReturn, vars, jobVars

(* Whatever is still to be classified after Close finds the root cancelled. *)
LEMMA CloseStep == IInv /\ [Next]_vars => CloseInv'
<1> SUFFICES ASSUME IInv, [Next]_vars PROVE CloseInv'
    OBVIOUS
<1>0. TypeOK /\ CloseInv /\ \A j \in Job : PositionInv(j)
    BY DEF IInv
<1> USE <1>0 DEF TypeOK, CloseInv, LateStartsAreKilled, InWaitGroup, mgrVars
<1>1. ASSUME NEW j \in Job, Register(j) PROVE CloseInv'
    BY <1>1 DEF Register, Absent
<1>2. ASSUME NEW j \in Job, Launch(j) PROVE CloseInv'
    BY <1>2 DEF Launch, PositionInv, Verdict, Terminal, Absent
<1>3. ASSUME NEW j \in Job, Classify(j) PROVE CloseInv'
    BY <1>3 DEF Classify, ContextDone
<1>4. ASSUME NEW j \in Job, RunReturn(j) \/ Record(j) \/ Publish(j)
                              \/ Signal(j) \/ Exit(j)
      PROVE  CloseInv'
    BY <1>4 DEF RunReturn, Record, Publish, Signal, Exit
<1>5. CASE CloseCancel \/ CloseReturn
    BY <1>5 DEF CloseCancel, CloseReturn, jobVars
<1>6. ASSUME UNCHANGED <<pc, st, mgrVars>> PROVE CloseInv'
    BY <1>6
<1> QED
    BY <1>1, <1>2, <1>3, <1>4, <1>5, <1>6
    DEF Next, Goroutine, KillFlip, KillCancel, WaitCall, WaitDone, WaitCut,
        DrainCompletedNote, vars, jobVars

LEMMA Invariance == Spec => []IInv
<1>1. IInv /\ [Next]_vars => IInv'
    BY TypeStep, PositionStep, ReportStep, WaitStep, CloseStep DEF IInv
<1> QED
    BY InitHolds, <1>1, PTL DEF Spec

-----------------------------------------------------------------------------
(* Theorems.                                                               *)

(* The state of the job table keeps its type.                              *)
THEOREM TypeCorrect == Spec => []TypeOK
<1>1. IInv => TypeOK
    BY DEF IInv
<1> QED
    BY Invariance, <1>1, PTL

(* recordCompletion and DrainCompletedNote: a finished job is reported at  *)
(* most once, and never both queued and drained.                           *)
THEOREM UniqueReports == Spec => []ReportedOnce
<1>1. IInv => ReportedOnce
  <2> SUFFICES ASSUME IInv PROVE ReportedOnce
      OBVIOUS
  <2>1. ReportInv /\ Reports \subseteq Report
      BY DEF IInv, TypeOK, Reports
  <2> QED
      BY <2>1 DEF ReportInv, ReportedOnce, Report
<1> QED
    BY Invariance, <1>1, PTL

(* The note and the published status of a job agree unless a Kill came     *)
(* first (Record, KillFlip and Publish in any order).                      *)
THEOREM HonestReports == Spec => []ReportMatchesStatus
<1>1. ASSUME IInv, NEW r \in Reports,
             pc[r.job] \in {"published", "signalled", "exited"}
      PROVE  status[r.job] \in {r.st, Killed}
  <2>1. r.job \in Job
      BY <1>1 DEF IInv, TypeOK, Reports, Report
  <2>2. r.st = st[r.job] /\ PositionInv(r.job)
      BY <1>1, <2>1 DEF IInv, ReportInv
  <2> QED
      BY <1>1, <2>2 DEF PositionInv, Final, Recorded, Verdict
<1>2. ASSUME IInv, NEW j \in Job, status[j] \in {Done, Failed}
      PROVE  [job |-> j, st |-> status[j]] \in Reports
  <2>1. PositionInv(j) /\ ReportInv
      BY <1>2 DEF IInv
  <2>2. pc[j] \in Final /\ status[j] = st[j]
      BY <1>2, <2>1
      DEF PositionInv, Absent, Running, Done, Failed, Killed
  <2> QED
      BY <2>1, <2>2 DEF ReportInv, Final
<1>3. IInv => ReportMatchesStatus
    BY <1>1, <1>2 DEF ReportMatchesStatus
<1> QED
    BY Invariance, <1>3, PTL

(* A Wait that was not cut short returns final statuses of reported jobs.  *)
THEOREM CompleteWaits == Spec => []CompleteWaitIsFinal
<1>1. IInv => CompleteWaitIsFinal
  <2> SUFFICES ASSUME IInv, NEW w \in Waiter, wait[w].pc = "returned",
                      ~wait[w].cut, NEW o \in wait[w].seen
               PROVE  /\ o.st \in Terminal
                      /\ status[o.job] = o.st
                      /\ \E r \in Reports : r.job = o.job
      BY DEF CompleteWaitIsFinal
  <2>1. o.job \in Job
      BY DEF IInv, TypeOK, WaitState
  <2>2. DoneClosed(o.job) /\ o.st = status[o.job]
      BY DEF IInv, WaitInv
  <2>3. PositionInv(o.job) /\ ReportInv
      BY <2>1 DEF IInv
  <2> QED
      BY <2>1, <2>2, <2>3
      DEF DoneClosed, PositionInv, ReportInv, Final, Recorded, Verdict,
          Terminal, Killed
<1> QED
    BY Invariance, <1>1, PTL

(* No job started around Close can end as anything but Killed.             *)
THEOREM LateStarts == Spec => []LateStartsAreKilled
<1>1. IInv => LateStartsAreKilled
    BY DEF IInv, CloseInv
<1> QED
    BY Invariance, <1>1, PTL

(* A published terminal status is never replaced, by Kill or goroutine.    *)
THEOREM FinalStatuses == Spec => TerminalIsFinal
<1>1. IInv /\ [Next]_vars
        => [\A j \in Job : status[j] \in Terminal
                             => status'[j] = status[j]]_vars
  <2> SUFFICES ASSUME IInv, Next, NEW k \in Job, status[k] \in Terminal
               PROVE  status'[k] = status[k]
      OBVIOUS
  <2>0. TypeOK /\ \A j \in Job : PositionInv(j)
      BY DEF IInv
  <2> USE <2>0 DEF TypeOK, PositionInv, Terminal, Absent, Running, Done,
          Failed, Killed
  <2>1. ASSUME NEW j \in Job, Register(j) \/ KillFlip(j)
        PROVE  status'[k] = status[k]
      BY <2>1 DEF Register, KillFlip
  <2>2. ASSUME NEW j \in Job, Publish(j) PROVE status'[k] = status[k]
      BY <2>2 DEF Publish, Final, Recorded, Verdict
  <2>3. ASSUME status' = status PROVE status'[k] = status[k]
      BY <2>3
  <2> QED
      BY <2>1, <2>2, <2>3
      DEF Next, Goroutine, Launch, RunReturn, Classify, Record, Signal, Exit,
          KillCancel, WaitCall, WaitDone, WaitCut, DrainCompletedNote,
          CloseCancel, CloseReturn, jobVars
<1> QED
    BY Invariance, <1>1, PTL DEF Spec, TerminalIsFinal

-----------------------------------------------------------------------------
(* The output buffer of a job, for any capacity and any sequence of        *)
(* writes, reads, a kill and the end of the job.                           *)

(* The job's first n bytes.                                                *)
FirstBytes(n) == [i \in 1 .. n |-> i]

Accounted ==
    /\ Len(head) + Len(tail) + truncated = written
    /\ Len(head) <= TailCap /\ Len(tail) <= TailCap

(* Before the cap is hit the head is all there is, and the offset is where *)
(* the reads have come to.                                                 *)
ReadsAreExact ==
    ~full => /\ tail = <<>>
             /\ head = FirstBytes(written)
             /\ readOffset <= written
             /\ surfaced = FirstBytes(readOffset)

OutputInv == OutputTypeOK /\ Accounted /\ ReadsAreExact /\ (results = 0 \/ (results = 1 /\ resultRead))

LEMMA FirstBytesAreASequence ==
    ASSUME NEW n \in 0 .. MaxBytes
    PROVE  /\ FirstBytes(n) \in Seq(1 .. MaxBytes)
           /\ Len(FirstBytes(n)) = n
           /\ \A i \in 1 .. n : FirstBytes(n)[i] = i
BY BoundsAssumption DEF FirstBytes

LEMMA ChunkIsASequence ==
    ASSUME written \in Nat, NEW n \in Nat \ {0}, written + n <= MaxBytes
    PROVE  /\ Chunk(n) \in Seq(1 .. MaxBytes)
           /\ Len(Chunk(n)) = n
           /\ \A i \in 1 .. n : Chunk(n)[i] = written + i
BY BoundsAssumption DEF Chunk

LEMMA Shape ==
    ASSUME OutputTypeOK
    PROVE  /\ TailCap \in Nat \ {0} /\ MaxBytes \in Nat
           /\ written \in Nat /\ written <= MaxBytes
           /\ Len(head) \in Nat /\ Len(tail) \in Nat /\ truncated \in Nat
           /\ readOffset \in Nat /\ results \in Nat
<1>1. head \in Seq(1 .. MaxBytes) /\ tail \in Seq(1 .. MaxBytes)
  BY DEF OutputTypeOK
<1>2. Len(head) \in Nat /\ Len(tail) \in Nat
  BY <1>1, LenProperties
<1>3. TailCap \in Nat \ {0} /\ MaxBytes \in Nat
  BY BoundsAssumption
<1>4. QED
  BY <1>2, <1>3 DEF OutputTypeOK

LEMMA OutputInitInv == OutputInit => OutputInv
<1> SUFFICES ASSUME OutputInit PROVE OutputInv
  OBVIOUS
<1>1. FirstBytes(0) = <<>>
  <2>1. FirstBytes(0) \in Seq(1 .. MaxBytes) /\ Len(FirstBytes(0)) = 0
    BY FirstBytesAreASequence, BoundsAssumption
  <2>2. QED
    BY <2>1, EmptySeq
<1>2. OutputTypeOK
  <2>1. <<>> \in Seq(1 .. MaxBytes)
    BY EmptySeq
  <2>2. 0 \in 0 .. MaxBytes /\ 0 \in Nat
    BY BoundsAssumption
  <2>3. QED
    BY <2>1, <2>2, Zenon DEF OutputInit, OutputTypeOK
<1>3. Accounted
  <2>1. Len(<<>>) = 0
    BY EmptySeq
  <2>2. QED
    BY <2>1, BoundsAssumption DEF OutputInit, Accounted
<1>4. ReadsAreExact
  BY <1>1 DEF OutputInit, ReadsAreExact
<1>5. QED
  BY <1>2, <1>3, <1>4 DEF OutputInit, OutputInv

(* A write that the head takes.                                            *)
LEMMA WriteHeadInv ==
    ASSUME OutputInv, NEW n \in 1 .. MaxChunk, WriteHead(n)
    PROVE  OutputInv'
<1>1. /\ n \in Nat \ {0} /\ written + n <= MaxBytes /\ Len(head) + n <= TailCap
      /\ ~full /\ ~full'
      /\ written' = written + n
      /\ head' = head \o Chunk(n)
      /\ UNCHANGED <<tail, truncated, readOffset, surfaced>>
  BY BoundsAssumption DEF WriteHead, readVars
<1>2. /\ Chunk(n) \in Seq(1 .. MaxBytes)
      /\ Len(Chunk(n)) = n
      /\ \A i \in 1 .. n : Chunk(n)[i] = written + i
  BY <1>1, Shape, ChunkIsASequence DEF OutputInv
<1>3. head \in Seq(1 .. MaxBytes) /\ head' = head \o Chunk(n)
  BY <1>1 DEF OutputInv, OutputTypeOK
<1>typed. head' \in Seq(1 .. MaxBytes) /\ Len(head') = Len(head) + n
  <2>1. Chunk(n) \in Seq(1 .. MaxBytes) /\ Len(Chunk(n)) = n
    BY <1>2
  <2>2. QED
    BY <1>3, <2>1, ConcatProperties
<1>bytes. \A i \in 1 .. Len(head) + n :
         head'[i] = IF i <= Len(head) THEN head[i] ELSE Chunk(n)[i - Len(head)]
  <2>1. Chunk(n) \in Seq(1 .. MaxBytes) /\ Len(Chunk(n)) = n
    BY <1>2
  <2>2. QED
    BY <1>3, <2>1, ConcatProperties
<1>4. OutputTypeOK'
  <2>1. written' \in 0 .. MaxBytes
    BY <1>1, Shape DEF OutputInv
  <2>2. QED
    BY <1>typed, <2>1 DEF OutputInv, OutputTypeOK, WriteHead, readVars
<1>5. Accounted'
  <2>1. /\ written' = written + n /\ Len(head') = Len(head) + n /\ Len(head) + n <= TailCap
        /\ tail' = tail /\ truncated' = truncated /\ n \in Nat
    BY <1>1, <1>typed
  <2>2. QED
    BY <2>1, Shape DEF OutputInv, Accounted
<1>6. ReadsAreExact'
  <2>1. /\ written \in 0 .. MaxBytes /\ written + n \in 0 .. MaxBytes
        /\ head = FirstBytes(written) /\ Len(head) = written
        /\ \A i \in 1 .. written : head[i] = i
    <3>1. written \in 0 .. MaxBytes /\ written + n \in 0 .. MaxBytes
      BY <1>1, Shape DEF OutputInv
    <3>2. head = FirstBytes(written)
      BY <1>1 DEF OutputInv, ReadsAreExact
    <3>3. QED
      BY <3>1, <3>2, FirstBytesAreASequence
  <2>2. \A i \in 1 .. written + n : head'[i] = i
    BY <1>1, <1>2, <1>bytes, <2>1
  <2>3. head' = FirstBytes(written + n)
    <3>1. /\ FirstBytes(written + n) \in Seq(1 .. MaxBytes)
          /\ Len(FirstBytes(written + n)) = written + n
          /\ \A i \in 1 .. written + n : FirstBytes(written + n)[i] = i
      BY <2>1, FirstBytesAreASequence
    <3>2. QED
      BY <1>typed, <2>1, <2>2, <3>1, SeqEqual
  <2>4. readOffset <= written /\ surfaced = FirstBytes(readOffset) /\ tail = <<>>
    BY <1>1 DEF OutputInv, ReadsAreExact
  <2>5. readOffset <= written + n
    BY <1>1, <2>4, Shape DEF OutputInv
  <2>6. QED
    BY <1>1, <2>3, <2>4, <2>5 DEF ReadsAreExact
<1>7. QED
  BY <1>4, <1>5, <1>6 DEF OutputInv, WriteHead, readVars

(* The write that fills the buffer.                                        *)
LEMMA WriteSwitchInv ==
    ASSUME OutputInv, NEW n \in 1 .. MaxChunk, WriteSwitch(n)
    PROVE  OutputInv'
<1> DEFINE cut == IF n > TailCap THEN n - TailCap ELSE 0
<1>1. /\ n \in Nat \ {0} /\ written + n <= MaxBytes
      /\ ~full /\ full'
      /\ written' = written + n
      /\ truncated' = truncated + cut
      /\ tail' = LastOf(Chunk(n), n - cut)
      /\ UNCHANGED <<head, readOffset, surfaced>>
  BY BoundsAssumption DEF WriteSwitch, readVars
<1>2. cut \in Nat /\ cut <= n /\ n - cut <= TailCap
  BY <1>1, Shape DEF OutputInv
<1> HIDE DEF cut
<1>3. /\ Chunk(n) \in Seq(1 .. MaxBytes)
      /\ Len(Chunk(n)) = n
  BY <1>1, Shape, ChunkIsASequence DEF OutputInv
<1>4. tail' \in Seq(1 .. MaxBytes) /\ Len(tail') = n - cut
  <2>1. tail' = SubSeq(Chunk(n), cut + 1, n)
    BY <1>1, <1>2, <1>3 DEF LastOf
  <2>2. cut \in Nat /\ n \in Nat /\ cut <= n
    BY <1>1, <1>2
  <2>3. ASSUME NEW i \in cut + 1 .. n
        PROVE  Chunk(n)[i] \in 1 .. MaxBytes
    <3>1. i \in 1 .. n
      BY <2>2
    <3>2. QED
      BY <1>3, <3>1, ElementOfSeq
  <2>4. /\ SubSeq(Chunk(n), cut + 1, n) \in Seq(1 .. MaxBytes)
        /\ Len(SubSeq(Chunk(n), cut + 1, n)) = IF cut + 1 <= n THEN n - (cut + 1) + 1 ELSE 0
    BY <2>2, <2>3, SubSeqProperties
  <2>5. QED
    BY <2>1, <2>2, <2>4
<1>5. Accounted' /\ truncated' <= written'
  <2>1. Len(tail) = 0 /\ truncated + Len(head) = written /\ Len(head) <= TailCap
    <3>1. tail = <<>>
      BY <1>1 DEF OutputInv, ReadsAreExact
    <3>2. Len(tail) = 0
      BY <3>1, EmptySeq
    <3>3. QED
      BY <3>2, Shape DEF OutputInv, Accounted
  <2>2. /\ written' = written + n /\ truncated' = truncated + cut
        /\ Len(tail') = n - cut /\ head' = head /\ n \in Nat
    BY <1>1, <1>4
  <2>3. QED
    BY <1>2, <2>1, <2>2, Shape DEF OutputInv, Accounted
<1>6. OutputTypeOK'
  <2>1. written' \in Nat /\ truncated' \in Nat /\ written' <= MaxBytes
    BY <1>1, <1>2, Shape DEF OutputInv
  <2>2. written' \in 0 .. MaxBytes /\ truncated' \in 0 .. MaxBytes
    BY <1>5, <2>1, Shape DEF OutputInv
  <2>3. QED
    BY <1>4, <2>2 DEF OutputInv, OutputTypeOK, WriteSwitch, readVars
<1>7. QED
  BY <1>1, <1>5, <1>6 DEF OutputInv, ReadsAreExact, WriteSwitch, readVars

LEMMA WriteDiscardInv ==
    ASSUME OutputInv, NEW n \in 1 .. MaxChunk, WriteDiscard(n)
    PROVE  OutputInv'
<1>1. /\ n \in Nat \ {0} /\ written + n <= MaxBytes
      /\ full /\ full'
      /\ written' = written + n
      /\ truncated' = truncated + n
      /\ UNCHANGED <<head, tail>>
  BY BoundsAssumption DEF WriteDiscard
<1>2. Accounted'
  BY <1>1, Shape DEF OutputInv, Accounted
<1>3. OutputTypeOK'
  <2>1. written' \in 0 .. MaxBytes /\ truncated' \in 0 .. MaxBytes
    BY <1>1, <1>2, Shape DEF OutputInv, Accounted
  <2>2. QED
    BY <2>1 DEF OutputInv, OutputTypeOK, WriteDiscard, readVars
<1>4. QED
  BY <1>1, <1>2, <1>3 DEF OutputInv, ReadsAreExact, WriteDiscard, readVars

LEMMA OutputReadInv ==
    ASSUME OutputInv, Output
    PROVE  OutputInv'
<1>1. Accounted'
  BY DEF OutputInv, Accounted, Output, bufVars
<1>2. readOffset' \in Nat
  <2>1. head \in Seq(Nat) /\ tail \in Seq(Nat)
    <3>1. 1 .. MaxBytes \subseteq Nat
      BY Z3
    <3>2. head \in Seq(1 .. MaxBytes) /\ tail \in Seq(1 .. MaxBytes)
      BY DEF OutputInv, OutputTypeOK
    <3>3. QED
      BY <3>1, <3>2, SeqMonotonic
  <2>2. Marker \in Seq(Nat)
    BY DEF Marker
  <2>3. String \in Seq(Nat)
    <3>1. head \o Marker \in Seq(Nat)
      BY <2>1, <2>2, ConcatProperties
    <3>2. (head \o Marker) \o tail \in Seq(Nat)
      BY <2>1, <3>1, ConcatProperties
    <3>3. QED
      BY <2>1, <3>2 DEF String
  <2>4. QED
    BY <2>3, LenProperties DEF Output
<1>3. results' = results \/ (results' = results + 1 /\ ~resultRead /\ resultRead')
  BY DEF Output
<1>4. resultRead' \in BOOLEAN /\ (resultRead => resultRead')
  BY DEF Output, OutputInv, OutputTypeOK
<1>5. results' \in Nat /\ (results' = 0 \/ (results' = 1 /\ resultRead'))
  BY <1>3, <1>4, Shape DEF OutputInv
<1>6. UNCHANGED <<written, head, tail, full, truncated, phase, result>>
  BY DEF Output, bufVars
<1>7. CASE full
  <2>1. surfaced' = surfaced
    BY <1>7 DEF Output
  <2>2. OutputTypeOK'
    BY <1>2, <1>4, <1>5, <1>6, <2>1 DEF OutputInv, OutputTypeOK
  <2>3. QED
    BY <1>1, <1>5, <1>6, <1>7, <2>2 DEF OutputInv, ReadsAreExact
<1>8. CASE ~full
  <2> DEFINE text == SubSeq(head, readOffset + 1, Len(head))
  <2>1. /\ head = FirstBytes(written) /\ surfaced = FirstBytes(readOffset)
        /\ written \in 0 .. MaxBytes /\ readOffset \in 0 .. written
        /\ readOffset \in 0 .. MaxBytes /\ tail = <<>>
    BY <1>8, Shape DEF OutputInv, ReadsAreExact
  <2>2. /\ head \in Seq(1 .. MaxBytes) /\ Len(head) = written
        /\ surfaced \in Seq(1 .. MaxBytes) /\ Len(surfaced) = readOffset
        /\ \A i \in 1 .. written : head[i] = i
        /\ \A i \in 1 .. readOffset : surfaced[i] = i
    BY <2>1, FirstBytesAreASequence
  <2>3. surfaced' = surfaced \o text /\ readOffset' = written
    BY <1>8, <2>2 DEF Output, String
  <2>4. /\ text \in Seq(1 .. MaxBytes)
        /\ Len(text) = written - readOffset
        /\ \A i \in 1 .. written - readOffset : text[i] = readOffset + i
    <3>1. \A i \in readOffset + 1 .. written : head[i] \in 1 .. MaxBytes
      <4>1. ASSUME NEW i \in readOffset + 1 .. written
            PROVE  head[i] \in 1 .. MaxBytes
        <5>1. i \in 1 .. written
          BY <2>1
        <5>2. QED
          BY <2>2, <5>1, ElementOfSeq
      <4>2. QED
        BY <4>1
    <3>2. /\ text \in Seq(1 .. MaxBytes)
          /\ Len(text) = IF readOffset + 1 <= written THEN written - (readOffset + 1) + 1 ELSE 0
          /\ \A i \in 1 .. written - (readOffset + 1) + 1 : text[i] = head[readOffset + 1 + i - 1]
      BY <2>1, <2>2, <3>1, SubSeqProperties
    <3> HIDE DEF text
    <3>3. QED
      BY <2>1, <2>2, <3>2
  <2> HIDE DEF text
  <2>5. /\ surfaced' \in Seq(1 .. MaxBytes)
        /\ Len(surfaced') = written
        /\ \A i \in 1 .. written :
              surfaced'[i] = IF i <= readOffset THEN surfaced[i] ELSE text[i - readOffset]
    <3>1. /\ surfaced' \in Seq(1 .. MaxBytes)
          /\ Len(surfaced') = Len(surfaced) + Len(text)
          /\ \A i \in 1 .. Len(surfaced) + Len(text) :
                surfaced'[i] = IF i <= Len(surfaced) THEN surfaced[i] ELSE text[i - Len(surfaced)]
      BY <2>2, <2>3, <2>4, ConcatProperties
    <3>2. QED
      BY <2>1, <2>2, <2>4, <3>1
  <2>6. \A i \in 1 .. written : surfaced'[i] = i
    <3>1. readOffset \in Nat /\ written \in Nat
      BY <2>1
    <3>2. ASSUME NEW i \in 1 .. written, i <= readOffset
          PROVE  surfaced'[i] = i
      <4>1. i \in 1 .. readOffset /\ surfaced'[i] = surfaced[i]
        BY <2>5, <3>1, <3>2
      <4>2. QED
        BY <2>2, <4>1
    <3>3. ASSUME NEW i \in 1 .. written, ~(i <= readOffset)
          PROVE  surfaced'[i] = i
      <4>1. i - readOffset \in 1 .. written - readOffset /\ readOffset + (i - readOffset) = i
        BY <3>1, <3>3
      <4>2. surfaced'[i] = text[i - readOffset]
        BY <2>5, <3>3
      <4>3. QED
        BY <2>4, <4>1, <4>2
    <3>4. QED
      BY <3>2, <3>3
  <2>7. surfaced' = FirstBytes(written)
    <3>1. /\ FirstBytes(written) \in Seq(1 .. MaxBytes)
          /\ Len(FirstBytes(written)) = written
          /\ \A i \in 1 .. written : FirstBytes(written)[i] = i
      BY <2>1, FirstBytesAreASequence
    <3>2. QED
      BY <2>5, <2>6, <3>1, SeqEqual
  <2>8. OutputTypeOK'
    BY <1>2, <1>4, <1>5, <1>6, <2>5 DEF OutputInv, OutputTypeOK
  <2>9. ReadsAreExact'
    BY <1>6, <2>1, <2>3, <2>7 DEF ReadsAreExact
  <2>10. QED
    BY <1>1, <1>5, <2>8, <2>9 DEF OutputInv
<1>9. QED
  BY <1>7, <1>8

LEMMA OutputNextInv == OutputInv /\ [OutputNext]_outputVars => OutputInv'
<1> SUFFICES ASSUME OutputInv, [OutputNext]_outputVars
             PROVE  OutputInv'
  OBVIOUS
<1>1. CASE Finish \/ Kill
  BY <1>1 DEF Finish, Kill, OutputInv, OutputTypeOK, Accounted, ReadsAreExact, bufVars, readVars
<1>2. CASE UNCHANGED outputVars
  BY <1>2 DEF outputVars, OutputInv, OutputTypeOK, Accounted, ReadsAreExact, bufVars, readVars
<1>3. QED
  BY <1>1, <1>2, WriteHeadInv, WriteSwitchInv, WriteDiscardInv, OutputReadInv DEF OutputNext

LEMMA OutputSpecInv == OutputSpec => []OutputInv
BY OutputInitInv, OutputNextInv, PTL DEF OutputSpec

-----------------------------------------------------------------------------
(* EveryByteIsAccounted: every byte written is held or counted as dropped, *)
(* the buffer stays within its capacity, and until the cap is hit the      *)
(* reads return the output exactly (cappedBuffer, Manager.Output).         *)
THEOREM EveryByteIsAccounted == OutputSpec => []BytesAreExact
<1>1. OutputInv => BytesAreExact
  BY DEF OutputInv, Accounted, ReadsAreExact, FirstBytes, BytesAreExact
<1>2. QED
  BY <1>1, OutputSpecInv, PTL

(* TheResultOnce: Output returns a job's result at most once (resultRead), *)
(* however reads, the kill and the end of the job interleave.              *)
THEOREM TheResultOnce == OutputSpec => []ResultSurfacedOnce
<1>1. OutputInv => ResultSurfacedOnce
  BY DEF OutputInv, ResultSurfacedOnce
<1>2. QED
  BY <1>1, OutputSpecInv, PTL
=============================================================================
