------------------------- MODULE LocalExecutorProofs -------------------------
(***************************************************************************)
(* Proofs about LocalExecutor, for every finite set of task ids, all files *)
(* and inputs, and every positive number of slots.  The invariant LInv     *)
(* says what each goroutine may rely on: how many tokens are out, and what *)
(* the row of a task can be while the task is in a batch, is processed or  *)
(* is about to return its slot.                                            *)
(* OwnFilesWhole, on top of it, says what is at the path of a file that    *)
(* only one task names.                                                    *)
(***************************************************************************)
EXTENDS LocalExecutor, FiniteSetTheorems, WellFoundedInduction, TLAPS

Open == {"DISPATCHED", "RUNNING", "CANCELLED"}
Final == {"SUCCESS", "FAILED", "CANCELLED"}

SlotsExact == sem = Cardinality(Processed) + (IF disp.pc = "mark" THEN 1 ELSE 0)

DownIsEmpty == phase = "down" => Processed = {} /\ disp.pc = "idle"

BatchShape == disp.pc # "idle" => disp.batch # {}

RowsFit ==
  /\ \A t \in disp.batch : status[t] \in {"PENDING", "CANCELLED"}
  /\ \A t \in Processed : status[t] \in IF At(t, "end") THEN Final ELSE Open

LInv == TypeOK /\ SlotsExact /\ DownIsEmpty /\ BatchShape /\ BatchIsFresh /\ RowsFit

-----------------------------------------------------------------------------
(* Sets of ids.                                                            *)

LEMMA ProcessedFinite == IsFiniteSet(Processed)
<1>1. Processed \in SUBSET Tasks
  BY DEF Processed
<1> QED
  BY <1>1, TasksAreIds, FS_Subset

\* A set of tasks has a first one.
LEMMA FirstIsLeast ==
  ASSUME NEW S \in SUBSET Tasks, S # {}
  PROVE  First(S) \in S /\ \A u \in S : First(S) <= u
<1> DEFINE Upto(x) == {y \in S : y <= x}
           T == {Upto(x) : x \in S}
<1>1. IsFiniteSet(S) /\ S \subseteq Nat
  BY TasksAreIds, FS_Subset
<1>2. IsWellFoundedOn(StrictSubsetOrdering(S), SUBSET S)
  BY <1>1, FS_StrictSubsetOrderingWellFounded, FS_FiniteSubsetsOfFinite
<1>3. T \subseteq SUBSET S /\ T # {}
  OBVIOUS
<1>4. PICK D \in T : \A E \in T : <<E, D>> \notin StrictSubsetOrdering(S)
  <2> HIDE DEF T
  <2> QED
    BY <1>2, <1>3, WFMin
<1>5. PICK x \in S : D = Upto(x)
  BY <1>4
<1>6. ASSUME NEW y \in S, y < x PROVE FALSE
  <2>1. Upto(y) \subseteq Upto(x)
    <3> SUFFICES ASSUME NEW z \in S, z <= y PROVE z <= x
      OBVIOUS
    <3>1. x \in Nat /\ y \in Nat /\ z \in Nat
      BY <1>1
    <3> QED
      BY <1>6, <3>1
  <2>2. x \in Upto(x) /\ x \notin Upto(y)
    BY <1>1, <1>6
  <2>3. Upto(y) \in T /\ Upto(y) \in SUBSET S /\ Upto(x) \in SUBSET S
    OBVIOUS
  <2>4. <<Upto(y), Upto(x)>> \in StrictSubsetOrdering(S)
    <3> HIDE DEF Upto
    <3> QED
      BY <2>1, <2>2, <2>3 DEF StrictSubsetOrdering
  <2> QED
    BY <1>4, <1>5, <2>3, <2>4
<1>7. \A u \in S : x <= u
  BY <1>1, <1>6
<1> QED
  BY <1>7 DEF First

-----------------------------------------------------------------------------
(* The invariant holds initially and is kept by every step.                *)

LEMMA InitInv == Init => LInv
<1> SUFFICES ASSUME Init PROVE LInv
  OBVIOUS
<1>1. Processed = {}
  BY DEF Init, Processed, At, NoProc
<1>2. TypeOK
  BY LimitsAssumption
  DEF Init, TypeOK, Statuses, NoDisp, NoProc, ProcPcs
<1>3. SlotsExact
  BY <1>1, FS_EmptySet DEF Init, SlotsExact, NoDisp
<1> QED
  BY <1>1, <1>2, <1>3 
  DEF Init, LInv, DownIsEmpty, BatchShape, BatchIsFresh, RowsFit, NoDisp

\* A step of a processed task that only writes its own row and moves on.
LEMMA MoveOnInv ==
  ASSUME LInv, NEW t \in Tasks, NEW s \in Statuses,
         NEW pc \in ProcPcs \ {"none"}, NEW i \in Nat \ {0},
         t \in Processed,
         status' = [status EXCEPT ![t] = s],
         proc' = [proc EXCEPT ![t] = [pc |-> pc, i |-> i]],
         s \in IF pc = "end" THEN Final ELSE Open,
         UNCHANGED <<phase, sem, disp, restarts>>,
         cancelling' \subseteq Tasks,
         disk' \in [Files -> {"absent", "partial", "complete"}],
         filler' \in [Files -> SUBSET Tasks]
  PROVE  LInv' /\ UNCHANGED Processed
<1>1. TypeOK'
  BY DEF LInv, TypeOK
<1>2. /\ proc'[t] = [pc |-> pc, i |-> i]
      /\ \A u \in Tasks \ {t} : proc'[u] = proc[u]
  BY DEF LInv, TypeOK
<1>3. UNCHANGED Processed
  BY <1>2 DEF Processed, At
<1>4. SlotsExact' /\ DownIsEmpty' /\ BatchShape' /\ BatchIsFresh'
  BY <1>3 DEF LInv, SlotsExact, DownIsEmpty, BatchShape, BatchIsFresh
<1>5. RowsFit'
  <2>1. status'[t] = s /\ \A u \in Tasks \ {t} : status'[u] = status[u]
    BY DEF LInv, TypeOK
  <2>2. t \notin disp.batch
    BY DEF LInv, BatchIsFresh
  <2>3. disp.batch \subseteq Tasks /\ Processed \subseteq Tasks
    BY DEF LInv, TypeOK, Processed
  <2> QED
    BY <1>2, <1>3, <2>1, <2>2, <2>3 DEF LInv, RowsFit, At
<1> QED
  BY <1>1, <1>3, <1>4, <1>5 DEF LInv

\* The steps of processTask but its last, and the network's.
LEMMA ProcStepInv ==
  ASSUME LInv, NEW t \in Tasks,
         \/ Load(t) \/ Begin(t) \/ Resolve(t) \/ Execute(t) \/ WriteResult(t)
         \/ NetworkStep(t)
  PROVE  LInv' /\ UNCHANGED Processed
<1> USE DEF Open, Final
<1>1. /\ proc[t].pc \in ProcPcs /\ proc[t].i \in Nat \ {0}
      /\ status[t] \in Statuses
      /\ proc = [proc EXCEPT ![t] = [pc |-> proc[t].pc, i |-> proc[t].i]]
      /\ status = [status EXCEPT ![t] = status[t]]
  BY DEF LInv, TypeOK
<1>2. t \in Processed /\ ~At(t, "end")
  BY DEF Load, Begin, Resolve, Execute, WriteResult, NetworkStep, FetchOpen,
         FetchFail, CopyDone, CopyFail, At, Processed
<1>3. status[t] \in Open
  BY <1>2 DEF LInv, RowsFit
<1>4. ASSUME NEW pc, Goto(t, pc)
      PROVE  proc' = [proc EXCEPT ![t] = [pc |-> pc, i |-> proc[t].i]]
  <2>1. /\ proc[t] = [pc |-> proc[t].pc, i |-> proc[t].i]
        /\ DOMAIN proc = Tasks
    BY DEF LInv, TypeOK
  <2>2. [proc[t] EXCEPT !.pc = pc] = [pc |-> pc, i |-> proc[t].i]
    BY <2>1
  <2>3. proc' = [proc EXCEPT ![t] = [proc[t] EXCEPT !.pc = pc]]
    BY <1>4 DEF Goto
  <2> QED
    BY <2>2, <2>3
<1>5. ASSUME NextInput(t)
      PROVE  /\ proc' = [proc EXCEPT ![t] = [pc |-> "resolve", i |-> proc[t].i + 1]]
             /\ proc[t].i + 1 \in Nat \ {0}
  BY <1>1, <1>5 DEF NextInput
<1>6. ASSUME UNCHANGED <<disk, filler>>
      PROVE  /\ disk' \in [Files -> {"absent", "partial", "complete"}]
             /\ filler' \in [Files -> SUBSET Tasks]
  BY <1>6 DEF LInv, TypeOK
<1>7. cancelling \subseteq Tasks
  BY DEF LInv, TypeOK
<1>8. ASSUME NEW pc \in ProcPcs \ {"none", "end"}, NEW i \in Nat \ {0},
             proc' = [proc EXCEPT ![t] = [pc |-> pc, i |-> i]],
             UNCHANGED <<status, phase, sem, disp, cancelling, restarts>>,
             disk' \in [Files -> {"absent", "partial", "complete"}],
             filler' \in [Files -> SUBSET Tasks]
      PROVE  LInv' /\ UNCHANGED Processed
  BY <1>1, <1>2, <1>3, <1>7, <1>8, MoveOnInv
<1>9. CASE Load(t)
  <2>1. CASE status[t] = "CANCELLED"
    BY <1>1, <1>2, <1>4, <1>6, <1>7, <1>9, <2>1, MoveOnInv DEF Load, ProcPcs, files
  <2>2. CASE status[t] # "CANCELLED"
    BY <1>1, <1>4, <1>6, <1>8, <1>9, <2>2 DEF Load, ProcPcs, files
  <2> QED
    BY <2>1, <2>2
<1>10. CASE Begin(t)
  <2>1. /\ status' = [status EXCEPT ![t] = "RUNNING"]
        /\ UNCHANGED <<disk, filler, phase, sem, disp, cancelling, restarts>>
        /\ Goto(t, "resolve") \/ Goto(t, "fail")
    BY <1>10 DEF Begin, SetStatus, files
  <2>2. PICK pc \in {"resolve", "fail"} : Goto(t, pc)
    BY <2>1
  <2>3. proc' = [proc EXCEPT ![t] = [pc |-> pc, i |-> proc[t].i]]
    BY <1>4, <2>2
  <2> QED
    BY <1>1, <1>2, <1>6, <1>7, <2>1, <2>3, MoveOnInv DEF Statuses, ProcPcs
<1>11. CASE Resolve(t)
  <2>1. UNCHANGED <<status, disk, filler, phase, sem, disp, cancelling, restarts>>
    BY <1>11 DEF Resolve, files
  <2>2. CASE NextInput(t)
    BY <1>5, <1>6, <1>8, <2>1, <2>2 DEF ProcPcs
  <2>3. CASE \E pc \in {"execute", "fail", "fetch"} : Goto(t, pc)
    <3>1. PICK pc \in {"execute", "fail", "fetch"} : Goto(t, pc)
      BY <2>3
    <3> QED
      BY <1>1, <1>4, <1>6, <1>8, <2>1, <3>1 DEF ProcPcs
  <2> QED
    BY <1>11, <2>2, <2>3 DEF Resolve
<1>12. CASE Execute(t)
  <2>1. UNCHANGED <<status, disk, filler, phase, sem, disp, cancelling, restarts>>
    BY <1>12 DEF Execute, files
  <2>2. PICK pc \in {"succeed", "fail"} : Goto(t, pc)
    BY <1>12 DEF Execute
  <2> QED
    BY <1>1, <1>4, <1>6, <1>8, <2>1, <2>2 DEF ProcPcs
<1>13. CASE WriteResult(t)
  <2>1. /\ status' = [status EXCEPT ![t] = Result(t)]
        /\ Goto(t, "end")
        /\ UNCHANGED <<disk, filler, phase, sem, disp, cancelling, restarts>>
    BY <1>13 DEF WriteResult, SetStatus, files
  <2>2. Result(t) \in Final
    BY DEF Result, Final
  <2>3. Result(t) \in Statuses /\ "end" \in ProcPcs \ {"none"}
    BY DEF Result, Statuses, ProcPcs
  <2> QED
    BY <1>1, <1>2, <1>4, <1>6, <1>7, <2>1, <2>2, <2>3, MoveOnInv
<1>14. CASE FetchFail(t)
  <2>1. /\ Goto(t, "fail")
        /\ UNCHANGED <<status, disk, filler, phase, sem, disp, cancelling, restarts>>
    BY <1>14 DEF FetchFail, files
  <2> QED
    BY <1>1, <1>4, <1>6, <1>8, <2>1 DEF ProcPcs
<1>15. CASE FetchOpen(t) \/ CopyDone(t) \/ CopyFail(t)
  <2>1. /\ disk' \in [Files -> {"absent", "partial", "complete"}]
        /\ filler' \in [Files -> SUBSET Tasks]
    BY <1>15 DEF FetchOpen, CopyDone, CopyFail, LInv, TypeOK
  <2>2. UNCHANGED <<status, phase, sem, disp, cancelling, restarts>>
    BY <1>15 DEF FetchOpen, CopyDone, CopyFail
  <2>3. NextInput(t) \/ Goto(t, "copy") \/ Goto(t, "fail")
    BY <1>15 DEF FetchOpen, CopyDone, CopyFail
  <2>4. CASE NextInput(t)
    BY <1>5, <1>8, <2>1, <2>2, <2>4 DEF ProcPcs
  <2>5. CASE Goto(t, "copy")
    BY <1>1, <1>4, <1>8, <2>1, <2>2, <2>5 DEF ProcPcs
  <2>6. CASE Goto(t, "fail")
    BY <1>1, <1>4, <1>8, <2>1, <2>2, <2>6 DEF ProcPcs
  <2> QED
    BY <2>3, <2>4, <2>5, <2>6
<1> QED
  BY <1>9, <1>10, <1>11, <1>12, <1>13, <1>14, <1>15 DEF NetworkStep

LEMMA BootInv == LInv /\ Boot => LInv' /\ UNCHANGED Processed
<1> SUFFICES ASSUME LInv, Boot PROVE LInv' /\ UNCHANGED Processed
  OBVIOUS
<1>1. UNCHANGED Processed /\ Processed = {}
  BY DEF Boot, Processed, At, LInv, DownIsEmpty
<1>2. TypeOK'
  BY DEF Boot, files, LInv, TypeOK, Statuses
<1>3. SlotsExact' /\ DownIsEmpty' /\ BatchShape' /\ BatchIsFresh'
  BY <1>1 DEF Boot, LInv, SlotsExact, DownIsEmpty, BatchShape, BatchIsFresh
<1>4. RowsFit'
  BY <1>1 DEF Boot, LInv, RowsFit, TypeOK
<1> QED
  BY <1>1, <1>2, <1>3, <1>4 DEF LInv

LEMMA HaltInv == LInv /\ Halt => LInv'
<1> SUFFICES ASSUME LInv, Halt PROVE LInv'
  OBVIOUS
<1>1. Processed' = {}
  BY DEF Halt, Processed, At, NoProc
<1>2. TypeOK'
  BY LimitsAssumption DEF Halt, LInv, TypeOK, NoDisp, NoProc, ProcPcs
<1>3. SlotsExact'
  BY <1>1, FS_EmptySet DEF Halt, SlotsExact, NoDisp
<1>4. DownIsEmpty' /\ BatchShape' /\ BatchIsFresh' /\ RowsFit'
  BY <1>1 DEF Halt, NoDisp, DownIsEmpty, BatchShape, BatchIsFresh, RowsFit
<1> QED
  BY <1>2, <1>3, <1>4 DEF LInv

\* A task of the query's answer is PENDING, so it is not processed.
LEMMA QueryInv == LInv /\ DispatchQuery => LInv' /\ UNCHANGED Processed
<1> SUFFICES ASSUME LInv, DispatchQuery PROVE LInv' /\ UNCHANGED Processed
  OBVIOUS
<1> DEFINE B == {t \in Having("PENDING") :
                   Cardinality({u \in Having("PENDING") : u < t}) < BatchLimit}
<1>1. /\ disp' = [pc |-> "next", batch |-> B]
      /\ UNCHANGED <<status, disk, filler, phase, sem, proc, cancelling, restarts>>
      /\ phase = "up" /\ disp.pc = "idle"
  BY DEF DispatchQuery, files
<1>2. UNCHANGED Processed
  BY <1>1 DEF Processed, At
<1>3. B # {}
  <2>1. Having("PENDING") \in SUBSET Tasks /\ Having("PENDING") # {}
    BY DEF DispatchQuery, Having
  <2>2. First(Having("PENDING")) \in Having("PENDING")
    BY <2>1, FirstIsLeast
  <2>3. \A u \in Having("PENDING") : First(Having("PENDING")) <= u
    BY <2>1, FirstIsLeast
  <2>4. {u \in Having("PENDING") : u < First(Having("PENDING"))} = {}
    <3>1. \A u \in Having("PENDING") : u \in Nat
      BY <2>1, TasksAreIds
    <3> QED
      BY <2>2, <2>3, <3>1
  <2>5. Cardinality({u \in Having("PENDING") : u < First(Having("PENDING"))}) < BatchLimit
    BY <2>4, FS_EmptySet, LimitsAssumption
  <2> QED
    BY <2>2, <2>5
<1>4. B \subseteq Having("PENDING") /\ Having("PENDING") \subseteq Tasks
  BY DEF Having
<1> HIDE DEF B
<1>5. TypeOK'
  BY <1>1, <1>4 DEF LInv, TypeOK
<1>6. SlotsExact' /\ DownIsEmpty' /\ BatchShape'
  BY <1>1, <1>2, <1>3 DEF LInv, SlotsExact, DownIsEmpty, BatchShape
<1>7. BatchIsFresh' /\ RowsFit'
  BY <1>1, <1>2, <1>4 DEF LInv, BatchIsFresh, RowsFit, Having, Open, Final, At
<1> QED
  BY <1>2, <1>5, <1>6, <1>7 DEF LInv

LEMMA AcquireInv == LInv /\ DispatchAcquire => LInv' /\ UNCHANGED Processed
<1> SUFFICES ASSUME LInv, DispatchAcquire PROVE LInv' /\ UNCHANGED Processed
  OBVIOUS
<1>1. UNCHANGED <<status, disk, filler, phase, proc, cancelling, restarts>>
  BY DEF DispatchAcquire, files
<1>2. UNCHANGED Processed
  BY <1>1 DEF Processed, At
<1>3. /\ disp.pc = "next" /\ disp.batch \subseteq Tasks /\ disp.batch # {}
      /\ phase # "down" /\ sem \in 0..MaxConc
      /\ disp = [pc |-> "next", batch |-> disp.batch]
  BY DEF DispatchAcquire, LInv, TypeOK, BatchShape, DownIsEmpty
<1>4. CASE sem < MaxConc
  <2>1. sem' = sem + 1 /\ disp' = [pc |-> "mark", batch |-> disp.batch]
    BY <1>3, <1>4 DEF DispatchAcquire
  <2>2. TypeOK'
    BY <1>1, <1>3, <1>4, <2>1, LimitsAssumption DEF LInv, TypeOK
  <2>3. SlotsExact'
    <3>1. Cardinality(Processed) \in Nat
      BY ProcessedFinite, FS_CardinalityType
    <3> QED
      BY <1>2, <1>3, <2>1, <3>1 DEF LInv, SlotsExact
  <2>4. DownIsEmpty' /\ BatchShape' /\ BatchIsFresh' /\ RowsFit'
    BY <1>1, <1>2, <1>3, <2>1
    DEF LInv, DownIsEmpty, BatchShape, BatchIsFresh, RowsFit, At
  <2> QED
    BY <1>2, <2>2, <2>3, <2>4 DEF LInv
<1>5. CASE ~(sem < MaxConc)
  <2>1. sem' = sem /\ disp' = NoDisp
    BY <1>5 DEF DispatchAcquire
  <2>2. TypeOK'
    BY <1>1, <2>1 DEF LInv, TypeOK, NoDisp
  <2>3. SlotsExact'
    BY <1>2, <1>3, <2>1 DEF LInv, SlotsExact, NoDisp
  <2>4. DownIsEmpty' /\ BatchShape' /\ BatchIsFresh' /\ RowsFit'
    BY <1>1, <1>2, <1>3, <2>1
    DEF LInv, DownIsEmpty, BatchShape, BatchIsFresh, RowsFit, At, NoDisp
  <2> QED
    BY <1>2, <2>2, <2>3, <2>4 DEF LInv
<1> QED
  BY <1>4, <1>5

\* The loop hands its token and the oldest task of the batch to a goroutine.
LEMMA MarkInv ==
  ASSUME LInv, DispatchMark
  PROVE  /\ LInv'
         /\ First(disp.batch) \in Tasks \ Processed
         /\ Processed' = Processed \cup {First(disp.batch)}
         /\ sem = Cardinality(Processed) + 1
<1> DEFINE t == First(disp.batch)
           rest == disp.batch \ {t}
<1>1. disp.pc = "mark" /\ disp.batch \subseteq Tasks /\ disp.batch # {} /\ phase # "down"
  BY DEF DispatchMark, LInv, TypeOK, BatchShape, DownIsEmpty
<1>2. t \in disp.batch /\ t \in Tasks
  BY <1>1, FirstIsLeast
<1>3. t \notin Processed
  BY <1>2 DEF LInv, BatchIsFresh
<1> HIDE DEF t
<1>4. /\ status' = [status EXCEPT ![t] = "DISPATCHED"]
      /\ proc' = [proc EXCEPT ![t].pc = "load"]
      /\ disp' = IF rest = {} THEN [pc |-> "idle", batch |-> {}]
                 ELSE [pc |-> "next", batch |-> rest]
      /\ UNCHANGED <<disk, filler, phase, sem, cancelling, restarts>>
  BY DEF DispatchMark, SetStatus, Goto, AfterFirst, NoDisp, files, t
<1>5. /\ proc'[t] = [pc |-> "load", i |-> proc[t].i]
      /\ \A u \in Tasks \ {t} : proc'[u] = proc[u]
      /\ proc[t].i \in Nat \ {0}
  BY <1>2, <1>4 DEF LInv, TypeOK
<1>6. Processed' = Processed \cup {t}
  BY <1>2, <1>5 DEF Processed, At
<1>7. /\ sem = Cardinality(Processed) + 1
      /\ Cardinality(Processed') = Cardinality(Processed) + 1
  BY <1>1, <1>3, <1>6, ProcessedFinite, FS_AddElement DEF LInv, SlotsExact
<1>8. TypeOK'
  <2>1. proc' \in [Tasks -> [pc : ProcPcs, i : Nat \ {0}]]
    <3>1. proc' = [proc EXCEPT ![t] = [pc |-> "load", i |-> proc[t].i]]
      <4>1. proc' = [proc EXCEPT ![t] = [proc[t] EXCEPT !.pc = "load"]]
        BY <1>4
      <4>2. [proc[t] EXCEPT !.pc = "load"] = [pc |-> "load", i |-> proc[t].i]
        BY <1>2 DEF LInv, TypeOK
      <4> QED
        BY <4>1, <4>2
    <3> QED
      BY <1>5, <3>1 DEF LInv, TypeOK, ProcPcs
  <2> QED
    BY <1>1, <1>4, <2>1 DEF LInv, TypeOK, Statuses
<1>9. SlotsExact' /\ DownIsEmpty' /\ BatchShape'
  <2>1. disp'.pc \in {"idle", "next"} /\ (disp'.pc # "idle" => disp'.batch # {})
    BY <1>4
  <2>2. sem' = Cardinality(Processed') /\ sem' \in Nat
    BY <1>4, <1>7, LimitsAssumption DEF LInv, TypeOK
  <2> QED
    BY <1>1, <1>4, <2>1, <2>2 DEF SlotsExact, DownIsEmpty, BatchShape
<1>10. BatchIsFresh'
  BY <1>4, <1>6 DEF LInv, BatchIsFresh
<1>11. RowsFit'
  <2>1. status'[t] = "DISPATCHED" /\ \A u \in Tasks \ {t} : status'[u] = status[u]
    BY <1>2, <1>4 DEF LInv, TypeOK
  <2>2. \A u \in disp'.batch : u \in disp.batch /\ u # t
    BY <1>4
  <2>3. Processed \subseteq Tasks
    BY DEF Processed
  <2> QED
    BY <1>1, <1>3, <1>5, <1>6, <2>1, <2>2, <2>3 DEF LInv, RowsFit, At, Open, Final
<1> QED
  BY <1>2, <1>3, <1>6, <1>7, <1>8, <1>9, <1>10, <1>11 DEF LInv, t

\* The deferred release: the task's token and nothing else.
LEMMA EndInv ==
  ASSUME LInv, NEW t \in Tasks, End(t)
  PROVE  LInv' /\ t \in Processed /\ Processed' = Processed \ {t}
<1>1. t \in Processed
  BY DEF End, At, Processed
<1>2. /\ proc'[t] = NoProc /\ \A u \in Tasks \ {t} : proc'[u] = proc[u]
  BY DEF End, LInv, TypeOK
<1>3. Processed' = Processed \ {t}
  BY <1>2 DEF Processed, At, NoProc
<1>4. /\ Cardinality(Processed') = Cardinality(Processed) - 1
      /\ Cardinality(Processed) \in Nat /\ Cardinality(Processed') \in Nat
  <2>1. IsFiniteSet(Processed')
    BY <1>3, ProcessedFinite, FS_Subset
  <2> QED
    BY <1>1, <1>3, <2>1, ProcessedFinite, FS_RemoveElement, FS_CardinalityType
<1>5. SlotsExact'
  BY <1>4 DEF End, LInv, SlotsExact
<1>6. TypeOK'
  <2>1. sem' \in 0..MaxConc
    <3>1. sem \in 0..MaxConc /\ sem' = sem - 1 /\ MaxConc \in Nat
      BY LimitsAssumption DEF End, LInv, TypeOK
    <3>2. sem >= Cardinality(Processed)
      BY <1>4 DEF LInv, SlotsExact
    <3> QED
      BY <1>4, <3>1, <3>2
  <2> QED
    BY <2>1 DEF End, files, LInv, TypeOK, NoProc, ProcPcs
<1>7. DownIsEmpty' /\ BatchShape' /\ BatchIsFresh'
  BY <1>3 DEF End, LInv, DownIsEmpty, BatchShape, BatchIsFresh
<1>8. RowsFit'
  <2>1. \A u \in Processed' : u \in Tasks \ {t}
    BY <1>3 DEF Processed
  <2> QED
    BY <1>2, <1>3, <2>1 DEF End, LInv, RowsFit, At
<1> QED
  BY <1>1, <1>3, <1>5, <1>6, <1>7, <1>8 DEF LInv

LEMMA SubmitInv ==
  ASSUME LInv, NEW t \in Tasks, Submit(t)
  PROVE  LInv' /\ UNCHANGED Processed
<1>1. UNCHANGED Processed
  BY DEF Submit, Processed, At
<1>2. status[t] = "NONE" /\ status' = [status EXCEPT ![t] = "PENDING"]
  BY DEF Submit, Having, SetStatus
<1>3. t \notin disp.batch /\ t \notin Processed
  BY <1>2 DEF LInv, RowsFit, Open, Final
<1>4. TypeOK'
  BY <1>2 DEF Submit, files, LInv, TypeOK, Statuses
<1>5. SlotsExact' /\ DownIsEmpty' /\ BatchShape' /\ BatchIsFresh'
  BY <1>1 DEF Submit, LInv, SlotsExact, DownIsEmpty, BatchShape, BatchIsFresh
<1>6. RowsFit'
  <2>1. \A u \in Tasks \ {t} : status'[u] = status[u]
    BY <1>2 DEF LInv, TypeOK
  <2>2. disp.batch \subseteq Tasks /\ Processed \subseteq Tasks
    BY DEF LInv, TypeOK, Processed
  <2> QED
    BY <1>1, <1>3, <2>1, <2>2 DEF Submit, LInv, RowsFit, At
<1> QED
  BY <1>1, <1>4, <1>5, <1>6 DEF LInv

\* A cancel may write over a row in a batch and over a result.
LEMMA CancelInv ==
  ASSUME LInv, NEW t \in Tasks, CancelCheck(t) \/ CancelWrite(t)
  PROVE  LInv' /\ UNCHANGED Processed
<1>1. UNCHANGED <<disk, filler, phase, sem, disp, proc, restarts>>
  BY DEF CancelCheck, CancelWrite, files
<1>2. UNCHANGED Processed
  BY <1>1 DEF Processed, At
<1>3. TypeOK'
  BY <1>1 DEF CancelCheck, CancelWrite, SetStatus, LInv, TypeOK, Statuses
<1>4. SlotsExact' /\ DownIsEmpty' /\ BatchShape' /\ BatchIsFresh'
  BY <1>1, <1>2 DEF LInv, SlotsExact, DownIsEmpty, BatchShape, BatchIsFresh
<1>5. RowsFit'
  <2>1. \A u \in Tasks : status'[u] \in {status[u], "CANCELLED"}
    BY DEF CancelCheck, CancelWrite, SetStatus, LInv, TypeOK
  <2>2. disp.batch \subseteq Tasks /\ Processed \subseteq Tasks
    BY DEF LInv, TypeOK, Processed
  <2> QED
    BY <1>1, <1>2, <2>1, <2>2 DEF LInv, RowsFit, At, Open, Final
<1> QED
  BY <1>2, <1>3, <1>4, <1>5 DEF LInv

\* What a step does to the set of processed tasks.
LEMMA StepInv ==
  ASSUME LInv, [Next]_vars
  PROVE  /\ LInv'
         /\ \/ UNCHANGED Processed
            \/ Halt
            \/ DispatchMark
            \/ \E t \in Tasks : End(t)
<1>1. CASE Boot
  BY <1>1, BootInv
<1>2. CASE Halt
  BY <1>2, HaltInv
<1>3. CASE DispatchStep
  BY <1>3, QueryInv, AcquireInv, MarkInv DEF DispatchStep
<1>4. ASSUME NEW t \in Tasks, OwnStep(t) \/ NetworkStep(t)
      PROVE  LInv' /\ (UNCHANGED Processed \/ End(t))
  BY <1>4, ProcStepInv, EndInv DEF OwnStep
<1>5. ASSUME NEW t \in Tasks, Submit(t) \/ CancelCheck(t) \/ CancelWrite(t)
      PROVE  LInv' /\ UNCHANGED Processed
  BY <1>5, SubmitInv, CancelInv
<1>6. CASE UNCHANGED vars
  <2>1. UNCHANGED Processed
    BY <1>6 DEF vars, Processed, At
  <2> QED
    BY <1>6, <2>1
    DEF vars, files, LInv, TypeOK, SlotsExact, DownIsEmpty, BatchShape,
        BatchIsFresh, RowsFit, At
<1> QED
  BY <1>1, <1>2, <1>3, <1>4, <1>5, <1>6 DEF Next

(***************************************************************************)
(* LInv is inductive: it holds of every reachable state of the executor.   *)
(***************************************************************************)
THEOREM LocalInvariance == Spec => []LInv
<1> QED
  BY InitInv, StepInv, PTL DEF Spec

-----------------------------------------------------------------------------
(* What the invariant gives.                                               *)

(***************************************************************************)
(* Every variable of the executor keeps its type; in particular the        *)
(* semaphore never holds more than MaxConc tokens nor fewer than none,     *)
(* whatever is cancelled, fails or restarts.                               *)
(***************************************************************************)
THEOREM LocalTypeCorrect == Spec => []TypeOK
<1>1. LInv => TypeOK
  BY DEF LInv
<1> QED
  BY <1>1, LocalInvariance, PTL

(***************************************************************************)
(* What the dispatch loop still has of its batch is never being processed. *)
(***************************************************************************)
THEOREM BatchStaysFresh == Spec => []BatchIsFresh
<1>1. LInv => BatchIsFresh
  BY DEF LInv
<1> QED
  BY <1>1, LocalInvariance, PTL

LEMMA InitIsPool == Init => Pool!Init
BY DEF Init, Pool!Init, Processed, At, NoProc

\* A task takes a slot when the loop marks it and leaves it at its end.
LEMMA StepIsPool ==
  LInv /\ [Next]_vars => [UNCHANGED Processed \/ Pool!Next \/ phase' = "down"]_vars
<1> SUFFICES ASSUME LInv, [Next]_vars
             PROVE  UNCHANGED Processed \/ Pool!Next \/ phase' = "down"
  OBVIOUS
<1>1. CASE Halt
  BY <1>1 DEF Halt
<1>2. CASE DispatchMark
  <2> DEFINE t == First(disp.batch)
  <2>1. /\ t \in Tasks \ Processed /\ Processed' = Processed \cup {t}
        /\ sem = Cardinality(Processed) + 1
    BY <1>2, MarkInv
  <2> HIDE DEF t
  <2>2. Cardinality(Processed) < MaxConc
    <3>1. sem \in 0..MaxConc /\ MaxConc \in Nat
      BY LimitsAssumption DEF LInv, TypeOK
    <3>2. Cardinality(Processed) \in Nat
      BY ProcessedFinite, FS_CardinalityType
    <3> QED
      BY <2>1, <3>1, <3>2
  <2>3. Pool!Cardinality(Processed) < MaxConc
    BY <2>2 DEF Pool!Cardinality, Cardinality
  <2>4. Pool!Admit(t)
    BY <2>1, <2>3 DEF Pool!Admit
  <2> QED
    BY <2>1, <2>4 DEF Pool!Next
<1>3. ASSUME NEW t \in Tasks, End(t) PROVE Pool!Next
  <2>1. t \in Processed /\ Processed' = Processed \ {t}
    BY <1>3, EndInv
  <2> QED
    BY <2>1 DEF Pool!Next, Pool!Finish
<1> QED
  BY <1>1, <1>2, <1>3, StepInv

(***************************************************************************)
(* Between two ends of the process the executor implements SlotPool.       *)
(***************************************************************************)
THEOREM ExecutorImplementsPool == Spec => ExecutorIsPool
<1> QED
  BY InitIsPool, StepIsPool, LocalInvariance, PTL DEF Spec, ExecutorIsPool

\* A row is stranded by nothing that leaves the process up.
LEMMA StepStrands ==
  LInv /\ [Next]_vars =>
    [\A t \in Tasks : Stranded(t)' => Stranded(t) \/ phase' = "down"]_vars
<1> SUFFICES ASSUME LInv, [Next]_vars, NEW t \in Tasks,
                    Stranded(t)', ~Stranded(t)
             PROVE  phase' = "down"
  OBVIOUS
<1>1. status'[t] \in {"DISPATCHED", "RUNNING"} /\ t \notin Processed'
  BY DEF Stranded, Processed
<1>2. status[t] \in {"DISPATCHED", "RUNNING"} => t \in Processed
  BY DEF Stranded, Processed
<1>3. LInv'
  BY StepInv
<1>4. CASE t \in Processed
  <2>1. ASSUME NEW u \in Tasks, End(u) PROVE FALSE
    <3>1. u = t
      BY <1>1, <1>4, <2>1, EndInv
    <3>2. status[t] \in Final /\ UNCHANGED status
      BY <1>4, <2>1, <3>1 DEF End, LInv, RowsFit
    <3> QED
      BY <1>1, <3>2 DEF Final
  <2>2. ~DispatchMark
    BY <1>1, <1>4, MarkInv
  <2> QED
    BY <1>1, <1>4, <2>1, <2>2, StepInv DEF Halt
<1>5. CASE t \notin Processed
  <2>1. status[t] \notin {"DISPATCHED", "RUNNING"}
    BY <1>2, <1>5
  <2>2. ASSUME NEW u \in Tasks, NEW s, SetStatus(u, s), s \notin {"DISPATCHED", "RUNNING"}
        PROVE  FALSE
    BY <1>1, <2>1, <2>2 DEF SetStatus, LInv, TypeOK
  <2>3. ~UNCHANGED status
    BY <1>1, <2>1
  <2>4. ASSUME NEW u \in Tasks, Begin(u) PROVE FALSE
    <3>1. u \in Processed
      BY <2>4 DEF Begin, At, Processed
    <3>2. status' = [status EXCEPT ![u] = "RUNNING"]
      BY <2>4 DEF Begin, SetStatus
    <3> QED
      BY <1>1, <1>5, <2>1, <3>1, <3>2 DEF LInv, TypeOK
  <2>5. ~DispatchMark
    <3> SUFFICES ASSUME DispatchMark PROVE FALSE
      OBVIOUS
    <3>1. First(disp.batch) \in Tasks /\ Processed' = Processed \cup {First(disp.batch)}
      BY MarkInv
    <3>2. status' = [status EXCEPT ![First(disp.batch)] = "DISPATCHED"]
      BY DEF DispatchMark, SetStatus
    <3>3. First(disp.batch) # t
      BY <1>1, <3>1
    <3> QED
      BY <1>1, <2>1, <3>1, <3>2, <3>3 DEF LInv, TypeOK
  <2>6. ASSUME NEW u \in Tasks, Submit(u) \/ CancelWrite(u) PROVE FALSE
    BY <2>2, <2>6 DEF Submit, CancelWrite
  <2>7. ASSUME NEW u \in Tasks, WriteResult(u) PROVE FALSE
    BY <2>2, <2>7 DEF WriteResult, Result
  <2>8. ~Boot
    BY <1>1, <2>1 DEF Boot, LInv, TypeOK
  <2>9. ASSUME NEW u \in Tasks,
               \/ Load(u) \/ Resolve(u) \/ Execute(u) \/ End(u)
               \/ NetworkStep(u) \/ CancelCheck(u)
        PROVE  FALSE
    BY <2>3, <2>9
    DEF Load, Resolve, Execute, End, NetworkStep, FetchOpen, FetchFail, CopyDone,
        CopyFail, CancelCheck
  <2>10. ~DispatchQuery /\ ~DispatchAcquire /\ ~UNCHANGED vars
    BY <2>3 DEF DispatchQuery, DispatchAcquire, vars
  <2> QED
    BY <2>4, <2>5, <2>6, <2>7, <2>8, <2>9, <2>10
    DEF Next, DispatchStep, OwnStep, Halt
<1> QED
  BY <1>4, <1>5

(***************************************************************************)
(* Only the end of the process leaves a row without a goroutine.           *)
(***************************************************************************)
THEOREM NothingElseStrands == Spec => OnlyHaltStrands
<1> QED
  BY StepStrands, LocalInvariance, PTL DEF Spec, OnlyHaltStrands

\* A row with a result is in no batch, and its goroutine only ends.
LEMMA StepKeepsResult ==
  LInv /\ [Next]_vars =>
    [\A t \in Tasks :
       /\ status[t] \in {"SUCCESS", "FAILED"} => status'[t] \in {status[t], "CANCELLED"}
       /\ status[t] = "CANCELLED" /\ CancelHolds(t) => status'[t] = "CANCELLED"]_vars
<1> SUFFICES ASSUME LInv, [Next]_vars, NEW t \in Tasks,
                    \/ status[t] \in {"SUCCESS", "FAILED"}
                    \/ status[t] = "CANCELLED" /\ CancelHolds(t)
             PROVE  status'[t] \in {status[t], "CANCELLED"}
  OBVIOUS
<1>1. t \notin disp.batch
  BY DEF LInv, RowsFit, CancelHolds
<1>2. proc[t].pc \in {"none", "load", "end"}
  BY DEF LInv, RowsFit, Open, CancelHolds, Processed, At
<1>3. ASSUME NEW u \in Tasks, NEW s, SetStatus(u, s), u # t
      PROVE  status'[t] = status[t]
  BY <1>3 DEF SetStatus, LInv, TypeOK
<1>4. CASE UNCHANGED status
  BY <1>4
<1>5. CASE Boot
  BY <1>5 DEF Boot
<1>6. CASE DispatchMark
  <2>1. disp.batch \subseteq Tasks /\ disp.batch # {}
    BY <1>6 DEF DispatchMark, LInv, TypeOK, BatchShape
  <2>2. First(disp.batch) \in disp.batch /\ First(disp.batch) \in Tasks
    BY <2>1, FirstIsLeast
  <2> QED
    BY <1>1, <1>3, <1>6, <2>2 DEF DispatchMark
<1>7. ASSUME NEW u \in Tasks, Begin(u) \/ WriteResult(u)
      PROVE  status'[t] = status[t]
  <2>1. u # t
    BY <1>2, <1>7 DEF Begin, WriteResult, At
  <2> QED
    BY <1>3, <1>7, <2>1 DEF Begin, WriteResult
<1>8. ASSUME NEW u \in Tasks, Submit(u) PROVE status'[t] = status[t]
  BY <1>3, <1>8 DEF Submit, Having
<1>9. ASSUME NEW u \in Tasks, CancelWrite(u)
      PROVE  status'[t] \in {status[t], "CANCELLED"}
  BY <1>9 DEF CancelWrite, SetStatus, LInv, TypeOK
<1>10. ASSUME NEW u \in Tasks,
              \/ Load(u) \/ Resolve(u) \/ Execute(u) \/ End(u)
              \/ NetworkStep(u) \/ CancelCheck(u)
       PROVE  UNCHANGED status
  BY <1>10
  DEF Load, Resolve, Execute, End, NetworkStep, FetchOpen, FetchFail, CopyDone,
      CopyFail, CancelCheck
<1>11. CASE Halt \/ DispatchQuery \/ DispatchAcquire \/ UNCHANGED vars
  BY <1>4, <1>11 DEF Halt, DispatchQuery, DispatchAcquire, vars
<1> QED
  BY <1>4, <1>5, <1>6, <1>7, <1>8, <1>9, <1>10, <1>11
  DEF Next, DispatchStep, OwnStep

(***************************************************************************)
(* A local result is replaced by nothing but a racing cancel, and a cancel *)
(* by nothing but an older batch or a goroutine under way.                 *)
(***************************************************************************)
THEOREM ResultsStay == Spec => LocalResultStays
<1> QED
  BY StepKeepsResult, LocalInvariance, PTL DEF Spec, LocalResultStays

-----------------------------------------------------------------------------
(* The files a task does not share.                                        *)

\* A goroutine starts at its first input and fetches none beyond the last.
Positions ==
  \A t \in Tasks :
    /\ proc[t].pc \in {"none", "load", "begin"} => proc[t].i = 1
    /\ proc[t].pc \in {"fetch", "copy"} => proc[t].i <= Len(Inputs[t])

Own(t) == {f \in InputFiles(t) : \A u \in Tasks \ {t} : f \notin InputFiles(u)}

Passed(t, f) == \E j \in DOMAIN Inputs[t] : j < proc[t].i /\ Inputs[t][j] = f

\* Such a file is partial only while its task writes it, and complete as soon
\* as the task has gone on to the next.
OwnFile(t, f) ==
  /\ disk[f] = "partial" => At(t, "copy") /\ File(t) = f
  /\ (At(t, "fetch") /\ File(t) = f) => disk[f] = "absent"
  /\ (At(t, "copy") /\ File(t) = f) => disk[f] = "partial" /\ filler[f] = {t}
  /\ (proc[t].pc \in {"resolve", "fetch", "copy"} /\ Passed(t, f)) => disk[f] = "complete"
  /\ At(t, "execute") => disk[f] = "complete"

OwnFilesWhole == restarts = 0 => \A t \in Tasks : \A f \in Own(t) : OwnFile(t, f)

LEMMA GotoMoves ==
  ASSUME LInv, NEW t \in Tasks, NEW pc, Goto(t, pc)
  PROVE  /\ proc'[t].pc = pc /\ proc'[t].i = proc[t].i
         /\ \A u \in Tasks \ {t} : proc'[u] = proc[u]
BY DEF LInv, TypeOK, Goto

LEMMA NextInputMoves ==
  ASSUME LInv, NEW t \in Tasks, NextInput(t)
  PROVE  /\ proc'[t].pc = "resolve" /\ proc'[t].i = proc[t].i + 1
         /\ \A u \in Tasks \ {t} : proc'[u] = proc[u]
BY DEF LInv, TypeOK, NextInput

\* What the steps do to positions: a step moves one task only, or all stop.
LEMMA StepMoves ==
  ASSUME LInv, Next, NEW t \in Tasks
  PROVE  \/ proc'[t] = proc[t]
         \/ Halt
         \/ /\ At(t, "none") /\ proc'[t].pc = "load"
            /\ proc'[t].i = proc[t].i /\ UNCHANGED files
         \/ OwnStep(t) \/ NetworkStep(t)
<1>1. CASE Halt
  BY <1>1
<1>2. CASE DispatchMark
  <2>1. disp.batch \in SUBSET Tasks /\ disp.batch # {}
    BY <1>2 DEF DispatchMark, LInv, TypeOK, BatchShape
  <2>2. PICK u \in disp.batch : u = First(disp.batch)
    BY <2>1, FirstIsLeast
  <2>3. u \in Tasks /\ u \notin Processed
    BY <2>1 DEF LInv, BatchIsFresh
  <2>4. Goto(u, "load") /\ UNCHANGED files
    BY <1>2, <2>2 DEF DispatchMark
  <2> QED
    BY <2>3, <2>4, GotoMoves DEF Processed
<1>3. CASE \E u \in Tasks \ {t} : OwnStep(u) \/ NetworkStep(u)
  <2>1. PICK u \in Tasks \ {t} : OwnStep(u) \/ NetworkStep(u)
    BY <1>3
  <2>2. (\E pc \in ProcPcs : Goto(u, pc)) \/ NextInput(u) \/ proc' = [proc EXCEPT ![u] = NoProc]
    BY <2>1 DEF OwnStep, NetworkStep, Load, Begin, Resolve, Execute, WriteResult, End,
                FetchOpen, FetchFail, CopyDone, CopyFail, ProcPcs
  <2>3. proc' = [proc EXCEPT ![u] = NoProc] => proc'[t] = proc[t]
    BY DEF LInv, TypeOK
  <2> QED
    BY <2>2, <2>3, GotoMoves, NextInputMoves
<1>4. CASE OwnStep(t) \/ NetworkStep(t)
  BY <1>4
<1>5. CASE \/ Boot \/ DispatchQuery \/ DispatchAcquire
           \/ \E u \in Tasks : Submit(u) \/ CancelCheck(u) \/ CancelWrite(u)
  BY <1>5 DEF Boot, DispatchQuery, DispatchAcquire, Submit, CancelCheck, CancelWrite
<1> QED
  BY <1>1, <1>2, <1>3, <1>4, <1>5 DEF Next, DispatchStep

LEMMA StepPositions == LInv /\ Positions /\ [Next]_vars => Positions'
<1> SUFFICES ASSUME LInv, Positions, Next, NEW t \in Tasks
             PROVE  /\ proc'[t].pc \in {"none", "load", "begin"} => proc'[t].i = 1
                    /\ proc'[t].pc \in {"fetch", "copy"} => proc'[t].i <= Len(Inputs[t])
  BY DEF Positions, vars
<1>1. /\ proc[t].pc \in {"none", "load", "begin"} => proc[t].i = 1
      /\ proc[t].pc \in {"fetch", "copy"} => proc[t].i <= Len(Inputs[t])
  BY DEF Positions
<1>2. proc[t].i \in Nat /\ Len(Inputs[t]) \in Nat
  BY InputsAssumption DEF LInv, TypeOK
<1>3. CASE proc'[t] = proc[t] \/ Halt
  BY <1>1, <1>3 DEF NoProc, Halt
<1>4. CASE At(t, "none") /\ proc'[t].pc = "load" /\ proc'[t].i = proc[t].i
  BY <1>1, <1>4 DEF At
<1>5. CASE Load(t) \/ Begin(t) \/ Execute(t) \/ WriteResult(t)
  <2>1. PICK pc : Goto(t, pc) /\ (pc = "begin" => At(t, "load"))
                  /\ pc \notin {"none", "load", "fetch", "copy"}
    BY <1>5 DEF Load, Begin, Execute, WriteResult
  <2> QED
    BY <1>1, <2>1, GotoMoves DEF At
<1>6. CASE Resolve(t)
  <2>1. CASE Goto(t, "fetch") /\ ~(proc[t].i > Len(Inputs[t]))
    BY <1>2, <2>1, GotoMoves
  <2>2. CASE Goto(t, "execute") \/ Goto(t, "fail")
    BY <2>2, GotoMoves
  <2>3. CASE NextInput(t)
    BY <2>3, NextInputMoves
  <2> QED
    BY <1>6, <2>1, <2>2, <2>3 DEF Resolve
<1>7. CASE End(t)
  <2>1. proc'[t] = NoProc
    BY <1>7 DEF End, LInv, TypeOK
  <2> QED
    BY <2>1 DEF NoProc
<1>8. CASE NetworkStep(t)
  <2>1. CASE Goto(t, "copy") /\ At(t, "fetch")
    BY <1>1, <2>1, GotoMoves DEF At
  <2>2. CASE Goto(t, "fail")
    BY <2>2, GotoMoves
  <2>3. CASE NextInput(t)
    BY <2>3, NextInputMoves
  <2> QED
    BY <1>8, <2>1, <2>2, <2>3 DEF NetworkStep, FetchOpen, FetchFail, CopyDone, CopyFail
<1> QED
  BY <1>3, <1>4, <1>5, <1>6, <1>7, <1>8, StepMoves DEF OwnStep

\* Nobody else writes at the path of such a file.
LEMMA OthersLeaveOwn ==
  ASSUME LInv, Positions, Next, NEW t \in Tasks, NEW f \in Own(t),
         restarts' = 0, ~NetworkStep(t)
  PROVE  disk'[f] = disk[f] /\ filler'[f] = filler[f]
<1>1. ~Halt
  BY DEF Halt, LInv, TypeOK
<1>2. ASSUME NEW u \in Tasks, NetworkStep(u) PROVE disk'[f] = disk[f] /\ filler'[f] = filler[f]
  <2>1. u # t
    BY <1>2
  <2>2. CASE FetchFail(u)
    BY <2>2 DEF FetchFail, files
  <2>3. CASE FetchOpen(u) \/ CopyDone(u) \/ CopyFail(u)
    <3>1. proc[u].i \in DOMAIN Inputs[u]
      BY <2>3, InputsAssumption DEF FetchOpen, CopyDone, CopyFail, At, Positions, LInv, TypeOK
    <3>2. PICK g \in Files : g = File(u)
      BY <3>1, InputsAssumption DEF File
    <3>3. g \in InputFiles(u)
      BY <3>1, <3>2 DEF InputFiles, File
    <3>4. f # g
      BY <2>1, <3>3 DEF Own
    <3>5. \/ \E x : disk' = [disk EXCEPT ![g] = x]
          \/ disk' = disk
      BY <2>3, <3>2 DEF FetchOpen, CopyDone, CopyFail
    <3>6. \E x : filler' = [filler EXCEPT ![g] = x]
      BY <2>3, <3>2 DEF FetchOpen, CopyDone, CopyFail
    <3>7. f \in Files
      BY InputsAssumption DEF Own, InputFiles
    <3> QED
      BY <3>4, <3>5, <3>6, <3>7 DEF LInv, TypeOK
  <2> QED
    BY <1>2, <2>2, <2>3 DEF NetworkStep
<1>3. CASE UNCHANGED files
  BY <1>3 DEF files
<1>4. (\E u \in Tasks : NetworkStep(u)) \/ UNCHANGED files
  BY <1>1 DEF Next, DispatchStep, OwnStep, Boot, DispatchQuery, DispatchAcquire, DispatchMark,
              Load, Begin, Resolve, Execute, WriteResult, End, Submit, CancelCheck, CancelWrite
<1> QED
  BY <1>2, <1>3, <1>4

\* Its own task does one of three things to it: creates it, completes it and
\* goes on, or removes it and fails.
LEMMA FetchOwn ==
  ASSUME LInv, Positions, NEW t \in Tasks, NEW f \in Own(t), OwnFile(t, f),
         NetworkStep(t)
  PROVE  OwnFile(t, f)'
<1>1. proc[t].pc \in {"fetch", "copy"}
  BY DEF NetworkStep, FetchOpen, FetchFail, CopyDone, CopyFail, At
<1>2. proc[t].i \in DOMAIN Inputs[t] /\ proc[t].i \in Nat
  BY <1>1, InputsAssumption DEF Positions, LInv, TypeOK
<1>3. PICK g \in Files : g = File(t)
  BY <1>2, InputsAssumption DEF File
<1>4. f \in Files
  BY InputsAssumption DEF Own, InputFiles
<1>5. CASE FetchFail(t)
  <2>1. proc'[t].pc = "fail" /\ disk' = disk
    BY <1>5, GotoMoves DEF FetchFail, files
  <2>2. disk[f] # "partial"
    BY <1>5 DEF FetchFail, OwnFile, At
  <2> QED
    BY <2>1, <2>2 DEF OwnFile, At
<1>6. CASE CopyFail(t)
  <2>1. proc'[t].pc = "fail" /\ disk' = [disk EXCEPT ![g] = "absent"]
    BY <1>3, <1>6, GotoMoves DEF CopyFail
  <2>2. disk'[f] # "partial"
    BY <1>3, <1>4, <2>1 DEF OwnFile, LInv, TypeOK
  <2> QED
    BY <2>1, <2>2 DEF OwnFile, At
<1>7. CASE FetchOpen(t)
  <2>1. /\ proc'[t].pc = "copy" /\ proc'[t].i = proc[t].i
        /\ disk' = [disk EXCEPT ![g] = "partial"]
        /\ filler' = [filler EXCEPT ![g] = {t}]
    BY <1>3, <1>7, GotoMoves DEF FetchOpen
  <2>2. File(t)' = g
    BY <1>3, <2>1 DEF File
  <2>3. Passed(t, f)' = Passed(t, f)
    BY <2>1 DEF Passed
  <2>4. At(t, "fetch")
    BY <1>7 DEF FetchOpen
  <2>5. CASE f = g
    <3>1. disk[f] = "absent" /\ ~Passed(t, f)
      BY <1>3, <2>4, <2>5 DEF OwnFile, At
    <3>2. disk'[f] = "partial" /\ filler'[f] = {t}
      BY <1>4, <2>1, <2>5 DEF LInv, TypeOK
    <3> QED
      BY <2>1, <2>2, <2>3, <2>5, <3>1, <3>2 DEF OwnFile, At
  <2>6. CASE f # g
    <3>1. disk'[f] = disk[f] /\ disk[f] # "partial"
      BY <1>4, <2>1, <2>4, <2>6 DEF OwnFile, LInv, TypeOK, At
    <3> QED
      BY <2>1, <2>2, <2>3, <2>4, <2>6, <3>1 DEF OwnFile, At
  <2> QED
    BY <2>5, <2>6
<1>8. CASE CopyDone(t)
  <2>1. /\ proc'[t].pc = "resolve" /\ proc'[t].i = proc[t].i + 1
        /\ disk' = IF t \in filler[g] THEN [disk EXCEPT ![g] = "complete"] ELSE disk
    BY <1>3, <1>8, NextInputMoves DEF CopyDone
  <2>2. At(t, "copy")
    BY <1>8 DEF CopyDone
  <2>3. Passed(t, f)' => Passed(t, f) \/ f = g
    <3> SUFFICES ASSUME NEW j \in DOMAIN Inputs[t], j < proc[t].i + 1, Inputs[t][j] = f
                 PROVE  Passed(t, f) \/ f = g
      BY <2>1 DEF Passed
    <3>1. j \in Nat
      BY InputsAssumption
    <3>2. j < proc[t].i \/ j = proc[t].i
      BY <1>2, <3>1
    <3> QED
      BY <1>3, <3>2 DEF Passed, File
  <2>4. CASE f = g
    <3>1. disk'[f] = "complete"
      BY <1>3, <1>4, <2>1, <2>2, <2>4 DEF OwnFile, LInv, TypeOK
    <3> QED
      BY <2>1, <3>1 DEF OwnFile, At
  <2>5. CASE f # g
    <3>1. disk'[f] = disk[f]
      BY <1>4, <2>1, <2>5 DEF LInv, TypeOK
    <3>2. disk[f] # "partial"
      BY <1>3, <2>5 DEF OwnFile
    <3> QED
      BY <2>1, <2>2, <2>3, <2>5, <3>1, <3>2 DEF OwnFile, At
  <2> QED
    BY <2>4, <2>5
<1> QED
  BY <1>5, <1>6, <1>7, <1>8 DEF NetworkStep

\* The other steps of the task leave the file, and go on to the app only past
\* the last input.
LEMMA ResolveOwn ==
  ASSUME LInv, Positions, NEW t \in Tasks, NEW f \in Own(t), OwnFile(t, f),
         OwnStep(t), disk'[f] = disk[f], filler'[f] = filler[f]
  PROVE  OwnFile(t, f)'
<1>1. ~At(t, "copy") /\ ~At(t, "fetch")
  BY DEF OwnStep, Load, Begin, Resolve, Execute, WriteResult, End, At
<1>2. disk'[f] # "partial"
  BY <1>1 DEF OwnFile
<1>3. CASE Load(t) \/ Execute(t) \/ WriteResult(t)
  <2>1. PICK pc : Goto(t, pc) /\ pc \notin {"resolve", "fetch", "copy", "execute"}
    BY <1>3 DEF Load, Execute, WriteResult
  <2> QED
    BY <1>2, <2>1, GotoMoves DEF OwnFile, At
<1>4. CASE End(t)
  <2>1. proc'[t] = NoProc
    BY <1>4 DEF End, LInv, TypeOK
  <2> QED
    BY <1>2, <2>1 DEF OwnFile, At, NoProc
<1>5. CASE Begin(t)
  <2>1. proc[t].i = 1
    BY <1>5 DEF Begin, At, Positions
  <2>2. proc'[t].pc \in {"resolve", "fail"} /\ proc'[t].i = 1
    BY <1>5, <2>1, GotoMoves DEF Begin
  <2>3. ~Passed(t, f)'
    BY <2>2, InputsAssumption DEF Passed
  <2> QED
    BY <1>2, <2>2, <2>3 DEF OwnFile, At
<1>6. CASE Resolve(t)
  <2>1. At(t, "resolve")
    BY <1>6 DEF Resolve
  <2>2. proc[t].i \in Nat \ {0} /\ Inputs[t] \in Seq(Files)
    BY InputsAssumption DEF LInv, TypeOK
  <2>3. CASE proc[t].i > Len(Inputs[t])
    <3>1. Passed(t, f)
      <4>1. PICK j \in DOMAIN Inputs[t] : Inputs[t][j] = f
        BY DEF Own, InputFiles
      <4>2. j \in 1..Len(Inputs[t]) /\ Len(Inputs[t]) \in Nat
        BY <2>2, <4>1
      <4>3. j < proc[t].i
        BY <2>2, <2>3, <4>2
      <4> QED
        BY <4>1, <4>3 DEF Passed
    <3>2. disk[f] = "complete"
      BY <2>1, <3>1 DEF OwnFile, At
    <3>3. proc'[t].pc \in {"execute", "fail"}
      BY <1>6, <2>3, GotoMoves DEF Resolve
    <3> QED
      BY <3>2, <3>3 DEF OwnFile, At
  <2>4. CASE ~(proc[t].i > Len(Inputs[t])) /\ disk[File(t)] # "absent"
    <3>1. proc'[t].pc = "resolve" /\ proc'[t].i = proc[t].i + 1
      BY <1>6, <2>4, NextInputMoves DEF Resolve
    <3>2. Passed(t, f)' => disk[f] = "complete"
      <4> SUFFICES ASSUME NEW j \in DOMAIN Inputs[t], j < proc[t].i + 1, Inputs[t][j] = f
                   PROVE  disk[f] = "complete"
        BY <3>1 DEF Passed
      <4>1. j \in Nat
        BY <2>2
      <4>2. CASE j < proc[t].i
        BY <2>1, <4>2 DEF Passed, OwnFile, At
      <4>3. CASE j = proc[t].i
        <5>1. disk[f] # "absent" /\ disk[f] # "partial" /\ f \in Files
          BY <1>2, <2>2, <2>4, <4>3 DEF File
        <5> QED
          BY <5>1 DEF LInv, TypeOK
      <4> QED
        BY <2>2, <4>1, <4>2, <4>3
    <3> QED
      BY <1>2, <3>1, <3>2 DEF OwnFile, At
  <2>5. CASE ~(proc[t].i > Len(Inputs[t])) /\ disk[File(t)] = "absent"
    <3>1. proc'[t].pc \in {"fetch", "fail"} /\ proc'[t].i = proc[t].i
      BY <1>6, <2>5, GotoMoves DEF Resolve
    <3>2. Passed(t, f)' = Passed(t, f) /\ File(t)' = File(t)
      BY <3>1 DEF Passed, File
    <3> QED
      BY <1>2, <2>1, <2>5, <3>1, <3>2 DEF OwnFile, At
  <2> QED
    BY <2>3, <2>4, <2>5
<1> QED
  BY <1>3, <1>4, <1>5, <1>6 DEF OwnStep

LEMMA StepOwn ==
  LInv /\ Positions /\ OwnFilesWhole /\ [Next]_vars => OwnFilesWhole'
<1> SUFFICES ASSUME LInv, Positions, OwnFilesWhole, Next, restarts' = 0,
                    NEW t \in Tasks, NEW f \in Own(t)
             PROVE  OwnFile(t, f)'
  <2>1. UNCHANGED vars => (OwnFilesWhole => OwnFilesWhole')
    BY DEF vars, OwnFilesWhole, OwnFile, Passed, File, At
  <2> QED
    BY <2>1 DEF OwnFilesWhole, Own, InputFiles
<1>1. ~Halt
  BY DEF Halt, LInv, TypeOK
<1>2. restarts = 0
  BY <1>1 
  DEF Next, DispatchStep, OwnStep, NetworkStep, Boot, DispatchQuery, DispatchAcquire,
      DispatchMark, Load, Begin, Resolve, Execute, WriteResult, End, FetchOpen, FetchFail,
      CopyDone, CopyFail, Submit, CancelCheck, CancelWrite
<1>3. OwnFile(t, f)
  BY <1>2 DEF OwnFilesWhole
<1>4. CASE NetworkStep(t)
  BY <1>3, <1>4, FetchOwn
<1>5. CASE ~NetworkStep(t)
  <2>1. disk'[f] = disk[f] /\ filler'[f] = filler[f]
    BY <1>5, OthersLeaveOwn
  <2>2. CASE OwnStep(t)
    BY <1>3, <2>1, <2>2, ResolveOwn
  <2>3. CASE proc'[t] = proc[t]
    BY <1>3, <2>1, <2>3 DEF OwnFile, Passed, File, At
  <2>4. CASE At(t, "none") /\ proc'[t].pc = "load"
    BY <1>3, <2>1, <2>4 DEF OwnFile, At
  <2> QED
    BY <1>1, <1>5, <2>2, <2>3, <2>4, StepMoves
<1> QED
  BY <1>4, <1>5

LEMMA InitOwn == Init => Positions /\ OwnFilesWhole
BY InputsAssumption
DEF Init, Positions, OwnFilesWhole, OwnFile, Own, InputFiles, NoProc, At

(***************************************************************************)
(* Until the process first ends, the app of a task never runs over a file  *)
(* of its own that is not wholly there: every error of a download is       *)
(* noticed, and an incomplete file is not taken for a complete one.        *)
(***************************************************************************)
THEOREM OwnInputsComplete == Spec => []OwnInputsWhole
<1>1. LInv /\ Positions /\ OwnFilesWhole /\ [Next]_vars =>
        LInv' /\ Positions' /\ OwnFilesWhole'
  BY StepInv, StepPositions, StepOwn
<1>2. OwnFilesWhole => OwnInputsWhole
  BY DEF OwnFilesWhole, OwnInputsWhole, Own, OwnFile
<1> QED
  BY <1>1, <1>2, InitInv, InitOwn, PTL DEF Spec

=============================================================================
