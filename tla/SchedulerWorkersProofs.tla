----------------------- MODULE SchedulerWorkersProofs -----------------------
(***************************************************************************)
(* Proofs about the workers of Scheduler, on top of the custody of tasks   *)
(* of SchedulerProofs: those on dispatch's list are ready for a task, each *)
(* is a SlotPool until the process ends, and RUNNING rows are polled by    *)
(* one with the key of their job.  Fleet is the invariant of the map of    *)
(* workers and of its lock.  The rows need three more: Names (a row names  *)
(* the key of the worker that has its task), Known (no name is older than  *)
(* its key) and Polling, which counts the rows that lost their name.       *)
(***************************************************************************)
EXTENDS SchedulerProofs

\* Dispatch holds the read lock, a removal or a stop the write lock.
Locks == ReadLocked => ~WriteLocked

\* DispatchTargetsReady between the send and the mark as well.
Targets ==
  /\ disp.pc = "send" => \A w \in disp.avail : Available(w)
  /\ disp.pc = "mark" => \A w \in disp.avail \ {disp.w} : Available(w)
  /\ phase = "serving" /\ ReadLocked => disp.avail \subseteq live \ quit

\* A new worker is not one that was stopped before.
Newest == \A w \in live \cup quit : w[2] <= gen[KeyOf(w)]

\* Until the process stops, the map holds no stopped worker but the one that
\* is being removed.
OnlyDrainStopped ==
  phase = "serving" => \A w \in live \cap quit : admin.pc = "drain" /\ KeyOf(w) = admin.key

Fleet == Locks /\ Targets /\ Newest /\ OnlyDrainStopped

Inv == Typed /\ Quiet /\ Held

-----------------------------------------------------------------------------
(* The load of a worker.                                                   *)

LEMMA LoadFacts ==
  ASSUME Typed, NEW w \in Workers
  PROVE  /\ Running(w) \subseteq Tasks /\ IsFiniteSet(Running(w))
         /\ Cardinality(Running(w)) \in Nat /\ Len(chan[w]) \in Nat
         /\ MaxConc[KeyOf(w)] \in Nat
<1>1. Running(w) \subseteq Tasks
  BY DEF Running
<1>2. IsFiniteSet(Running(w)) /\ Cardinality(Running(w)) \in Nat
  BY <1>1, TasksAreIds, FS_Subset, FS_CardinalityType
<1>3. KeyOf(w) \in Keys
  BY DEF Workers, KeyOf
<1> QED
  BY <1>1, <1>2, <1>3, ChanFacts, MaxConcAssumption

LEMMA SameLoad ==
  ASSUME UNCHANGED proc, NEW w, chan'[w] = chan[w]
  PROVE  Running(w)' = Running(w) /\ Available(w)' = Available(w)
<1>1. Running(w)' = Running(w)
  BY DEF Running
<1>2. Load(w)' = Load(w)
  BY <1>1 DEF Load
<1> QED
  BY <1>1, <1>2 DEF Available

\* The goroutine of t only ever gives its slot back.
LEMMA TaskRunning ==
  ASSUME Typed, NEW t \in Tasks, TaskStep(t), NEW w \in Workers
  PROVE  \/ Running(w)' = Running(w)
         \/ t \in Running(w) /\ Running(w)' = Running(w) \ {t}
<1>1. PICK r \in ProcRecs, s \in Statuses : Moves(t, r, s)
  BY TaskMoves
<1>2. /\ proc'[t] = r /\ \A u \in Tasks \ {t} : proc'[u] = proc[u]
      /\ proc[t].pc # "none"
      /\ r.pc # "none" => r.w = proc[t].w
  BY <1>1, MovesHold DEF Moves
<1>3. CASE r.pc # "none"
  <2>1. \A u \in Tasks : proc'[u].w = proc[u].w /\ (proc'[u].pc # "none" <=> proc[u].pc # "none")
    BY <1>2, <1>3
  <2> QED
    BY <2>1 DEF Running
<1>4. CASE r.pc = "none"
  BY <1>2, <1>4 DEF Running
<1> QED
  BY <1>3, <1>4

LEMMA TaskLoad ==
  ASSUME Typed, NEW t \in Tasks, TaskStep(t), NEW w \in Workers, Available(w)
  PROVE  Available(w)'
<1>1. PICK r \in ProcRecs, s \in Statuses : Moves(t, r, s)
  BY TaskMoves
<1>2. Running(w)' \in SUBSET Running(w)
  BY TaskRunning
<1>3. Cardinality(Running(w)') <= Cardinality(Running(w)) /\ Cardinality(Running(w)') \in Nat
  <2>1. IsFiniteSet(Running(w)') /\ Cardinality(Running(w)') <= Cardinality(Running(w))
    BY <1>2, LoadFacts, FS_Subset
  <2> QED
    BY <2>1, FS_CardinalityType
<1>4. UNCHANGED chan
  BY <1>1 DEF Moves, pool
<1> QED
  BY <1>3, <1>4, LoadFacts DEF Available, Load

\* A task that is started was counted already.
LEMMA StartRunning ==
  ASSUME Typed, Held, NEW v \in Workers, RunStart(v)
  PROVE  LET t == Head(chan[v])
         IN  /\ t \in Tasks /\ t \in InChan(v)
             /\ Running(v)' = Running(v) \cup {t}
             /\ \A w \in Workers \ {v} : Running(w)' = Running(w)
             /\ \A w \in Workers : t \notin Running(w)
<1>1. PICK t : t = Head(chan[v])
  OBVIOUS
<1>2. t \in InChan(v) /\ t \in Tasks /\ t \in Sent
  BY <1>1, ChanTail, ChanFacts DEF RunStart, Held, Custody
<1>3. t \notin Processed
  BY <1>2 DEF Held, Custody
<1>4. PICK r : proc' = [proc EXCEPT ![t] = r] /\ r = [NoProc EXCEPT !.pc = "load", !.w = v]
  BY <1>1 DEF RunStart, SetProc
<1>5. r.pc = "load" /\ r.w = v
  BY <1>4 DEF NoProc
<1>6. proc'[t] = r /\ \A u \in Tasks \ {t} : proc'[u] = proc[u]
  BY <1>2, <1>4 DEF Typed, TypeOK
<1>7. /\ Running(v)' = Running(v) \cup {t}
      /\ \A w \in Workers \ {v} : Running(w)' = Running(w)
      /\ \A w \in Workers : t \notin Running(w)
  BY <1>2, <1>3, <1>5, <1>6 DEF Running, Processed
<1> QED
  BY <1>1, <1>2, <1>7

LEMMA StartLoad ==
  ASSUME Typed, Held, NEW v \in Workers, RunStart(v), NEW w \in Workers, Available(w)
  PROVE  Available(w)'
<1>1. PICK t : t = Head(chan[v])
  OBVIOUS
<1>2. /\ Len(chan'[v]) = Len(chan[v]) - 1
      /\ \A u \in Workers \ {v} : chan'[u] = chan[u]
  BY ChanTail DEF RunStart, Held, Custody
<1>3. /\ Running(v)' = Running(v) \cup {t} /\ t \notin Running(v)
      /\ \A u \in Workers \ {v} : Running(u)' = Running(u)
  BY <1>1, StartRunning
<1>4. CASE w = v
  <2>1. Cardinality(Running(w)') = Cardinality(Running(w)) + 1
    BY <1>3, <1>4, LoadFacts, FS_AddElement
  <2> QED
    BY <1>2, <1>4, <2>1, LoadFacts DEF Available, Load
<1>5. CASE w # v
  <2>1. Load(w)' = Load(w)
    BY <1>2, <1>3, <1>5 DEF Load
  <2> QED
    BY <2>1 DEF Available
<1> QED
  BY <1>4, <1>5

-----------------------------------------------------------------------------
(* The fleet.                                                              *)

LEMMA InitFleet == Init => Fleet
BY DEF Init, Fleet, Locks, ReadLocked, NoDisp, Targets, Newest, OnlyDrainStopped

\* Steps that neither dispatch nor touch a worker's place in the fleet.
LEMMA StillFleet ==
  ASSUME Fleet, UNCHANGED <<phase, gen, live, quit, disp, admin>>,
         \A w \in disp.avail : Available(w) => Available(w)'
  PROVE  Fleet'
<1>1. Locks' /\ Newest' /\ OnlyDrainStopped'
  BY DEF Fleet, Locks, ReadLocked, WriteLocked, Newest, OnlyDrainStopped
<1>2. Targets'
  BY DEF Fleet, Targets, ReadLocked
<1> QED
  BY <1>1, <1>2 DEF Fleet

LEMMA TaskFleet == ASSUME Inv, Fleet, NEW t \in Tasks, TaskStep(t) PROVE Fleet'
<1>1. PICK r \in ProcRecs, s \in Statuses : Moves(t, r, s)
  BY TaskMoves DEF Inv
<1>2. UNCHANGED <<phase, gen, live, quit, disp, admin>>
  BY <1>1 DEF Moves, pool
<1>3. disp.avail \subseteq Workers
  BY DEF Inv, Typed, TypeOK
<1> QED
  BY <1>2, <1>3, StillFleet, TaskLoad DEF Inv

LEMMA RunFleet ==
  ASSUME Inv, Fleet, NEW w \in Workers, RunStart(w) \/ RunExit(w) PROVE Fleet'
<1>1. disp.avail \subseteq Workers
  BY DEF Inv, Typed, TypeOK
<1>2. CASE RunStart(w)
  BY <1>1, <1>2, StillFleet, StartLoad DEF Inv, RunStart
<1>3. CASE RunExit(w)
  BY <1>3, StillFleet, SameLoad DEF RunExit
<1> QED
  BY <1>2, <1>3

\* Where dispatch is idle only the map and the lock of a removal matter.
LEMMA IdleFleet ==
  ASSUME disp'.pc \in {"idle", "list"}, Newest', OnlyDrainStopped' PROVE Fleet'
BY DEF Fleet, Locks, ReadLocked, Targets

LEMMA BootFleet == ASSUME Inv, Fleet, BootStep PROVE Fleet'
<1>1. disp'.pc = "idle" /\ quit' = {}
  <2>1. disp = NoDisp /\ quit = {} /\ UNCHANGED <<disp, quit>>
    BY DEF BootStep, Boot, ResumeNext, StartDispatch, Inv, Quiet, pool
  <2> QED
    BY <2>1, NoDispRec
<1>2. OnlyDrainStopped'
  BY <1>1 DEF OnlyDrainStopped
<1>3. Newest'
  <2>1. CASE Boot
    <3>1. \A w \in live' : w[2] = 0 /\ KeyOf(w) \in Keys
      BY <2>1 DEF Boot, KeyOf
    <3>2. \A k \in Keys : 0 <= gen'[k]
      BY <2>1, BoundsAssumption DEF Boot, Inv, Typed, TypeOK
    <3> QED
      BY <1>1, <3>1, <3>2 DEF Newest
  <2>2. CASE ResumeNext \/ StartDispatch
    BY <2>2 DEF ResumeNext, StartDispatch, pool, Fleet, Newest
  <2> QED
    BY <2>1, <2>2 DEF BootStep
<1> QED
  BY <1>1, <1>2, <1>3, IdleFleet

LEMMA DispatchFleet == ASSUME Inv, Fleet, DispatchStep PROVE Fleet'
<1>1. disp \in DispRecs /\ UNCHANGED <<phase, gen, live, quit, admin, proc>>
  BY DEF DispatchStep, DispatchQuery, DispatchList, DispatchSend, DispatchMark, pool, Inv, Typed,
     TypeOK, DispRecs
<1>2. Newest' /\ OnlyDrainStopped'
  BY <1>1 DEF Fleet, Newest, OnlyDrainStopped
<1>3. CASE DispatchQuery
  BY <1>2, <1>3, IdleFleet DEF DispatchQuery, NoDisp
<1>4. CASE DispatchList
  <2>1. PICK av : av = {w \in live : Available(w)}
    OBVIOUS
  <2>2. disp' = NoDisp \/ disp' = [disp EXCEPT !.pc = "send", !.avail = av]
    BY <1>4, <2>1 DEF DispatchList
  <2>3. CASE disp' = NoDisp
    BY <1>2, <2>3, NoDispRec, IdleFleet
  <2>4. CASE disp' = [disp EXCEPT !.pc = "send", !.avail = av]
    <3>1. disp'.pc = "send" /\ disp'.avail = av
      BY <1>1, <2>4 DEF DispRecs
    <3>2. UNCHANGED <<chan, proc>>
      BY <1>4 DEF DispatchList, pool
    <3>3. \A w \in av : Available(w)'
      BY <2>1, <3>2, SameLoad
    <3>4. ~WriteLocked /\ Locks'
      BY <1>1, <1>4 DEF DispatchList, Locks, WriteLocked
    <3>5. phase = "serving" => av \subseteq live \ quit
      BY <2>1, <3>4 DEF Fleet, OnlyDrainStopped, WriteLocked
    <3>6. Targets'
      BY <1>1, <3>1, <3>3, <3>5 DEF Targets
    <3> QED
      BY <1>2, <3>4, <3>6 DEF Fleet
  <2> QED
    BY <2>2, <2>3, <2>4
\* Of the workers still to choose from, all but the last target are ready.
<1>5. ASSUME ReadLocked, NEW w, disp' = Advance(w), UNCHANGED chan,
             \A v \in disp.avail \ {w} : Available(v)
      PROVE  Fleet'
  <2>1. Locks'
    BY <1>1, <1>5 DEF Fleet, Locks, WriteLocked
  <2>2. /\ disp'.pc \in {"idle", "send"} /\ disp'.avail \subseteq disp.avail
        /\ w \in disp'.avail => Available(w)
    BY <1>1, <1>5, AdvanceShape
  <2>3. \A v \in disp'.avail : Available(v)'
    BY <1>1, <1>5, <2>2, SameLoad
  <2>4. Targets'
    BY <1>1, <1>5, <2>2, <2>3 DEF Fleet, Targets
  <2> QED
    BY <1>2, <2>1, <2>4 DEF Fleet
<1>6. ASSUME NEW w \in Workers, DispatchSend(w) PROVE Fleet'
  <2>1. ReadLocked /\ \A v \in disp.avail : Available(v)
    BY <1>6 DEF DispatchSend, ReadLocked, Fleet, Targets
  <2>2. CASE disp' = Advance(w) /\ UNCHANGED chan
    BY <1>5, <2>1, <2>2
  <2>3. CASE /\ chan' = [chan EXCEPT ![w] = Append(@, First(disp.batch))]
             /\ disp' = [disp EXCEPT !.pc = "mark", !.w = w]
    <3>1. disp'.pc = "mark" /\ disp'.w = w /\ disp'.avail = disp.avail
      BY <1>1, <2>3 DEF DispRecs
    <3>2. \A v \in Workers \ {w} : chan'[v] = chan[v]
      BY <2>3 DEF Inv, Typed, TypeOK
    <3>3. disp.avail \subseteq Workers
      BY <1>1 DEF DispRecs
    <3>4. \A v \in disp.avail \ {w} : Available(v)'
      BY <1>1, <2>1, <3>2, <3>3, SameLoad
    <3>5. Targets'
      BY <1>1, <2>1, <3>1, <3>4 DEF Fleet, Targets
    <3>6. Locks'
      BY <1>1, <2>1 DEF Fleet, Locks, WriteLocked
    <3> QED
      BY <1>2, <3>5, <3>6 DEF Fleet
  <2> QED
    BY <1>6, <2>2, <2>3 DEF DispatchSend
<1>7. CASE DispatchMark
  <2>1. ReadLocked /\ disp' = Advance(disp.w) /\ UNCHANGED chan
    BY <1>7 DEF DispatchMark, ReadLocked, pool
  <2>2. \A v \in disp.avail \ {disp.w} : Available(v)
    BY <1>7 DEF DispatchMark, Fleet, Targets
  <2> QED
    BY <1>5, <2>1, <2>2
<1> QED
  BY <1>3, <1>4, <1>6, <1>7 DEF DispatchStep

\* The steps of a key request and of a stop that take the write lock find
\* dispatch without the read lock.
LEMMA WriterFleet ==
  ASSUME Fleet, ~ReadLocked, UNCHANGED disp, Newest', OnlyDrainStopped' PROVE Fleet'
BY DEF Fleet, Locks, ReadLocked, Targets

LEMMA KeyFleet == ASSUME Inv, Fleet, KeyStep PROVE Fleet'
<1>1. admin \in AdminRecs
  BY DEF Inv, Typed, TypeOK, AdminRecs
<1>2. CASE RemoveWorkerLock
  <2>1. PICK ws : ws = WorkersOf(admin.key) /\ ws \subseteq live
    BY DEF WorkersOf
  <2>2. quit' = quit \/ (quit' = quit \cup ws /\ admin' = [admin EXCEPT !.pc = "drain"])
    BY <1>2, <2>1 DEF RemoveWorkerLock
  <2>3. UNCHANGED <<phase, gen, live, disp>> /\ ~ReadLocked /\ admin.pc = "lock"
    BY <1>2 DEF RemoveWorkerLock
  <2>4. Newest'
    BY <2>1, <2>2, <2>3 DEF Fleet, Newest
  <2>5. phase = "serving" => live \cap quit = {}
    BY <2>3 DEF Fleet, OnlyDrainStopped
  <2>6. quit' = quit \/ (admin'.pc = "drain" /\ \A w \in ws : KeyOf(w) = admin'.key)
    <3>1. [admin EXCEPT !.pc = "drain"].pc = "drain" /\ [admin EXCEPT !.pc = "drain"].key = admin.key
      BY <1>1 DEF AdminRecs
    <3>2. \A w \in ws : KeyOf(w) = admin.key
      BY <2>1 DEF WorkersOf
    <3> QED
      BY <2>2, <3>1, <3>2
  <2>7. OnlyDrainStopped'
    BY <2>2, <2>3, <2>5, <2>6 DEF OnlyDrainStopped
  <2> QED
    BY <2>3, <2>4, <2>7, WriterFleet
<1>3. CASE RemoveWorkerDrained
  <2>1. /\ UNCHANGED <<phase, gen, quit, disp>> /\ admin.pc = "drain"
        /\ live' = live \ WorkersOf(admin.key)
    BY <1>3 DEF RemoveWorkerDrained
  <2>2. ~ReadLocked
    BY <2>1 DEF Fleet, Locks, WriteLocked
  <2>3. Newest'
    BY <2>1 DEF Fleet, Newest
  <2>4. OnlyDrainStopped'
    BY <2>1 DEF Fleet, OnlyDrainStopped, WorkersOf
  <2> QED
    BY <2>1, <2>2, <2>3, <2>4, WriterFleet
<1>4. CASE AddWorker
  <2>1. PICK k \in Keys : k = admin.key
    BY <1>4 DEF AddWorker, Inv, Typed, Shape
  <2>2. PICK g : /\ g = IF \E w \in live \cup quit : KeyOf(w) = k THEN gen[k] + 1 ELSE gen[k]
                 /\ gen' = [gen EXCEPT ![k] = g]
                 /\ live' = (live \ WorkersOf(k)) \cup {<<k, g>>}
    BY <1>4, <2>1 DEF AddWorker
  <2>3. gen \in [Keys -> Nat] /\ live \cup quit \subseteq Workers
    BY DEF Inv, Typed, TypeOK
  <2>4. gen'[k] = g /\ g >= gen[k] /\ g \in Nat /\ \A j \in Keys \ {k} : gen'[j] = gen[j]
    BY <2>2, <2>3
  <2>5. UNCHANGED <<phase, quit, disp>> /\ ~ReadLocked /\ admin.pc = "add"
    BY <1>4 DEF AddWorker
  <2>6. \A w \in live \cup quit : /\ w[2] \in Nat /\ KeyOf(w) \in Keys /\ gen[KeyOf(w)] \in Nat
                                  /\ w[2] <= gen[KeyOf(w)]
    BY <2>3, BoundsAssumption DEF Fleet, Newest, Workers, KeyOf
  <2>7. KeyOf(<<k, g>>) = k /\ <<k, g>>[2] = g
    BY DEF KeyOf
  <2>8. \A w \in live \cup quit : w[2] <= gen'[KeyOf(w)]
    <3> TAKE w \in live \cup quit
    <3>1. CASE KeyOf(w) = k
      BY <2>3, <2>4, <2>6, <3>1
    <3>2. CASE KeyOf(w) # k
      BY <2>4, <2>6, <3>2
    <3> QED
      BY <3>1, <3>2
  <2>9. Newest'
    BY <2>2, <2>4, <2>5, <2>7, <2>8 DEF Newest
  <2>10. <<k, g>> \notin quit
    <3> SUFFICES ASSUME <<k, g>> \in quit PROVE FALSE
      OBVIOUS
    <3>1. g = gen[k] + 1
      BY <2>2, <2>7
    <3>2. g <= gen[k]
      BY <2>6, <2>7
    <3> QED
      BY <2>3, <3>1, <3>2
  <2>11. phase = "serving" => live \cap quit = {}
    BY <2>5 DEF Fleet, OnlyDrainStopped
  <2>12. OnlyDrainStopped'
    BY <2>2, <2>5, <2>10, <2>11 DEF OnlyDrainStopped
  <2> QED
    BY <2>5, <2>9, <2>12, WriterFleet
<1>5. CASE DeleteRow
  <2>1. UNCHANGED <<phase, gen, live, quit, disp, chan, proc>> /\ admin.pc = "row" /\ admin'.pc = "idle"
    BY <1>5 DEF DeleteRow, pool, NoAdmin
  <2>2. Newest' /\ OnlyDrainStopped' /\ Locks'
    BY <2>1 DEF Fleet, Newest, OnlyDrainStopped, Locks, ReadLocked, WriteLocked
  <2>3. Targets'
    BY <2>1, SameLoad DEF Fleet, Targets, ReadLocked
  <2> QED
    BY <2>2, <2>3 DEF Fleet
<1> QED
  BY <1>2, <1>3, <1>4, <1>5 DEF KeyStep

LEMMA KeyRequestFleet == ASSUME Inv, Fleet, NEW k \in Keys, KeyRequest(k) PROVE Fleet'
<1>1. /\ UNCHANGED <<phase, gen, live, quit, disp, chan, proc>>
      /\ phase = "serving" /\ admin.pc = "idle" /\ admin'.pc \in {"add", "lock"}
  BY DEF KeyRequest, CreateKey, UpdateKey, DeleteKey, NewKeyRequest, pool
<1>2. Newest' /\ OnlyDrainStopped' /\ Locks'
  BY <1>1 DEF Fleet, Newest, OnlyDrainStopped, Locks, ReadLocked, WriteLocked
<1>3. Targets'
  BY <1>1, SameLoad DEF Fleet, Targets, ReadLocked
<1> QED
  BY <1>2, <1>3 DEF Fleet

LEMMA StopFleet == ASSUME Inv, Fleet, StopBegin \/ StopStep \/ Crash PROVE Fleet'
<1>1. CASE StopBegin
  <2>1. ~ReadLocked /\ UNCHANGED <<gen, live, quit, disp>> /\ phase' = "stopping"
    BY <1>1 DEF StopBegin, pool
  <2>2. Newest' /\ OnlyDrainStopped'
    BY <2>1 DEF Fleet, Newest, OnlyDrainStopped
  <2> QED
    BY <2>1, <2>2, WriterFleet
<1>2. CASE (\E w \in Workers : StopWorker(w)) \/ StopEnd
  <2>1. /\ phase = "stopping" /\ phase' # "serving" /\ UNCHANGED <<gen, live, disp>>
        /\ quit' \subseteq quit \cup live
    BY <1>2 DEF StopWorker, StopEnd, pool
  <2>2. ~ReadLocked
    BY <2>1 DEF Fleet, Locks, WriteLocked
  <2>3. Newest' /\ OnlyDrainStopped'
    BY <2>1 DEF Fleet, Newest, OnlyDrainStopped
  <2> QED
    BY <2>1, <2>2, <2>3, WriterFleet
<1>3. CASE Exit \/ Crash
  <2>1. disp'.pc = "idle" /\ live' = {} /\ quit' = {}
    BY <1>3, NoDispRec DEF Exit, Crash, LoseMemory
  <2>2. Newest' /\ OnlyDrainStopped'
    BY <2>1 DEF Newest, OnlyDrainStopped
  <2> QED
    BY <2>1, <2>2, IdleFleet
<1> QED
  BY <1>1, <1>2, <1>3 DEF StopStep

LEMMA StepFleet == Inv /\ Fleet /\ [Next]_vars => Fleet'
<1> SUFFICES ASSUME Inv, Fleet, [Next]_vars PROVE Fleet'
  OBVIOUS
<1>1. ASSUME NEW t \in Tasks, Submit(t) \/ CancelCheck(t) \/ CancelWrite(t) PROVE Fleet'
  BY <1>1, StillFleet, SameLoad DEF Submit, CancelCheck, CancelWrite, pool
<1>2. CASE UNCHANGED vars
  BY <1>2, StillFleet, SameLoad DEF vars
<1> QED
  BY <1>1, <1>2, BootFleet, DispatchFleet, RunFleet, TaskFleet, KeyRequestFleet, KeyFleet, StopFleet
  DEF Next

LEMMA FleetInvariance == Spec => [](Inv /\ Fleet)
<1>1. Spec => []Inv
  BY HeldInvariance DEF Inv
<1> QED
  BY <1>1, InitFleet, StepFleet, PTL DEF Spec

(***************************************************************************)
(* Dispatch may send to any worker it still has on its list.               *)
(***************************************************************************)
THEOREM TargetsAreReady == Spec => []DispatchTargetsReady
<1>1. Fleet => DispatchTargetsReady
  BY DEF Fleet, Targets, ReadLocked, DispatchTargetsReady
<1> QED
  BY <1>1, FleetInvariance, PTL

-----------------------------------------------------------------------------
(* Workers are pools.                                                      *)

\* Dispatch and the resume give a task a slot of w.
LEMMA Admits ==
  ASSUME NEW w \in Workers, NEW t \in Tasks, t \notin Owned(w),
         Cardinality(Owned(w)) < MaxConc[KeyOf(w)], Owned(w)' = Owned(w) \cup {t}
  PROVE  Pool(w)!Next
<1>1. Pool(w)!Admit(t)
  BY DEF Pool!Admit, Pool!Cardinality, Cardinality
<1> QED
  BY <1>1 DEF Pool!Next

LEMMA Finishes ==
  ASSUME NEW w \in Workers, NEW t \in Tasks, t \in Owned(w), Owned(w)' = Owned(w) \ {t}
  PROVE  Pool(w)!Next
<1>1. Pool(w)!Finish(t)
  BY DEF Pool!Finish
<1> QED
  BY <1>1 DEF Pool!Next

\* The tasks in a channel are no more than its length.
LEMMA OwnedBound ==
  ASSUME Typed, NEW w \in Workers
  PROVE  /\ Cardinality(Owned(w)) \in Nat
         /\ Cardinality(Owned(w)) <= Load(w)
         /\ InChan(w) = {} => Cardinality(Owned(w)) = Cardinality(Running(w))
<1>1. PICK n \in Nat : n = Len(chan[w]) /\ DOMAIN chan[w] = 1..n
  BY ChanFacts
<1>2. IsFiniteSet(1..n) /\ Cardinality(1..n) = n
  BY FS_Interval
<1>3. [i \in 1..n |-> chan[w][i]] \in Surjection(1..n, InChan(w))
  BY <1>1 DEF Surjection, InChan
<1>4. IsFiniteSet(InChan(w)) /\ Cardinality(InChan(w)) <= n
  BY <1>2, <1>3, FS_Surjection
<1>5. Cardinality(InChan(w)) \in Nat
  BY <1>4, FS_CardinalityType
<1>6. IsFiniteSet(Running(w)) /\ Cardinality(Running(w)) \in Nat
  BY LoadFacts
<1>7. IsFiniteSet(InChan(w) \cap Running(w))
  BY <1>4, FS_Subset
<1>8. Cardinality(InChan(w) \cap Running(w)) \in Nat
  BY <1>7, FS_CardinalityType
<1>9. /\ IsFiniteSet(Owned(w))
      /\ Cardinality(Owned(w)) = Cardinality(InChan(w)) + Cardinality(Running(w))
                                   - Cardinality(InChan(w) \cap Running(w))
  BY <1>4, <1>6, FS_Union DEF Owned
<1>10. Cardinality(Owned(w)) \in Nat
  BY <1>9, FS_CardinalityType
<1>11. InChan(w) = {} => Owned(w) = Running(w)
  BY DEF Owned
<1> QED
  BY <1>1, <1>4, <1>5, <1>6, <1>8, <1>9, <1>10, <1>11 DEF Load

LEMMA SameOwned ==
  ASSUME NEW w \in Workers, chan'[w] = chan[w], Running(w)' = Running(w)
  PROVE  Owned(w)' = Owned(w)
<1>1. InChan(w)' = InChan(w)
  BY DEF InChan
<1> QED
  BY <1>1 DEF Owned

LEMMA InitPools == Init => \A w \in Workers : Pool(w)!Init
<1> SUFFICES ASSUME Init, NEW w \in Workers PROVE Pool(w)!Init
  OBVIOUS
<1>1. InChan(w) = {} /\ Running(w) = {}
  BY DEF Init, InChan, Running, NoProc
<1> QED
  BY <1>1 DEF Pool!Init, Owned

LEMMA TaskPools ==
  ASSUME Inv, NEW t \in Tasks, TaskStep(t), NEW w \in Workers
  PROVE  UNCHANGED Owned(w) \/ Pool(w)!Next
<1>1. PICK r \in ProcRecs, s \in Statuses : Moves(t, r, s)
  BY TaskMoves DEF Inv
<1>2. UNCHANGED chan
  BY <1>1 DEF Moves, pool
<1>3. CASE Running(w)' = Running(w)
  BY <1>2, <1>3, SameOwned
<1>4. CASE t \in Running(w) /\ Running(w)' = Running(w) \ {t}
  <2>1. t \notin InChan(w)
    BY <1>4, ChanFacts DEF Inv, Held, Custody, Running, Processed
  <2>2. InChan(w)' = InChan(w)
    BY <1>2 DEF InChan
  <2> QED
    BY <1>4, <2>1, <2>2, Finishes DEF Owned
<1> QED
  BY <1>3, <1>4, TaskRunning DEF Inv

LEMMA StartPools ==
  ASSUME Inv, NEW v \in Workers, RunStart(v), NEW w \in Workers
  PROVE  Owned(w)' = Owned(w)
<1>1. PICK t : t = Head(chan[v])
  OBVIOUS
<1>2. /\ InChan(v)' = InChan(v) \ {t} /\ t \in InChan(v)
      /\ \A u \in Workers \ {v} : InChan(u)' = InChan(u)
  BY <1>1, ChanTail DEF RunStart, Inv, Held, Custody
<1>3. /\ Running(v)' = Running(v) \cup {t}
      /\ \A u \in Workers \ {v} : Running(u)' = Running(u)
  BY <1>1, StartRunning DEF Inv
<1> QED
  BY <1>2, <1>3 DEF Owned

LEMMA SendPools ==
  ASSUME Inv, Fleet, NEW v \in Workers, DispatchSend(v), NEW w \in Workers
  PROVE  UNCHANGED Owned(w) \/ Pool(w)!Next
<1>1. UNCHANGED proc /\ Running(w)' = Running(w)
  BY DEF DispatchSend, Running
<1>2. CASE UNCHANGED chan
  BY <1>1, <1>2, SameOwned
<1>3. CASE chan' = [chan EXCEPT ![v] = Append(@, First(disp.batch))]
  <2>1. PICK t \in Tasks : t = First(disp.batch) /\ t \in disp.batch
    BY FirstIn DEF DispatchSend, Inv, Typed, TypeOK, Shape
  <2>2. t \notin Sent /\ t \notin Processed
    BY <2>1 DEF DispatchSend, Inv, Held, Custody, ToSend, Marking
  <2>3. /\ InChan(v)' = InChan(v) \cup {t}
        /\ \A u \in Workers \ {v} : chan'[u] = chan[u]
    BY <1>3, <2>1, <2>2, ChanAppend DEF Inv, Held, Custody
  <2>4. CASE w # v
    BY <1>1, <2>3, <2>4, SameOwned
  <2>5. CASE w = v
    <3>1. t \notin Owned(w)
      BY <2>2, ChanFacts DEF Inv, Owned, Running, Processed
    <3>2. Owned(w)' = Owned(w) \cup {t}
      BY <1>1, <2>3, <2>5 DEF Owned
    <3>3. Load(w) < MaxConc[KeyOf(w)]
      BY <2>5 DEF DispatchSend, Fleet, Targets, Available
    <3>4. Cardinality(Owned(w)) < MaxConc[KeyOf(w)]
      BY <3>3, OwnedBound, LoadFacts DEF Inv, Load
    <3> QED
      BY <3>1, <3>2, <3>4, Admits
  <2> QED
    BY <2>4, <2>5
<1> QED
  BY <1>2, <1>3 DEF DispatchSend

LEMMA ResumePools ==
  ASSUME Inv, ResumeNext, NEW w \in Workers
  PROVE  UNCHANGED Owned(w) \/ Pool(w)!Next
<1>1. UNCHANGED chan
  BY DEF ResumeNext, pool
<1>2. CASE UNCHANGED proc
  BY <1>1, <1>2, SameOwned, SameLoad
<1>3. CASE ~UNCHANGED proc
  <2>1. PICK t \in Tasks : t = First(toResume) /\ t \in toResume
    BY FirstIn DEF ResumeNext, Inv, Typed, TypeOK
  <2>2. PICK v \in Workers :
          /\ TokenFree(v)
          /\ proc' = [proc EXCEPT ![t] = [pc |-> "poll", w |-> v, n |-> 0, job |-> rhId[t]]]
    BY <1>3, <2>1 DEF ResumeNext, WorkersOf, Inv, Typed, TypeOK
  <2>3. t \notin Processed
    BY <2>1 DEF Inv, Held, Custody
  <2>4. /\ proc'[t].pc = "poll" /\ proc'[t].w = v
        /\ \A u \in Tasks \ {t} : proc'[u] = proc[u]
    BY <2>2 DEF Inv, Typed, TypeOK
  <2>5. /\ Running(v)' = Running(v) \cup {t}
        /\ \A u \in Workers \ {v} : Running(u)' = Running(u)
        /\ t \notin Running(v)
    BY <2>3, <2>4 DEF Running, Processed
  <2>6. CASE w # v
    BY <1>1, <2>5, <2>6, SameOwned
  <2>7. CASE w = v
    <3>1. InChan(w) = {} /\ InChan(w)' = {}
      BY <1>1 DEF ResumeNext, Inv, Quiet, InChan
    <3>2. Owned(w) = Running(w) /\ Owned(w)' = Owned(w) \cup {t} /\ t \notin Owned(w)
      BY <2>5, <2>7, <3>1 DEF Owned
    <3>3. Cardinality(Owned(w)) < MaxConc[KeyOf(w)]
      BY <2>2, <2>7, <3>2 DEF TokenFree
    <3> QED
      BY <3>2, <3>3, Admits
  <2> QED
    BY <2>6, <2>7
<1> QED
  BY <1>2, <1>3

LEMMA StepPools ==
  Inv /\ Fleet /\ [Next]_vars =>
    [phase' = "down" \/ \A w \in Workers : UNCHANGED Owned(w) \/ Pool(w)!Next]_vars
<1> SUFFICES ASSUME Inv, Fleet, [Next]_vars, phase' # "down", NEW w \in Workers
             PROVE  UNCHANGED Owned(w) \/ Pool(w)!Next
  OBVIOUS
<1>1. ASSUME UNCHANGED <<chan, proc>> PROVE UNCHANGED Owned(w)
  BY <1>1, SameOwned, SameLoad
<1>2. CASE Boot \/ StartDispatch
  BY <1>1, <1>2 DEF Boot, StartDispatch, pool
<1>3. CASE DispatchQuery \/ DispatchList \/ DispatchMark
  BY <1>1, <1>3 DEF DispatchQuery, DispatchList, DispatchMark, pool
<1>4. ASSUME NEW v \in Workers, RunExit(v) PROVE UNCHANGED Owned(w)
  BY <1>1, <1>4 DEF RunExit
<1>5. ASSUME NEW t \in Tasks, Submit(t) \/ CancelCheck(t) \/ CancelWrite(t)
      PROVE  UNCHANGED Owned(w)
  BY <1>1, <1>5 DEF Submit, CancelCheck, CancelWrite, pool
<1>6. ASSUME NEW k \in Keys, KeyRequest(k) PROVE UNCHANGED Owned(w)
  BY <1>1, <1>6 DEF KeyRequest, CreateKey, UpdateKey, DeleteKey, pool
<1>7. CASE KeyStep
  BY <1>1, <1>7 DEF KeyStep, RemoveWorkerLock, RemoveWorkerDrained, AddWorker, DeleteRow, pool
<1>8. CASE StopBegin \/ (\E v \in Workers : StopWorker(v)) \/ StopEnd
  BY <1>1, <1>8 DEF StopBegin, StopWorker, StopEnd, pool
<1>9. CASE UNCHANGED vars
  BY <1>1, <1>9 DEF vars
<1>10. ~Exit /\ ~Crash
  BY DEF Exit, Crash, LoseMemory
<1> QED
  BY <1>2, <1>3, <1>4, <1>5, <1>6, <1>7, <1>8, <1>9, <1>10, TaskPools, StartPools, SendPools,
     ResumePools
  DEF Next, BootStep, DispatchStep, StopStep

(***************************************************************************)
(* Until the process ends, each worker implements SlotPool.                *)
(***************************************************************************)
THEOREM WorkersImplementPools == Spec => WorkersArePools
<1> QED
  BY InitPools, StepPools, FleetInvariance, PTL DEF Spec, WorkersArePools

-----------------------------------------------------------------------------
(* Running rows are polled, with the key of their job.                     *)

\* What the steps that neither boot, dispatch, run a task nor end the process
\* leave alone.
LEMMA OtherSteps ==
  ASSUME Inv, [Next]_vars, ~BootStep, ~DispatchStep, ~Exit, ~Crash,
         \A t \in Tasks : ~TaskStep(t), \A w \in Workers : ~RunStart(w)
  PROVE  /\ UNCHANGED <<rowKey, rhId, jobKey, toResume, chan, proc, disp>>
         /\ \A t \in Tasks : status'[t] = status[t] \/ status'[t] # "RUNNING"
         /\ \A k \in Keys : keyRow[k] = "deleted" => keyRow'[k] = "deleted"
         /\ quit \subseteq quit'
         /\ phase' = phase \/ phase' \in {"stopping", "stopped"}
<1>1. ASSUME NEW t \in Tasks, Submit(t) \/ CancelCheck(t) \/ CancelWrite(t)
      PROVE  /\ UNCHANGED <<rowKey, rhId, keyRow, jobKey, phase, toResume, pool, proc, disp>>
             /\ \A u \in Tasks : status'[u] = status[u] \/ status'[u] # "RUNNING"
  BY <1>1 DEF Submit, CancelCheck, CancelWrite, SetStatus, db, hub, Inv, Typed, TypeOK
<1>2. ASSUME NEW k \in Keys, KeyRequest(k)
      PROVE  /\ UNCHANGED <<status, rowKey, rhId, jobKey, phase, toResume, pool, proc, disp>>
             /\ \A j \in Keys : keyRow[j] = "deleted" => keyRow'[j] = "deleted"
  BY <1>2 DEF KeyRequest, CreateKey, UpdateKey, DeleteKey, NewKeyRequest, HasRow, db, hub,
     Inv, Typed, TypeOK
<1>3. CASE KeyStep
  <2>1. UNCHANGED <<status, rowKey, rhId, jobKey, phase, toResume, chan, proc, disp>>
    BY <1>3 DEF KeyStep, RemoveWorkerLock, RemoveWorkerDrained, AddWorker, DeleteRow, db, hub, pool
  <2>2. quit \subseteq quit'
    BY <1>3 DEF KeyStep, RemoveWorkerLock, RemoveWorkerDrained, AddWorker, DeleteRow, pool
  <2>3. \A j \in Keys : keyRow[j] = "deleted" => keyRow'[j] = "deleted"
    BY <1>3 DEF KeyStep, RemoveWorkerLock, RemoveWorkerDrained, AddWorker, DeleteRow, db,
       Inv, Typed, TypeOK
  <2> QED
    BY <2>1, <2>2, <2>3
<1>4. CASE StopBegin \/ (\E w \in Workers : StopWorker(w) \/ RunExit(w)) \/ StopEnd
  BY <1>4 DEF StopBegin, StopWorker, RunExit, StopEnd, db, hub, pool
<1>5. CASE UNCHANGED vars
  BY <1>5 DEF vars
<1> QED
  BY <1>1, <1>2, <1>3, <1>4, <1>5 DEF Next, StopStep, pool

\* The row of a task with a worker names the worker's key, once it is marked.
Named(t, w) == IF Marking(t) THEN w = disp.w ELSE rowKey[t] = KeyOf(w)
Names ==
  /\ \A t \in Processed : Named(t, proc[t].w)
  /\ \A w \in Workers : \A t \in InChan(w) : Named(t, w)

LEMMA InitNames == Init => Names
BY DEF Init, Names, Processed, NoProc, InChan

LEMMA StillNames ==
  ASSUME Inv, Names, UNCHANGED <<rowKey, chan, proc>>,
         \A t \in Tasks : Marking(t)' = Marking(t),
         UNCHANGED disp \/ \A t \in Tasks : ~Marking(t)
  PROVE  Names'
<1>1. Processed' = Processed /\ \A w \in Workers : InChan(w)' = InChan(w)
  BY DEF Processed, InChan
<1>2. Processed \subseteq Tasks /\ \A w \in Workers : InChan(w) \subseteq Tasks
  BY ChanFacts DEF Processed, Inv
<1> QED
  BY <1>1, <1>2 DEF Names, Named

LEMMA TaskNames == ASSUME Inv, Names, NEW t \in Tasks, TaskStep(t) PROVE Names'
<1>1. PICK r \in ProcRecs, s \in Statuses : Moves(t, r, s)
  BY TaskMoves DEF Inv
<1>2. /\ UNCHANGED <<rowKey, chan, disp>> /\ Processed' \subseteq Processed
      /\ proc'[t] = r /\ (r.pc # "none" => r.w = proc[t].w) /\ t \in Processed
      /\ \A u \in Tasks \ {t} : proc'[u] = proc[u]
  <2>1. UNCHANGED <<rowKey, chan, disp>> /\ (r.pc # "none" => r.w = proc[t].w)
    BY <1>1 DEF Moves, pool
  <2>2. /\ t \in Processed /\ Processed' \subseteq Processed
        /\ proc'[t] = r /\ \A u \in Tasks \ {t} : proc'[u] = proc[u]
    BY <1>1, MovesHold DEF Inv
  <2> QED
    BY <2>1, <2>2
<1>3. \A u, w : Named(u, w)' = Named(u, w)
  BY <1>2 DEF Named, Marking
<1>4. \A u \in Processed' : u \in Processed /\ proc'[u].w = proc[u].w
  BY <1>2 DEF Processed
<1>5. \A w \in Workers : InChan(w)' = InChan(w)
  BY <1>2 DEF InChan
<1> QED
  BY <1>3, <1>4, <1>5 DEF Names

LEMMA BootNames == ASSUME Inv, Names, BootStep PROVE Names'
<1>1. UNCHANGED <<rowKey, chan, disp>> /\ disp.pc = "idle"
  BY NoDispRec DEF BootStep, Boot, ResumeNext, StartDispatch, Inv, Quiet, db, pool
<1>2. \A t : ~Marking(t) /\ ~Marking(t)'
  BY <1>1 DEF Marking
<1>3. CASE UNCHANGED proc
  BY <1>1, <1>3, StillNames DEF Marking
<1>4. CASE ResumeNext /\ ~UNCHANGED proc
  <2>1. PICK t \in Tasks : t = First(toResume)
    BY <1>4, FirstIn DEF ResumeNext, Inv, Typed, TypeOK
  <2>2. PICK w \in Workers :
          /\ KeyOf(w) = rowKey[t]
          /\ proc' = [proc EXCEPT ![t] = [pc |-> "poll", w |-> w, n |-> 0, job |-> rhId[t]]]
    BY <1>4, <2>1 DEF ResumeNext, WorkersOf, Inv, Typed, TypeOK
  <2>3. proc'[t].w = w /\ \A u \in Tasks \ {t} : proc'[u] = proc[u]
    BY <2>2 DEF Inv, Typed, TypeOK
  <2>4. \A u \in Processed' : u = t \/ u \in Processed
    BY <2>3 DEF Processed
  <2>5. \A v \in Workers : InChan(v)' = InChan(v)
    BY <1>1 DEF InChan
  <2> QED
    BY <1>1, <1>2, <2>2, <2>3, <2>4, <2>5 DEF Names, Named, Processed
<1> QED
  BY <1>3, <1>4 DEF BootStep, Boot, StartDispatch

LEMMA DispatchNames == ASSUME Inv, Names, DispatchStep PROVE Names'
<1>1. disp \in DispRecs /\ disp.batch \subseteq Tasks /\ UNCHANGED proc
  BY DEF DispatchStep, DispatchQuery, DispatchList, DispatchSend, DispatchMark, Inv, Typed,
     TypeOK, DispRecs
<1>2. ASSUME disp.pc # "mark", disp'.pc # "mark", UNCHANGED <<rowKey, chan>>
      PROVE  Names'
  BY <1>1, <1>2, StillNames DEF Marking
<1>3. CASE DispatchQuery
  BY <1>2, <1>3 DEF DispatchQuery, NoDisp, db, pool
<1>4. CASE DispatchList
  <2>1. disp' = NoDisp \/ disp'.pc = "send"
    BY <1>1, <1>4 DEF DispatchList, DispRecs
  <2> QED
    BY <1>2, <1>4, <2>1, NoDispRec DEF DispatchList, db, pool
<1>5. ASSUME NEW w \in Workers, DispatchSend(w) PROVE Names'
  <2>1. CASE disp' = Advance(w) /\ UNCHANGED chan
    BY <1>1, <1>2, <1>5, <2>1, AdvanceShape DEF DispatchSend, db
  <2>2. CASE /\ chan' = [chan EXCEPT ![w] = Append(@, First(disp.batch))]
             /\ disp' = [disp EXCEPT !.pc = "mark", !.w = w]
    <3>1. PICK t \in Tasks : t = First(disp.batch) /\ t \in disp.batch
      BY <1>1, <1>5, FirstIn DEF DispatchSend, Inv, Typed, Shape
    <3>2. t \notin Sent /\ t \notin Processed
      BY <1>5, <3>1 DEF DispatchSend, ToSend, Marking, Inv, Held, Custody
    <3>3. /\ InChan(w)' = InChan(w) \cup {t}
          /\ \A v \in Workers \ {w} : InChan(v)' = InChan(v)
      BY <2>2, <3>1, <3>2, ChanAppend DEF Inv, Held, Custody
    <3>4. disp'.pc = "mark" /\ disp'.batch = disp.batch /\ disp'.w = w
      BY <1>1, <2>2 DEF DispRecs
    <3>5. \A u : ~Marking(u) /\ (Marking(u)' <=> u = t)
      BY <1>5, <3>1, <3>4 DEF DispatchSend, Marking
    <3>6. UNCHANGED rowKey /\ Processed' = Processed
      BY <1>1, <1>5 DEF DispatchSend, db, Processed
    <3>7. \A v \in Workers : t \notin InChan(v)
      BY <3>2 DEF Sent
    <3>8. \A u, v : u # t /\ Named(u, v) => Named(u, v)'
      BY <3>5, <3>6 DEF Named
    <3>9. Named(t, w)'
      BY <3>4, <3>5 DEF Named
    <3> QED
      BY <1>1, <3>2, <3>3, <3>6, <3>7, <3>8, <3>9 DEF Names
  <2> QED
    BY <1>5, <2>1, <2>2 DEF DispatchSend
<1>6. CASE DispatchMark
  <2>1. PICK t \in Tasks : t = First(disp.batch)
    BY <1>1, <1>6, FirstIn DEF DispatchMark, Inv, Typed, Shape
  <2>2. /\ rowKey' = [rowKey EXCEPT ![t] = KeyOf(disp.w)] /\ disp' = Advance(disp.w)
        /\ UNCHANGED chan
    BY <1>6, <2>1 DEF DispatchMark, pool
  <2>3. \A u : (Marking(u) <=> u = t) /\ ~Marking(u)'
    BY <1>1, <1>6, <2>1, <2>2, AdvanceShape DEF DispatchMark, Marking
  <2>4. rowKey'[t] = KeyOf(disp.w) /\ \A u \in Tasks \ {t} : rowKey'[u] = rowKey[u]
    BY <2>2 DEF Inv, Typed, TypeOK
  <2>5. \A u \in Tasks : \A v : Named(u, v) => Named(u, v)'
    BY <2>3, <2>4 DEF Named
  <2>6. Processed' = Processed /\ Processed \subseteq Tasks
    BY <1>1 DEF Processed
  <2>7. \A v \in Workers : InChan(v)' = InChan(v) /\ InChan(v) \subseteq Tasks
    BY <2>2, ChanFacts DEF InChan, Inv
  <2> QED
    BY <1>1, <2>5, <2>6, <2>7 DEF Names
<1> QED
  BY <1>3, <1>4, <1>5, <1>6 DEF DispatchStep

LEMMA StartNames == ASSUME Inv, Names, NEW v \in Workers, RunStart(v) PROVE Names'
<1>1. PICK t : t = Head(chan[v])
  OBVIOUS
<1>2. /\ t \in InChan(v) /\ t \in Tasks /\ InChan(v)' = InChan(v) \ {t}
      /\ \A u \in Workers \ {v} : InChan(u)' = InChan(u)
  BY <1>1, ChanTail, ChanFacts DEF RunStart, Inv, Held, Custody
<1>3. PICK r : proc' = [proc EXCEPT ![t] = r] /\ r = [NoProc EXCEPT !.pc = "load", !.w = v]
  BY <1>1 DEF RunStart, SetProc
<1>4. r.w = v
  BY <1>3 DEF NoProc
<1>5. proc'[t].w = v /\ \A u \in Tasks \ {t} : proc'[u] = proc[u]
  BY <1>2, <1>3, <1>4 DEF Inv, Typed, TypeOK
<1>6. \A u \in Processed' : u = t \/ u \in Processed
  BY <1>5 DEF Processed
<1>7. \A u, w : Named(u, w)' = Named(u, w)
  BY DEF RunStart, db, Named, Marking
<1> QED
  BY <1>2, <1>5, <1>6, <1>7 DEF Names, Processed

LEMMA StepNames == Inv /\ Names /\ [Next]_vars => Names'
<1> SUFFICES ASSUME Inv, Names, [Next]_vars PROVE Names'
  OBVIOUS
<1>1. CASE Exit \/ Crash
  <2>1. Processed' = {} /\ \A w \in Workers : InChan(w)' = {}
    BY <1>1 DEF Exit, Crash, LoseMemory, Processed, NoProc, InChan
  <2> QED
    BY <2>1 DEF Names
<1>2. CASE /\ ~BootStep /\ ~DispatchStep /\ ~Exit /\ ~Crash
           /\ \A t \in Tasks : ~TaskStep(t)
           /\ \A w \in Workers : ~RunStart(w)
  <2>1. UNCHANGED <<rowKey, chan, proc, disp>>
    BY <1>2, OtherSteps
  <2> QED
    BY <2>1, StillNames DEF Marking
<1> QED
  BY <1>1, <1>2, BootNames, DispatchNames, TaskNames, StartNames

\* No worker, row or request names a key that is not there yet.
Known ==
  /\ \A w \in live \cup disp.avail : keyRow[KeyOf(w)] # "absent"
  /\ admin.pc # "idle" => keyRow[admin.key] # "absent"
  /\ \A t \in Tasks : rowKey[t] # None => keyRow[rowKey[t]] # "absent"

LEMMA InitKnown == Init => Known
BY DEF Init, Known, NoDisp, NoAdmin

LEMMA StillKnown ==
  ASSUME Typed, Known, live' \cup disp'.avail \subseteq live \cup disp.avail, UNCHANGED rowKey,
         \A k \in Keys : keyRow[k] # "absent" => keyRow'[k] # "absent",
         admin'.pc # "idle" => admin.pc # "idle" /\ admin'.key = admin.key
  PROVE  Known'
<1>1. \A w \in live \cup disp.avail : KeyOf(w) \in Keys
  BY DEF Typed, TypeOK, Workers, KeyOf
<1>2. admin.pc # "idle" => admin.key \in Keys
  BY DEF Typed, Shape
<1>3. \A t \in Tasks : rowKey[t] # None => rowKey[t] \in Keys
  BY DEF Typed, TypeOK
<1> QED
  BY <1>1, <1>2, <1>3 DEF Known

LEMMA DispatchKnown == ASSUME Inv, Known, DispatchStep PROVE Known'
<1>1. disp \in DispRecs /\ UNCHANGED <<keyRow, live, admin>>
  BY DEF DispatchStep, DispatchQuery, DispatchList, DispatchSend, DispatchMark, db, pool,
     Inv, Typed, TypeOK, DispRecs
<1>2. ASSUME UNCHANGED rowKey, disp'.avail \subseteq live \cup disp.avail PROVE Known'
  BY <1>1, <1>2, StillKnown DEF Inv
<1>3. CASE DispatchQuery
  BY <1>2, <1>3 DEF DispatchQuery, NoDisp, db
<1>4. CASE DispatchList
  <2>1. disp'.avail \subseteq live
    BY <1>1, <1>4 DEF DispatchList, NoDisp, DispRecs
  <2> QED
    BY <1>2, <1>4, <2>1 DEF DispatchList, db
<1>5. ASSUME NEW w \in Workers, DispatchSend(w) PROVE Known'
  <2>1. disp' = Advance(w) \/ disp' = [disp EXCEPT !.pc = "mark", !.w = w]
    BY <1>5 DEF DispatchSend
  <2>2. disp'.avail \subseteq disp.avail
    BY <1>1, <2>1, AdvanceShape DEF DispRecs
  <2> QED
    BY <1>2, <1>5, <2>2 DEF DispatchSend, db
<1>6. CASE DispatchMark
  <2>1. PICK t : t = First(disp.batch)
    OBVIOUS
  <2>2. rowKey' = [rowKey EXCEPT ![t] = KeyOf(disp.w)] /\ disp' = Advance(disp.w)
    BY <1>6, <2>1 DEF DispatchMark
  <2>3. disp'.avail \subseteq disp.avail /\ disp.w \in disp.avail
    BY <1>1, <1>6, <2>2, AdvanceShape DEF DispatchMark, Inv, Typed, Shape
  <2>4. \A u \in Tasks : rowKey'[u] = rowKey[u] \/ rowKey'[u] = KeyOf(disp.w)
    BY <2>2 DEF Inv, Typed, TypeOK
  <2> QED
    BY <1>1, <2>3, <2>4 DEF Known
<1> QED
  BY <1>3, <1>4, <1>5, <1>6 DEF DispatchStep

LEMMA KeyKnown == ASSUME Inv, Known, KeyStep PROVE Known'
<1>1. admin \in AdminRecs /\ UNCHANGED <<rowKey, disp>> /\ admin.pc # "idle" /\ admin.key \in Keys
  BY DEF KeyStep, RemoveWorkerLock, RemoveWorkerDrained, AddWorker, DeleteRow, db, Inv, Typed,
     TypeOK, Shape, AdminRecs
<1>2. NoAdmin.pc = "idle"
  BY DEF NoAdmin
<1>3. CASE RemoveWorkerLock \/ RemoveWorkerDrained
  <2>1. UNCHANGED keyRow /\ live' \subseteq live
    BY <1>3 DEF RemoveWorkerLock, RemoveWorkerDrained, db
  <2>2. admin' \in {AfterRemove, NoAdmin, [admin EXCEPT !.pc = "drain"]}
    BY <1>3 DEF RemoveWorkerLock, RemoveWorkerDrained
  <2>3. [admin EXCEPT !.pc = "drain"].key = admin.key
    BY <1>1 DEF AdminRecs
  <2>4. admin'.pc # "idle" => admin'.key = admin.key
    BY <1>1, <1>2, <2>2, <2>3, AfterRemoveShape
  <2> QED
    BY <1>1, <2>1, <2>4, StillKnown DEF Inv
<1>4. CASE AddWorker
  <2>1. PICK k, g : k = admin.key /\ live' = (live \ WorkersOf(k)) \cup {<<k, g>>}
    BY <1>4 DEF AddWorker
  <2>2. keyRow[k] # "absent" /\ KeyOf(<<k, g>>) = k
    BY <1>1, <2>1 DEF Known, KeyOf
  <2>3. UNCHANGED keyRow /\ admin'.pc = "idle"
    BY <1>2, <1>4 DEF AddWorker, db
  <2> QED
    BY <1>1, <2>1, <2>2, <2>3 DEF Known
<1>5. CASE DeleteRow
  <2>1. /\ UNCHANGED live /\ admin'.pc = "idle"
        /\ \A k \in Keys : keyRow[k] # "absent" => keyRow'[k] # "absent"
    BY <1>2, <1>5 DEF DeleteRow, pool, Inv, Typed, TypeOK
  <2> QED
    BY <1>1, <2>1, StillKnown DEF Inv
<1> QED
  BY <1>3, <1>4, <1>5 DEF KeyStep

LEMMA StepKnown == Inv /\ Known /\ [Next]_vars => Known'
<1> SUFFICES ASSUME Inv, Known, [Next]_vars PROVE Known'
  OBVIOUS
<1>1. ASSUME UNCHANGED <<rowKey, keyRow, live, disp, admin>> PROVE Known'
  BY <1>1, StillKnown DEF Inv
<1>2. CASE Boot
  <2>1. \A w \in live' : KeyOf(w) \in Keys /\ keyRow[KeyOf(w)] = "active"
    BY <1>2 DEF Boot, KeyOf
  <2>2. UNCHANGED <<rowKey, keyRow, disp, admin>>
    BY <1>2 DEF Boot
  <2> QED
    BY <2>1, <2>2 DEF Known
<1>3. CASE ResumeNext \/ StartDispatch
  BY <1>1, <1>3 DEF ResumeNext, StartDispatch, db, pool
<1>4. ASSUME NEW t \in Tasks, TaskStep(t) PROVE Known'
  <2>1. PICK r \in ProcRecs, s \in Statuses : Moves(t, r, s)
    BY <1>4, TaskMoves DEF Inv
  <2> QED
    BY <1>1, <2>1 DEF Moves, pool
<1>5. ASSUME NEW t \in Tasks, Submit(t) \/ CancelCheck(t) \/ CancelWrite(t) PROVE Known'
  BY <1>1, <1>5 DEF Submit, CancelCheck, CancelWrite, db, pool
<1>6. ASSUME NEW w \in Workers, RunStart(w) \/ RunExit(w) PROVE Known'
  BY <1>1, <1>6 DEF RunStart, RunExit, db
<1>7. ASSUME NEW k \in Keys, KeyRequest(k) PROVE Known'
  <2>1. admin'.key = k /\ UNCHANGED <<rowKey, live, disp>>
    BY <1>7 DEF KeyRequest, CreateKey, UpdateKey, DeleteKey, NewKeyRequest, db, pool
  <2>2. keyRow'[k] # "absent" /\ \A j \in Keys : keyRow[j] # "absent" => keyRow'[j] # "absent"
    BY <1>7 DEF KeyRequest, CreateKey, UpdateKey, DeleteKey, HasRow, db, Inv, Typed, TypeOK
  <2>3. \A w \in live \cup disp.avail : KeyOf(w) \in Keys
    BY DEF Inv, Typed, TypeOK, Workers, KeyOf
  <2>4. \A t \in Tasks : rowKey[t] # None => rowKey[t] \in Keys
    BY DEF Inv, Typed, TypeOK
  <2> QED
    BY <2>1, <2>2, <2>3, <2>4 DEF Known
<1>8. CASE StopBegin \/ (\E w \in Workers : StopWorker(w)) \/ StopEnd
  BY <1>1, <1>8 DEF StopBegin, StopWorker, StopEnd, db, pool
<1>9. CASE Exit \/ Crash
  BY <1>9 DEF Exit, Crash, LoseMemory, Known, NoDisp, NoAdmin, db
<1>10. CASE UNCHANGED vars
  BY <1>1, <1>10 DEF vars
<1> QED
  BY <1>2, <1>3, <1>4, <1>5, <1>6, <1>7, <1>8, <1>9, <1>10, DispatchKnown, KeyKnown
  DEF Next, BootStep, StopStep

\* RunningIsPolled for one row, during the boot as well.  A row that is being
\* marked has its goroutine: the key of its job is still the one of dispatch.
Excused(t) == Misnamed(t) \/ keyRow[rowKey[t]] = "deleted" \/ rowKey[t] \in StoppedKeys
PolledRow(t) ==
  status[t] = "RUNNING" =>
    /\ jobKey[t] # None
    /\ phase \in {"resuming", "serving"} =>
         Polled(t) \/ t \in toResume \/ (Excused(t) /\ ~Marking(t))

\* The rows that have lost the name of their job's key.
Drifted == {t \in Tasks : status[t] = "RUNNING" /\ Misnamed(t) /\ ~Marking(t)}
FewDrifted == Cardinality(Drifted) + Ended <= restarts

Polling == (\A t \in Tasks : PolledRow(t)) /\ FewDrifted

LEMMA InitPolling == Init => Polling
<1> SUFFICES ASSUME Init PROVE Polling
  OBVIOUS
<1>1. \A t \in Tasks : PolledRow(t)
  BY DEF Init, PolledRow
<1>2. Drifted = {} /\ Ended = 0 /\ restarts = 0
  BY DEF Init, Drifted, Ended
<1> QED
  BY <1>1, <1>2, FS_EmptySet DEF Polling, FewDrifted

LEMMA DriftedFacts ==
  ASSUME Typed
  PROVE  IsFiniteSet(Drifted) /\ Cardinality(Drifted) \in Nat /\ Ended \in {0, 1} /\ restarts \in Nat
<1>1. Drifted \subseteq Tasks
  BY DEF Drifted
<1>2. IsFiniteSet(Drifted) /\ Cardinality(Drifted) \in Nat
  BY <1>1, TasksAreIds, FS_Subset, FS_CardinalityType
<1>3. Ended \in {0, 1} /\ restarts \in Nat
  BY DEF Ended, Typed, TypeOK
<1> QED
  BY <1>2, <1>3

LEMMA FewerDrifted ==
  ASSUME Typed, FewDrifted, NEW D, D = Drifted', D \subseteq Drifted,
         UNCHANGED restarts, Ended' = Ended
  PROVE  FewDrifted'
<1>1. Cardinality(D) <= Cardinality(Drifted) /\ Cardinality(D) \in Nat
  BY DriftedFacts, FS_Subset, FS_CardinalityType
<1> QED
  BY <1>1, DriftedFacts DEF FewDrifted

\* A step that leaves the row, its goroutine and its names alone.
LEMMA StillPolled ==
  ASSUME Typed, NEW t \in Tasks, PolledRow(t),
         status'[t] = status[t] \/ status'[t] # "RUNNING",
         rhId'[t] = rhId[t], rowKey'[t] = rowKey[t], jobKey'[t] = jobKey[t],
         proc'[t] = proc[t], t \in toResume => t \in toResume',
         status[t] = "RUNNING" => (Marking(t)' => Marking(t)),
         \A k \in Keys : keyRow[k] = "deleted" => keyRow'[k] = "deleted",
         quit \subseteq quit',
         phase' \in {"resuming", "serving"} => phase \in {"resuming", "serving"}
  PROVE  PolledRow(t)'
<1> SUFFICES ASSUME status'[t] = "RUNNING" PROVE PolledRow(t)'
  BY DEF PolledRow
<1>1. status[t] = "RUNNING" /\ jobKey'[t] # None
  BY DEF PolledRow
<1>2. Polled(t) => Polled(t)'
  BY DEF Polled
<1>3. Excused(t) => Excused(t)'
  <2>1. CASE Misnamed(t)
    BY <2>1 DEF Excused, Misnamed
  <2>2. CASE ~Misnamed(t)
    <3>1. rowKey[t] \in Keys
      BY <1>1, <2>2 DEF Misnamed, Typed, TypeOK
    <3> QED
      BY <2>2, <3>1 DEF Excused, StoppedKeys, Misnamed
  <2> QED
    BY <2>1, <2>2
<1> QED
  BY <1>1, <1>2, <1>3 DEF PolledRow

\* The goroutine of t either keeps its row polled, or leaves an excuse.
LEMMA TaskPolled ==
  ASSUME Inv, Fleet, Names, NEW t \in Tasks, PolledRow(t), TaskStep(t)
  PROVE  PolledRow(t)' /\ (t \in Drifted' => t \in Drifted)
<1>1. PICK r \in ProcRecs, s \in Statuses : Moves(t, r, s)
  BY TaskMoves DEF Inv
<1>2. /\ status'[t] = s /\ proc'[t] = r /\ t \in Processed
      /\ UNCHANGED <<toResume, rowKey, keyRow, phase, quit, disp>>
      /\ t \notin toResume /\ Marking(t)' = Marking(t)
      /\ r.pc # "none" => r.w = proc[t].w
  <2>1. t \in Processed
    BY <1>1, MovesHold DEF Inv
  <2>2. t \notin toResume
    BY <2>1 DEF Inv, Held, Custody
  <2> QED
    BY <1>1, <2>1, <2>2, MovesHold DEF Inv, Moves, pool
<1>3. CASE /\ s = "RUNNING" /\ r.pc = "poll" /\ rhId' = [rhId EXCEPT ![t] = r.job]
           /\ jobKey' = [jobKey EXCEPT ![t] = KeyOf(proc[t].w)]
  <2>1. proc[t].w \in Workers
    BY <1>2 DEF Inv, Typed, Shape, Processed
  <2>2. rhId'[t] = r.job /\ jobKey'[t] = KeyOf(r.w) /\ KeyOf(r.w) \in Keys
    BY <1>2, <1>3, <2>1 DEF Inv, Typed, TypeOK, KeyOf, Workers
  <2>3. Polled(t)' /\ jobKey'[t] # None
    BY <1>2, <1>3, <2>2, KeysAssumption DEF Polled
  <2>4. ~Marking(t) => rowKey'[t] = jobKey'[t]
    BY <1>2, <1>3, <2>2 DEF Names, Named
  <2>5. t \notin Drifted'
    BY <1>2, <2>4 DEF Drifted, Misnamed
  <2> QED
    BY <2>3, <2>5 DEF PolledRow
<1>4. CASE s \in {"SUCCESS", "FAILED"}
  BY <1>2, <1>4 DEF PolledRow, Drifted
<1>5. CASE s = status[t] /\ UNCHANGED <<rhId, jobKey>>
  <2>1. t \in Drifted' => t \in Drifted
    BY <1>2, <1>5 DEF Drifted, Misnamed
  <2> SUFFICES ASSUME status[t] = "RUNNING", phase \in {"resuming", "serving"}
               PROVE  Polled(t)' \/ (Excused(t)' /\ ~Marking(t)')
    BY <1>2, <1>5, <2>1 DEF PolledRow
  <2>2. Excused(t)' <=> Excused(t)
    BY <1>2, <1>5 DEF Excused, Misnamed, StoppedKeys
  <2>3. CASE Excused(t) /\ ~Marking(t)
    BY <1>2, <2>2, <2>3
  <2>4. CASE Polled(t)
    <3>1. proc[t].pc \in {"poll", "query", "succeed", "fail"} /\ proc[t].w \in Workers
      BY <1>2, <2>4 DEF Polled, Inv, Typed, Shape, Processed
    <3>2. ASSUME r.pc \in {"poll", "query", "succeed", "fail"}, r.job = proc[t].job
          PROVE  Polled(t)'
      BY <1>2, <1>5, <2>4, <3>2 DEF Polled
    <3>3. CASE PollTick(t)
      <4>1. Goto(t, "fail") \/ SetProc(t, [proc[t] EXCEPT !.pc = "query", !.n = @ + 1])
        BY <3>3 DEF PollTick
      <4> QED
        BY <1>2, <3>2, <4>1, NextPc DEF Inv
    <3>4. CASE PollQuery(t)
      <4>1. Goto(t, "succeed") \/ Goto(t, "fail") \/ Goto(t, "poll")
        BY <3>4 DEF PollQuery
      <4> QED
        BY <1>2, <3>2, <4>1, NextPc DEF Inv
    \* Its worker was stopped, and so not while dispatch holds the read lock.
    <3>5. CASE PollQuit(t)
      <4>1. proc[t].w \in quit
        BY <3>5 DEF PollQuit
      <4>2. phase = "serving"
        BY <4>1 DEF Inv, Quiet
      <4>3. ~Marking(t)
        <5> SUFFICES ASSUME Marking(t) PROVE FALSE
          OBVIOUS
        <5>1. proc[t].w = disp.w
          BY <1>2 DEF Names, Named
        <5>2. disp.w \in disp.avail /\ ReadLocked
          BY DEF Marking, Inv, Typed, Shape, ReadLocked
        <5> QED
          BY <4>1, <4>2, <5>1, <5>2 DEF Fleet, Targets
      <4>4. rowKey[t] = KeyOf(proc[t].w)
        BY <1>2, <4>3 DEF Names, Named
      <4> QED
        BY <1>2, <2>2, <4>1, <4>3, <4>4 DEF Excused, StoppedKeys
    <3>6. ~WriteResult(t)
      BY <1>2, <1>5 DEF WriteResult, SetStatus, Inv, Typed, TypeOK
    <3>7. /\ ~LoadRow(t) /\ ~CreateAccepted(t) /\ ~CreateAnswerLost(t) /\ ~CreateRefused(t)
          /\ ~Recheck(t) /\ ~RecordRunning(t)
      BY <3>1 DEF LoadRow, CreateAccepted, CreateAnswerLost, CreateRefused, Recheck, RecordRunning
    <3> QED
      BY <3>3, <3>4, <3>5, <3>6, <3>7 DEF TaskStep
  <2> QED
    BY <1>2, <2>3, <2>4 DEF PolledRow
<1> QED
  BY <1>1, <1>3, <1>4, <1>5 DEF Moves

LEMMA TaskPolling == ASSUME Inv, Fleet, Names, Polling, NEW u \in Tasks, TaskStep(u) PROVE Polling'
<1>1. PICK r \in ProcRecs, s \in Statuses : Moves(u, r, s)
  BY TaskMoves DEF Inv
<1>2. UNCHANGED <<rowKey, keyRow, phase, toResume, quit, disp, restarts>>
  BY <1>1 DEF Moves, pool, count
<1>3. PolledRow(u)' /\ (u \in Drifted' => u \in Drifted)
  BY TaskPolled DEF Polling
<1>4. ASSUME NEW t \in Tasks \ {u}
      PROVE  PolledRow(t)' /\ (t \in Drifted' => t \in Drifted)
  <2>1. /\ status'[t] = status[t] /\ proc'[t] = proc[t] /\ rhId'[t] = rhId[t]
        /\ jobKey'[t] = jobKey[t] /\ Marking(t)' = Marking(t)
    <3>1. status'[t] = status[t] /\ proc'[t] = proc[t] /\ Marking(t)' = Marking(t)
      BY <1>1, MovesHold DEF Inv
    <3>2. rhId'[t] = rhId[t] /\ jobKey'[t] = jobKey[t]
      BY <1>1 DEF Moves, Inv, Typed, TypeOK
    <3> QED
      BY <3>1, <3>2
  <2>2. PolledRow(t)'
    BY <1>2, <2>1, StillPolled DEF Polling, Inv
  <2> QED
    BY <1>2, <2>1, <2>2 DEF Drifted, Misnamed
<1>5. \A t \in Tasks : PolledRow(t)'
  BY <1>3, <1>4
<1>6. PICK D : D = Drifted'
  OBVIOUS
<1>7. D \subseteq Drifted
  BY <1>3, <1>4, <1>6 DEF Drifted
<1>8. FewDrifted'
  BY <1>2, <1>6, <1>7, FewerDrifted DEF Polling, Inv, Ended
<1> QED
  BY <1>5, <1>8 DEF Polling

LEMMA BootPolling == ASSUME Inv, Names, Known, Polling, BootStep PROVE Polling'
<1>1. /\ UNCHANGED <<rowKey, rhId, keyRow, jobKey, quit, disp, restarts>>
      /\ disp.pc = "idle" /\ Ended' = Ended /\ quit = {}
  BY NoDispRec DEF BootStep, Boot, ResumeNext, StartDispatch, Inv, Quiet, db, hub, pool, count,
     Ended
<1>2. \A t : ~Marking(t) /\ ~Marking(t)'
  BY <1>1 DEF Marking
<1>3. \A t \in Tasks : status'[t] = "RUNNING" => status[t] = "RUNNING"
  <2>1. CASE Boot
    BY <2>1 DEF Boot
  <2>2. CASE ResumeNext
    <3>1. UNCHANGED status \/ \E u : SetStatus(u, "FAILED")
      BY <2>2 DEF ResumeNext
    <3> QED
      BY <3>1 DEF SetStatus, Inv, Typed, TypeOK
  <2>3. CASE StartDispatch
    BY <2>3 DEF StartDispatch, db
  <2> QED
    BY <2>1, <2>2, <2>3 DEF BootStep
<1>4. PICK D : D = Drifted'
  OBVIOUS
<1>5. D \subseteq Drifted
  BY <1>1, <1>2, <1>3, <1>4 DEF Drifted, Misnamed
<1>6. FewDrifted'
  BY <1>1, <1>4, <1>5, FewerDrifted DEF Polling, Inv
<1>7. ASSUME NEW t \in Tasks PROVE PolledRow(t)'
  <2>1. CASE Boot
    <3>1. status'[t] = "RUNNING" => status[t] = "RUNNING" /\ rhId[t] # 0 /\ jobKey'[t] # None
      BY <1>1, <1>3 DEF Polling, PolledRow, Inv, Held, Rows
    <3> QED
      BY <2>1, <3>1 DEF Boot, PolledRow, Having
  <2>2. CASE StartDispatch
    <3>1. UNCHANGED <<status, proc, toResume>> /\ phase = "resuming"
      BY <2>2 DEF StartDispatch, db
    <3> QED
      BY <1>1, <1>2, <3>1, StillPolled DEF Polling, Inv
  <2>3. CASE ResumeNext
    <3>1. PICK u \in Tasks : u = First(toResume) /\ u \in toResume
      BY <2>3, FirstIn DEF ResumeNext, Inv, Typed, TypeOK
    <3>2. toResume' = toResume \ {u} /\ phase' = phase /\ phase = "resuming"
      BY <2>3, <3>1 DEF ResumeNext
    <3>3. CASE u # t
      <4>1. status'[t] = status[t]
        BY <2>3, <3>1, <3>3 DEF ResumeNext, SetStatus, Inv, Typed, TypeOK
      <4>2. proc'[t] = proc[t]
        BY <2>3, <3>1, <3>3 DEF ResumeNext, Inv, Typed, TypeOK
      <4> QED
        BY <1>1, <1>2, <3>2, <3>3, <4>1, <4>2, StillPolled DEF Polling, Inv
    <3>4. CASE u = t
      <4> SUFFICES ASSUME status'[t] = "RUNNING" PROVE Polled(t)' \/ Excused(t)'
        BY <1>1, <1>2, <1>3 DEF Polling, PolledRow
      <4>1. jobKey[t] # None
        BY <1>3 DEF Polling, PolledRow
      <4>2. CASE Misnamed(t)
        BY <1>1, <4>2 DEF Excused, Misnamed
      <4>3. CASE ~Misnamed(t) /\ WorkersOf(rowKey[t]) # {}
        <5>1. PICK w : /\ KeyOf(w) = rowKey[t]
                       /\ proc' = [proc EXCEPT ![t] =
                                     [pc |-> "poll", w |-> w, n |-> 0, job |-> rhId[t]]]
          BY <2>3, <3>1, <3>4, <4>1, <4>3 DEF ResumeNext, WorkersOf, Misnamed
        <5>2. proc'[t].pc = "poll" /\ proc'[t].job = rhId[t] /\ proc'[t].w = w
          BY <5>1 DEF Inv, Typed, TypeOK
        <5> QED
          BY <1>1, <4>3, <5>1, <5>2 DEF Polled, Misnamed
      <4>4. CASE ~Misnamed(t) /\ WorkersOf(rowKey[t]) = {}
        <5>1. ~HasRow(rowKey[t])
          <6> SUFFICES ASSUME HasRow(rowKey[t]) PROVE FALSE
            OBVIOUS
          <6>1. SetStatus(t, "FAILED")
            BY <2>3, <3>1, <3>4, <4>1, <4>4 DEF ResumeNext, Misnamed
          <6> QED
            BY <6>1 DEF SetStatus, Inv, Typed, TypeOK
        <5>2. rowKey[t] \in Keys /\ keyRow[rowKey[t]] # "absent"
          BY <4>1, <4>4 DEF Misnamed, Known, Inv, Typed, TypeOK
        <5>3. keyRow[rowKey[t]] = "deleted"
          BY <5>1, <5>2 DEF HasRow, Inv, Typed, TypeOK
        <5> QED
          BY <1>1, <5>3 DEF Excused
      <4> QED
        BY <4>2, <4>3, <4>4
    <3> QED
      BY <3>3, <3>4
  <2> QED
    BY <2>1, <2>2, <2>3 DEF BootStep
<1> QED
  BY <1>6, <1>7 DEF Polling

LEMMA DispatchPolling == ASSUME Inv, Polling, DispatchStep PROVE Polling'
<1>1. /\ disp \in DispRecs
      /\ UNCHANGED <<rhId, keyRow, jobKey, phase, toResume, quit, proc, restarts>>
      /\ Ended' = Ended
  BY DEF DispatchStep, DispatchQuery, DispatchList, DispatchSend, DispatchMark, db, hub, pool,
     count, Inv, Typed, TypeOK, DispRecs, Ended
\* A row that is not running may begin or end to be marked, and change its key.
<1>2. ASSUME \A t \in Tasks : \/ status'[t] # "RUNNING"
                              \/ /\ status'[t] = status[t] /\ rowKey'[t] = rowKey[t]
                                 /\ (Marking(t)' <=> Marking(t))
      PROVE  Polling'
  <2>1. PICK D : D = Drifted'
    OBVIOUS
  <2>2. D \subseteq Drifted
    BY <1>1, <1>2, <2>1 DEF Drifted, Misnamed
  <2>3. FewDrifted'
    BY <1>1, <2>1, <2>2, FewerDrifted DEF Polling, Inv
  <2>4. ASSUME NEW t \in Tasks PROVE PolledRow(t)'
    <3>1. CASE status'[t] # "RUNNING"
      BY <3>1 DEF PolledRow
    <3>2. CASE /\ status'[t] = status[t] /\ rowKey'[t] = rowKey[t]
               /\ (Marking(t)' <=> Marking(t))
      BY <1>1, <3>2, StillPolled DEF Polling, Inv
    <3> QED
      BY <1>2, <3>1, <3>2
  <2> QED
    BY <2>3, <2>4 DEF Polling
<1>3. CASE DispatchQuery \/ DispatchList
  <2>1. UNCHANGED <<status, rowKey>> /\ disp.pc # "mark" /\ disp'.pc # "mark"
    BY <1>1, <1>3, NoDispRec DEF DispatchQuery, DispatchList, db, NoDisp, DispRecs
  <2> QED
    BY <1>2, <2>1 DEF Marking
<1>4. ASSUME NEW w \in Workers, DispatchSend(w) PROVE Polling'
  <2>1. UNCHANGED <<status, rowKey>> /\ disp.pc = "send" /\ First(disp.batch) \in disp.batch
    BY <1>1, <1>4, FirstIn DEF DispatchSend, db, DispRecs, Inv, Typed, Shape
  <2>2. \A t \in disp.batch : status[t] # "RUNNING"
    BY <2>1 DEF ToSend, Marking, Inv, Held, Rows
  <2>3. disp'.pc # "mark" \/ disp'.batch = disp.batch
    <3>1. disp' = Advance(w) \/ disp' = [disp EXCEPT !.pc = "mark", !.w = w]
      BY <1>4 DEF DispatchSend
    <3> QED
      BY <1>1, <3>1, AdvanceShape DEF DispRecs
  <2>4. \A t \in Tasks : status[t] = "RUNNING" => ~Marking(t) /\ ~Marking(t)'
    BY <2>1, <2>2, <2>3 DEF Marking
  <2> QED
    BY <1>2, <2>1, <2>4
<1>5. CASE DispatchMark
  <2>1. PICK t : t = First(disp.batch)
    OBVIOUS
  <2>2. /\ status' = [status EXCEPT ![t] = "DISPATCHED"] /\ disp' = Advance(disp.w)
        /\ rowKey' = [rowKey EXCEPT ![t] = KeyOf(disp.w)]
    BY <1>5, <2>1 DEF DispatchMark, SetStatus
  <2>3. \A u : (Marking(u) <=> u = t) /\ ~Marking(u)'
    BY <1>1, <1>5, <2>1, <2>2, AdvanceShape DEF DispatchMark, Marking
  <2>4. \A u \in Tasks : IF u = t THEN status'[u] = "DISPATCHED"
                         ELSE status'[u] = status[u] /\ rowKey'[u] = rowKey[u]
    BY <2>2 DEF Inv, Typed, TypeOK
  <2>5. \A u \in Tasks \ {t} : Marking(u)' <=> Marking(u)
    BY <2>3
  <2> QED
    BY <1>2, <2>4, <2>5
<1> QED
  BY <1>3, <1>4, <1>5 DEF DispatchStep

LEMMA StartPolling == ASSUME Inv, Polling, NEW w \in Workers, RunStart(w) PROVE Polling'
<1>1. PICK u : u = Head(chan[w])
  OBVIOUS
<1>2. u \in Tasks /\ u \in Sent /\ u \notin Processed /\ u \notin toResume
  BY <1>1, ChanTail, ChanFacts DEF RunStart, Inv, Held, Custody
<1>3. UNCHANGED <<status, rowKey, rhId, keyRow, jobKey, phase, toResume, quit, disp, restarts>>
  BY DEF RunStart, db, hub, count
<1>4. Drifted' = Drifted /\ Ended' = Ended /\ \A t : Marking(t)' = Marking(t)
  BY <1>3 DEF Drifted, Misnamed, Marking, Ended
<1>5. ASSUME NEW t \in Tasks PROVE PolledRow(t)'
  <2>1. CASE t = u
    <3>1. ~Polled(t) /\ t \notin toResume
      BY <1>2, <2>1 DEF Polled, Processed
    <3>2. Excused(t)' <=> Excused(t)
      BY <1>3 DEF Excused, Misnamed, StoppedKeys
    <3> QED
      BY <1>3, <1>4, <3>1, <3>2 DEF Polling, PolledRow
  <2>2. CASE t # u
    <3>1. proc'[t] = proc[t]
      BY <1>1, <2>2 DEF RunStart, SetProc, Inv, Typed, TypeOK
    <3> QED
      BY <1>3, <1>4, <3>1, StillPolled DEF Polling, Inv
  <2> QED
    BY <2>1, <2>2
<1> QED
  BY <1>3, <1>4, <1>5 DEF Polling, FewDrifted

\* With the process goes the mark of at most one task.
LEMMA EndPolling == ASSUME Inv, Polling, StopBegin \/ Exit \/ Crash PROVE Polling'
<1>1. UNCHANGED <<status, rowKey, jobKey>> /\ phase' \in {"down", "stopping"}
  BY DEF StopBegin, Exit, Crash, LoseMemory, db, hub
<1>2. \A t \in Tasks : PolledRow(t)'
  BY <1>1 DEF Polling, PolledRow
<1>3. PICK D, x : D = Drifted' /\ x = First(disp.batch)
  OBVIOUS
<1>4. CASE StopBegin
  <2>1. Drifted' = Drifted /\ Ended = 0 /\ Ended' = 1 /\ restarts' = restarts + 1
    BY <1>1, <1>4 DEF StopBegin, Drifted, Misnamed, Marking, Ended
  <2> QED
    BY <1>2, <2>1, DriftedFacts DEF Polling, FewDrifted, Inv
<1>5. CASE Exit \/ Crash
  <2>1. D \subseteq Drifted \cup {x}
    BY <1>1, <1>3 DEF Drifted, Misnamed, Marking
  <2>2. IsFiniteSet(Drifted \cup {x}) /\ Cardinality(Drifted \cup {x}) <= Cardinality(Drifted) + 1
    <3>1. CASE x \in Drifted
      <4>1. Drifted \cup {x} = Drifted
        BY <3>1
      <4> QED
        BY <4>1, DriftedFacts DEF Inv
    <3>2. CASE x \notin Drifted
      BY <3>2, DriftedFacts, FS_AddElement DEF Inv
    <3> QED
      BY <3>1, <3>2
  <2>3. /\ Cardinality(D) <= Cardinality(Drifted \cup {x}) /\ Cardinality(D) \in Nat
        /\ Cardinality(Drifted \cup {x}) \in Nat
    BY <2>1, <2>2, FS_Subset, FS_CardinalityType
  <2>4. Ended' = 0 /\ restarts' \in {restarts + 1 - Ended, restarts + 1}
    BY <1>5 DEF Exit, Crash, LoseMemory, Ended, count, Inv, Typed, TypeOK
  <2>5. Cardinality(Drifted) + Ended <= restarts
    BY DEF Polling, FewDrifted
  <2>6. Cardinality(D) + 0 <= restarts'
    BY <2>2, <2>3, <2>4, <2>5, DriftedFacts DEF Inv
  <2> QED
    BY <1>2, <1>3, <2>4, <2>6 DEF Polling, FewDrifted
<1> QED
  BY <1>4, <1>5

LEMMA StepPolling == Inv /\ Fleet /\ Names /\ Known /\ Polling /\ [Next]_vars => Polling'
<1> SUFFICES ASSUME Inv, Fleet, Names, Known, Polling, [Next]_vars PROVE Polling'
  OBVIOUS
<1>1. CASE /\ ~BootStep /\ ~DispatchStep /\ ~StopBegin /\ ~Exit /\ ~Crash
           /\ \A t \in Tasks : ~TaskStep(t)
           /\ \A w \in Workers : ~RunStart(w)
  <2>1. /\ UNCHANGED <<rowKey, rhId, jobKey, toResume, chan, proc, disp>>
        /\ \A t \in Tasks : status'[t] = status[t] \/ status'[t] # "RUNNING"
        /\ \A k \in Keys : keyRow[k] = "deleted" => keyRow'[k] = "deleted"
        /\ quit \subseteq quit'
        /\ phase' = phase \/ phase' \in {"stopping", "stopped"}
    BY <1>1, OtherSteps
  <2>2. UNCHANGED restarts /\ Ended' = Ended
    BY <1>1 DEF Next, Submit, CancelCheck, CancelWrite, RunExit, KeyRequest, CreateKey, UpdateKey,
       DeleteKey, KeyStep, RemoveWorkerLock, RemoveWorkerDrained, AddWorker, DeleteRow, StopStep,
       StopWorker, StopEnd, NewKeyRequest, count, vars, Ended
  <2>3. \A t : Marking(t)' = Marking(t)
    BY <2>1 DEF Marking
  <2>4. ASSUME NEW t \in Tasks PROVE PolledRow(t)'
    BY <2>1, <2>3, StillPolled DEF Polling, Inv
  <2>5. PICK D : D = Drifted'
    OBVIOUS
  <2>6. D \subseteq Drifted
    BY <2>1, <2>3, <2>5 DEF Drifted, Misnamed
  <2>7. FewDrifted'
    BY <2>2, <2>5, <2>6, FewerDrifted DEF Polling, Inv
  <2> QED
    BY <2>4, <2>7 DEF Polling
<1> QED
  BY <1>1, BootPolling, DispatchPolling, TaskPolling, StartPolling, EndPolling

(***************************************************************************)
(* Every RUNNING row is polled with the key of its job, over any number of *)
(* restarts and key requests, except the rows of deleted and of stopped    *)
(* keys and at most one row per end of the process that does not name the  *)
(* key of its job.                                                         *)
(***************************************************************************)
THEOREM RunningRowsArePolled == Spec => []RunningIsPolled
<1>1. Init => Names /\ Known /\ Polling
  BY InitNames, InitKnown, InitPolling
<1>2. Inv /\ Fleet /\ Names /\ Known /\ Polling /\ [Next]_vars => (Names /\ Known /\ Polling)'
  BY StepNames, StepKnown, StepPolling
<1>3. Inv /\ Polling => RunningIsPolled
  <2> SUFFICES ASSUME Inv, Polling, phase = "serving"
               PROVE  /\ \A t \in Unpolled : Excused(t)
                      /\ Cardinality({t \in Unpolled : Misnamed(t)}) <= restarts
    BY DEF RunningIsPolled, Excused
  <2>1. toResume = {}
    BY DEF Inv, Quiet
  <2>2. \A t \in Unpolled : t \in Tasks /\ status[t] = "RUNNING" /\ Excused(t) /\ ~Marking(t)
    BY <2>1 DEF Unpolled, Having, Polling, PolledRow
  <2>3. PICK D : D = {t \in Unpolled : Misnamed(t)}
    OBVIOUS
  <2>4. D \subseteq Drifted
    BY <2>2, <2>3 DEF Drifted
  <2>5. Cardinality(D) <= Cardinality(Drifted) /\ Cardinality(D) \in Nat
    BY <2>4, DriftedFacts, FS_Subset, FS_CardinalityType DEF Inv
  <2>6. Cardinality(D) <= restarts
    BY <2>5, DriftedFacts DEF Polling, FewDrifted, Inv
  <2> QED
    BY <2>2, <2>3, <2>6
<1> QED
  BY <1>1, <1>2, <1>3, FleetInvariance, PTL DEF Spec

=============================================================================
