-------------------------- MODULE SchedulerProofs --------------------------
(***************************************************************************)
(* Proofs about Scheduler, for any tasks, keys, concurrency limits and     *)
(* bounds: its types, the custody of tasks, the results in their rows and  *)
(* the number of jobs.  SoleCustody is not inductive: dispatch takes its   *)
(* batch from the PENDING rows and the boot its tasks from the RUNNING     *)
(* ones, without asking any worker.  Held therefore says what the row of a *)
(* task tells of its place (Rows), and follows a task through the channels *)
(* of all workers, the exited ones included, and through the two steps     *)
(* between which it is sent but not marked (Custody).  The count of jobs   *)
(* needs Held as well: JobsBound keeps one job in reserve for each task    *)
(* that a goroutine may still submit.                                      *)
(***************************************************************************)
EXTENDS Scheduler, FiniteSetTheorems, SequenceTheorems, WellFoundedInduction, TLAPS

\* Where a task is: in some channel, or next in line for one.
Sent == UNION {InChan(w) : w \in Workers}
Marking(t) == disp.pc = "mark" /\ t = First(disp.batch)
ToSend == {t \in disp.batch : ~Marking(t)}

\* What the program counters of dispatch, of a key request and of a task say.
Shape ==
  /\ disp.pc = "idle" => disp.batch = {}
  /\ disp.pc # "idle" => disp.batch # {}
  /\ disp.pc = "mark" => disp.w \in disp.avail
  /\ admin.pc # "idle" => admin.key \in Keys
  /\ \A t \in Tasks : proc[t].pc = "record" => proc[t].job # 0
  /\ \A t \in Tasks : proc[t].pc # "none" => proc[t].w \in Workers

\* Nothing is under way before HTTP is served, and the boot resumes nothing
\* after it.
Quiet ==
  /\ phase \in {"down", "resuming"} =>
       /\ disp = NoDisp /\ admin.pc = "idle" /\ cancelling = {} /\ quit = {}
       /\ \A w \in Workers : chan[w] = <<>>
  /\ phase = "down" => Processed = {}
  /\ phase # "resuming" => toResume = {}

Once ==
  \A v, w \in Workers : \A i \in DOMAIN chan[v], j \in DOMAIN chan[w] :
    chan[v][i] = chan[w][j] => v = w /\ i = j

\* SoleCustody for the channels of all workers, the exited ones included,
\* for the batch while its oldest task is marked, and for the boot.
Custody ==
  /\ Once
  /\ Sent \cap Processed = {}
  /\ (ToSend \cup toResume) \cap (Sent \cup Processed) = {}

\* What the row of a task says of who has the task.
Rows ==
  /\ \A t \in Sent \cup Processed :
       /\ status[t] \notin {"SUCCESS", "FAILED"}
       /\ status[t] \in {"NONE", "PENDING"} => Marking(t)
  /\ \A t \in ToSend : status[t] \in {"PENDING", "CANCELLED"}
  /\ \A t \in toResume : status[t] = "RUNNING"
  /\ \A t \in Tasks : status[t] = "RUNNING" => rhId[t] # 0

\* A request makes one worker at most.
Generations ==
  /\ \A k \in Keys : gen[k] <= keyChanges
  /\ admin.pc \in {"lock", "drain", "add"} => \A k \in Keys : gen[k] < keyChanges

Typed == TypeOK /\ Shape /\ Generations

ProcRecs == [pc : ProcPcs, w : Workers \cup {None}, n : Nat, job : Nat]
DispRecs == [pc : {"idle", "list", "send", "mark"}, batch : SUBSET Tasks,
             avail : SUBSET Workers, w : Workers \cup {None}]
AdminRecs == [pc : {"idle", "lock", "drain", "add", "row"},
              op : {"none", "restart", "stop", "delete"}, key : Keys \cup {None}]


(***************************************************************************)
(* What a step of the goroutine of t may do: nothing but move on or end,   *)
(* and write RUNNING when it starts to poll or a result when it ends.      *)
(***************************************************************************)
Moves(t, r, s) ==
  /\ proc[t].pc # "none"
  /\ proc' = [proc EXCEPT ![t] = r]
  /\ status' = [status EXCEPT ![t] = s]
  /\ r.pc # "none" => r.w = proc[t].w
  /\ r.pc = "record" => r.job # 0
  /\ \/ s = status[t] /\ UNCHANGED <<rhId, jobKey>>
     \/ /\ s = "RUNNING" /\ r.pc = "poll" /\ r.job # 0
        /\ rhId' = [rhId EXCEPT ![t] = r.job]
        /\ jobKey' = [jobKey EXCEPT ![t] = KeyOf(proc[t].w)]
     \/ s \in {"SUCCESS", "FAILED"} /\ r.pc = "none" /\ UNCHANGED <<rhId, jobKey>>
  /\ UNCHANGED <<rowKey, keyRow, phase, toResume, pool, disp, admin, cancelling, count>>

-----------------------------------------------------------------------------
(* The oldest task of a set, and the goroutine of a task.                  *)

LEMMA MinimumExists ==
  ASSUME NEW S \in SUBSET Tasks, S # {}
  PROVE  \E x \in S : \A y \in S : x <= y
<1> DEFINE Upto(x) == {y \in S : y <= x}
           T == {Upto(x) : x \in S}
<1>1. IsFiniteSet(S) /\ S \subseteq Nat
  BY TasksAreIds, FS_Subset
<1>2. IsWellFoundedOn(StrictSubsetOrdering(S), SUBSET S)
  BY <1>1, FS_StrictSubsetOrderingWellFounded, FS_FiniteSubsetsOfFinite
<1>3. T \subseteq SUBSET S /\ T # {}
  OBVIOUS
<1>4. PICK D \in T : \A E \in T : <<E, D>> \notin StrictSubsetOrdering(S)
  <2> HIDE DEF T
  <2> QED
    BY <1>2, <1>3, WFMin
<1>5. PICK x \in S : D = Upto(x)
  BY <1>4
<1>6. ASSUME NEW y \in S, y < x PROVE FALSE
  <2>1. Upto(y) \subseteq Upto(x)
    <3> SUFFICES ASSUME NEW z \in S, z <= y PROVE z <= x
      OBVIOUS
    <3>1. x \in Nat /\ y \in Nat /\ z \in Nat
      BY <1>1
    <3> QED
      BY <1>6, <3>1
  <2>2. x \in Upto(x) /\ x \notin Upto(y)
    BY <1>1, <1>6
  <2>3. Upto(y) \in T /\ Upto(y) \in SUBSET S /\ Upto(x) \in SUBSET S
    OBVIOUS
  <2>4. <<Upto(y), Upto(x)>> \in StrictSubsetOrdering(S)
    <3> HIDE DEF Upto
    <3> QED
      BY <2>1, <2>2, <2>3 DEF StrictSubsetOrdering
  <2> QED
    BY <1>4, <1>5, <2>3, <2>4
<1> QED
  BY <1>1, <1>6

\* The oldest task of a batch is one of it.
LEMMA FirstIn ==
  \A S \in SUBSET Tasks : S # {} => First(S) \in S
BY MinimumExists DEF First

LEMMA NoRecs ==
  NoProc \in ProcRecs /\ NoProc.pc = "none"
BY DEF NoProc, ProcRecs, ProcPcs

LEMMA TaskMoves ==
  ASSUME Typed, NEW t \in Tasks, TaskStep(t)
  PROVE  \E r \in ProcRecs, s \in Statuses : Moves(t, r, s)
<1>1. proc \in [Tasks -> ProcRecs] /\ status \in [Tasks -> Statuses] /\ rhId \in [Tasks -> Nat]
  BY DEF Typed, TypeOK, ProcRecs
<1>2. PICK q \in ProcRecs : q = proc[t]
  BY <1>1
<1>3. PICK s0 \in Statuses : s0 = status[t]
  BY <1>1
<1>4. UNCHANGED status => status' = [status EXCEPT ![t] = s0]
  BY <1>1, <1>3
<1> DEFINE On(r) ==
             /\ proc' = [proc EXCEPT ![t] = r]
             /\ r.pc # "none" => r.w = q.w
             /\ r.pc = "record" => r.job # 0
<1>5. ASSUME proc[t].pc # "none", \E r \in ProcRecs : On(r),
             UNCHANGED <<db, jobKey, phase, toResume, pool, disp, admin, cancelling, count>>
      PROVE  \E r \in ProcRecs, s \in Statuses : Moves(t, r, s)
  <2>1. PICK r \in ProcRecs : On(r)
    BY <1>5
  <2>2. Moves(t, r, s0)
    BY <1>1, <1>2, <1>3, <1>4, <1>5, <2>1 DEF Moves, db
  <2> QED
    BY <2>2
<1>6. ASSUME NEW pc \in {"create", "recheck", "poll", "query", "succeed", "fail"}
      PROVE  /\ Goto(t, pc) => \E r \in ProcRecs : On(r)
             /\ SetProc(t, [proc[t] EXCEPT !.pc = pc, !.n = @ + 1]) => \E r \in ProcRecs : On(r)
  <2>1. PICK r : r = [q EXCEPT !.pc = pc]
    OBVIOUS
  <2>2. PICK r2 : r2 = [q EXCEPT !.pc = pc, !.n = @ + 1]
    OBVIOUS
  <2>3. r \in ProcRecs /\ r.pc = pc /\ r.w = q.w
    BY <2>1 DEF ProcRecs, ProcPcs
  <2>4. r2 \in ProcRecs /\ r2.pc = pc /\ r2.w = q.w
    <3>1. q.n \in Nat /\ q.n + 1 \in Nat
      BY DEF ProcRecs
    <3>2. r2 = [q EXCEPT !.pc = pc, !.n = q.n + 1]
      BY <2>2
    <3> QED
      BY <3>1, <3>2 DEF ProcRecs, ProcPcs
  <2>5. proc[t].n = q.n
    BY <1>2
  <2> QED
    BY <1>2, <2>1, <2>2, <2>3, <2>4, <2>5 DEF Goto, SetProc
<1>7. Done(t) => \E r \in ProcRecs : On(r)
  BY NoRecs DEF Done, SetProc
<1>8. RetryOrFail(t) => \E r \in ProcRecs : On(r)
  BY <1>6 DEF RetryOrFail
<1> HIDE DEF On
<1>9. CASE LoadRow(t)
  BY <1>5, <1>6, <1>7, <1>9 DEF LoadRow, hub
<1>10. CASE CreateAccepted(t)
  <2>1. PICK j \in Nat \ {0} : j = jobs[t] + 1
    BY DEF Typed, TypeOK
  <2>2. PICK r : r = [q EXCEPT !.pc = "record", !.job = j]
    OBVIOUS
  <2>3. r \in ProcRecs /\ r.pc = "record" /\ r.w = q.w /\ r.job # 0
    BY <2>1, <2>2 DEF ProcRecs, ProcPcs
  <2>4. On(r)
    BY <1>2, <1>10, <2>1, <2>2, <2>3 DEF CreateAccepted, SetProc, On
  <2> QED
    BY <1>5, <1>10, <2>3, <2>4 DEF CreateAccepted
<1>11. CASE CreateAnswerLost(t) \/ CreateRefused(t)
  BY <1>5, <1>6, <1>8, <1>11 DEF CreateAnswerLost, CreateRefused, hub
<1>12. CASE Recheck(t)
  BY <1>5, <1>6, <1>7, <1>12 DEF Recheck, hub
<1>13. CASE RecordRunning(t)
  <2>1. PICK r : r = [q EXCEPT !.pc = "poll", !.n = 0]
    OBVIOUS
  <2>2. r \in ProcRecs /\ r.pc = "poll" /\ r.w = q.w /\ r.job = q.job
    BY <2>1 DEF ProcRecs, ProcPcs
  <2>3. q.job # 0
    BY <1>2, <1>13 DEF RecordRunning, Typed, Shape
  <2>4. /\ proc' = [proc EXCEPT ![t] = r] /\ status' = [status EXCEPT ![t] = "RUNNING"]
        /\ rhId' = [rhId EXCEPT ![t] = q.job]
        /\ jobKey' = [jobKey EXCEPT ![t] = KeyOf(proc[t].w)]
    BY <1>2, <1>13, <2>1 DEF RecordRunning, SetProc, SetStatus
  <2>5. "RUNNING" \in Statuses
    BY DEF Statuses
  <2>6. Moves(t, r, "RUNNING")
    BY <1>1, <1>2, <1>13, <2>2, <2>3, <2>4 DEF RecordRunning, Moves
  <2> QED
    BY <2>2, <2>5, <2>6
<1>14. CASE PollTick(t) \/ PollQuit(t)
  BY <1>5, <1>6, <1>7, <1>14 DEF PollTick, PollQuit, hub
<1>15. CASE PollQuery(t)
  BY <1>5, <1>6, <1>15 DEF PollQuery, hub
<1>16. CASE WriteResult(t)
  <2>1. PICK s \in Statuses : status' = [status EXCEPT ![t] = s] /\ s \in {"SUCCESS", "FAILED"}
    BY <1>16 DEF WriteResult, SetStatus, Statuses
  <2>2. proc' = [proc EXCEPT ![t] = NoProc]
    BY <1>16 DEF WriteResult, SetProc, Done
  <2>3. Moves(t, NoProc, s)
    BY <1>1, <1>16, <2>1, <2>2, NoRecs DEF WriteResult, Moves, hub
  <2> QED
    BY <2>3, NoRecs
<1> QED
  BY <1>9, <1>10, <1>11, <1>12, <1>13, <1>14, <1>15, <1>16 DEF TaskStep

-----------------------------------------------------------------------------
(* Types and shapes.                                                       *)

LEMMA InitTyped == Init => Typed
<1> SUFFICES ASSUME Init PROVE Typed
  OBVIOUS
<1>1. /\ status \in [Tasks -> Statuses] /\ rowKey \in [Tasks -> Keys \cup {None}]
      /\ rhId \in [Tasks -> Nat] /\ keyRow \in [Keys -> {"absent", "active", "inactive", "deleted"}]
      /\ jobs \in [Tasks -> Nat] /\ lost \in [Tasks -> Nat]
      /\ jobKey \in [Tasks -> Keys \cup {None}]
  BY DEF Init, Statuses
<1>2. gen \in [Keys -> 0..MaxKeyChanges] /\ restarts \in 0..MaxRestarts
      /\ keyChanges \in 0..MaxKeyChanges
  BY BoundsAssumption DEF Init
<1>3. chan \in [Workers -> Seq(Tasks)]
  BY EmptySeq DEF Init
<1>4. proc \in [Tasks -> ProcRecs]
  BY NoRecs DEF Init
<1>5. /\ disp \in [pc : {"idle", "list", "send", "mark"}, batch : SUBSET Tasks,
                   avail : SUBSET Workers, w : Workers \cup {None}]
      /\ admin \in [pc : {"idle", "lock", "drain", "add", "row"},
                    op : {"none", "restart", "stop", "delete"}, key : Keys \cup {None}]
  BY DEF Init, NoDisp, NoAdmin
<1>6. TypeOK
  BY <1>1, <1>2, <1>3, <1>4, <1>5 DEF Init, TypeOK, ProcRecs
<1>7. Shape /\ Generations
  BY BoundsAssumption DEF Init, Shape, Generations, NoDisp, NoAdmin, NoProc
<1> QED
  BY <1>6, <1>7 DEF Typed

\* A record, or a channel, that does not change keeps its type.
LEMMA RecordsKept ==
  ASSUME Typed
  PROVE  /\ UNCHANGED proc => proc' \in [Tasks -> ProcRecs]
         /\ UNCHANGED disp => disp' \in DispRecs
         /\ UNCHANGED admin => admin' \in AdminRecs
         /\ UNCHANGED chan => chan' \in [Workers -> Seq(Tasks)]
BY DEF Typed, TypeOK, ProcRecs, DispRecs, AdminRecs

LEMMA MovesTyped ==
  ASSUME Typed, NEW t \in Tasks, NEW r \in ProcRecs, NEW s \in Statuses, Moves(t, r, s),
         jobs' \in [Tasks -> Nat], lost' \in [Tasks -> Nat], rhId' \in [Tasks -> Nat]
  PROVE  Typed'
<1>1. /\ proc' \in [Tasks -> ProcRecs] /\ status' \in [Tasks -> Statuses]
      /\ \A u \in Tasks : proc'[u] = proc[u] \/ proc'[u] = r
  BY DEF Typed, TypeOK, Moves, ProcRecs
<1>2. TypeOK'
  <2>1. /\ UNCHANGED <<rowKey, keyRow, phase, toResume, gen, live, quit, exited, chan, disp>>
        /\ UNCHANGED <<admin, cancelling, restarts, keyChanges>>
    BY DEF Moves, pool, count
  <2>2. disp' \in DispRecs /\ admin' \in AdminRecs /\ chan' \in [Workers -> Seq(Tasks)]
    BY <2>1, RecordsKept
  <2>3. proc' \in [Tasks -> ProcRecs] /\ status' \in [Tasks -> Statuses]
    BY <1>1
  <2>4. jobKey' \in [Tasks -> Keys \cup {None}]
    <3>1. proc[t].w \in Workers
      BY DEF Moves, Typed, Shape
    <3>2. KeyOf(proc[t].w) \in Keys
      BY <3>1 DEF Workers, KeyOf
    <3>3. jobKey' = jobKey \/ jobKey' = [jobKey EXCEPT ![t] = KeyOf(proc[t].w)]
      BY DEF Moves
    <3> QED
      BY <3>2, <3>3 DEF Typed, TypeOK
  <2> QED
    BY <2>1, <2>2, <2>3, <2>4 DEF Typed, TypeOK, ProcRecs, DispRecs, AdminRecs
<1>3. Shape'
  BY <1>1 DEF Typed, Shape, Moves
<1>4. Generations'
  BY DEF Typed, Generations, Moves, pool, count
<1> QED
  BY <1>2, <1>3, <1>4 DEF Typed

LEMMA TaskTyped ==
  ASSUME Typed, NEW t \in Tasks, TaskStep(t) PROVE Typed'
<1>1. PICK r \in ProcRecs, s \in Statuses : Moves(t, r, s)
  BY TaskMoves
<1>2. jobs \in [Tasks -> Nat] /\ lost \in [Tasks -> Nat] /\ rhId \in [Tasks -> Nat]
  BY DEF Typed, TypeOK
<1>3. jobs' \in [Tasks -> Nat] /\ lost' \in [Tasks -> Nat]
  <2>1. /\ jobs' = jobs \/ jobs' = [jobs EXCEPT ![t] = @ + 1]
        /\ lost' = lost \/ lost' = [lost EXCEPT ![t] = @ + 1]
    BY DEF TaskStep, LoadRow, CreateAccepted, CreateAnswerLost, CreateRefused,
       Recheck, RecordRunning, PollTick, PollQuit, PollQuery, WriteResult, hub
  <2> QED
    BY <1>2, <2>1
<1>4. proc[t].job \in Nat
  BY DEF Typed, TypeOK
<1>5. rhId' \in [Tasks -> Nat]
  BY <1>2, <1>4 DEF TaskStep, LoadRow, CreateAccepted, CreateAnswerLost, CreateRefused,
     Recheck, RecordRunning, PollTick, PollQuit, PollQuery, WriteResult, db
<1> QED
  BY <1>1, <1>3, <1>5, MovesTyped

LEMMA BootTyped == ASSUME Typed, BootStep PROVE Typed'
<1>1. CASE Boot
  <2>1. status' \in [Tasks -> Statuses]
    BY <1>1 DEF Boot, Typed, TypeOK, Statuses
  <2>2. live' \subseteq Workers /\ toResume' \subseteq Tasks
    BY <1>1, BoundsAssumption DEF Boot, Workers, Having
  <2>3. TypeOK'
    BY <1>1, <2>1, <2>2 DEF Boot, Typed, TypeOK, hub, count
  <2> QED
    BY <1>1, <2>3 DEF Boot, Typed, Shape, Generations, count
<1>2. CASE ResumeNext
  <2>1. PICK t : t = First(toResume)
    OBVIOUS
  <2>2. t \in Tasks
    BY <1>2, <2>1, FirstIn DEF ResumeNext, Typed, TypeOK
  <2>3. status' \in [Tasks -> Statuses]
    BY <1>2 DEF ResumeNext, SetStatus, Typed, TypeOK, Statuses
  <2>4. CASE UNCHANGED proc
    <3>1. /\ toResume' \subseteq toResume /\ phase' = phase
          /\ UNCHANGED <<rowKey, rhId, keyRow, jobs, lost, jobKey, gen, live, quit, exited>>
          /\ UNCHANGED <<chan, disp, admin, cancelling, restarts, keyChanges>>
      BY <1>2 DEF ResumeNext, hub, count, pool
    <3>2. TypeOK'
      BY <2>3, <2>4, <3>1 DEF Typed, TypeOK
    <3> QED
      BY <2>4, <3>1, <3>2 DEF Typed, Shape, Generations
  <2>5. CASE ~UNCHANGED proc
    <3>1. PICK w \in Workers :
            proc' = [proc EXCEPT ![t] = [pc |-> "poll", w |-> w, n |-> 0, job |-> rhId[t]]]
      BY <1>2, <2>1, <2>5 DEF ResumeNext, WorkersOf, Typed, TypeOK
    <3>2. PICK r : r = [pc |-> "poll", w |-> w, n |-> 0, job |-> rhId[t]]
      OBVIOUS
    <3>3. r \in ProcRecs /\ r.pc = "poll" /\ r.w \in Workers
      BY <2>2, <3>2 DEF ProcRecs, ProcPcs, Typed, TypeOK
    <3>4. proc' \in [Tasks -> ProcRecs] /\ \A u \in Tasks : proc'[u] = proc[u] \/ proc'[u] = r
      BY <3>1, <3>2, <3>3 DEF Typed, TypeOK, ProcRecs
    <3>5. /\ toResume' \subseteq toResume /\ phase' = phase
          /\ UNCHANGED <<rowKey, rhId, keyRow, jobs, lost, jobKey, gen, live, quit, exited>>
          /\ UNCHANGED <<chan, disp, admin, cancelling, restarts, keyChanges>>
      BY <1>2 DEF ResumeNext, hub, count, pool
    <3>6. TypeOK'
      <4>1. disp' \in DispRecs /\ admin' \in AdminRecs /\ chan' \in [Workers -> Seq(Tasks)]
        BY <3>5, RecordsKept
      <4>2. proc' \in [Tasks -> ProcRecs]
        BY <3>4
      <4> QED
        BY <2>3, <3>5, <4>1, <4>2 DEF Typed, TypeOK, ProcRecs, DispRecs, AdminRecs
    <3> QED
      BY <3>3, <3>4, <3>5, <3>6 DEF Typed, Shape, Generations
  <2> QED
    BY <2>4, <2>5
<1>3. CASE StartDispatch
  <2>1. TypeOK'
    BY <1>3 DEF StartDispatch, Typed, TypeOK, db, hub, count, pool
  <2> QED
    BY <1>3, <2>1 DEF StartDispatch, Typed, Shape, Generations, count, pool
<1> QED
  BY <1>1, <1>2, <1>3 DEF BootStep

LEMMA NoDispRec == NoDisp \in DispRecs /\ NoDisp.pc = "idle" /\ NoDisp.batch = {} /\ NoDisp.avail = {}
BY DEF NoDisp, DispRecs

\* The batch loses its oldest task.
LEMMA AdvanceShape ==
  ASSUME disp \in DispRecs, NEW w
  PROVE  /\ Advance(w) \in DispRecs
         /\ Advance(w).pc \in {"idle", "send"}
         /\ Advance(w).pc = "idle" <=> Advance(w).batch = {}
         /\ Advance(w).pc = "idle" => Advance(w) = NoDisp
         /\ Advance(w).batch \subseteq disp.batch \ {First(disp.batch)}
         /\ Advance(w).avail \subseteq disp.avail
         /\ w \in Advance(w).avail => Available(w)
<1> DEFINE batch == disp.batch \ {First(disp.batch)}
           avail == IF Available(w) THEN disp.avail ELSE disp.avail \ {w}
<1>1. batch \subseteq Tasks /\ avail \subseteq Workers /\ avail \subseteq disp.avail
  BY DEF DispRecs
<1>2. CASE batch = {} \/ avail = {}
  BY <1>2, NoDispRec DEF Advance
<1>3. CASE ~(batch = {} \/ avail = {})
  <2>1. Advance(w) = [pc |-> "send", batch |-> batch, avail |-> avail, w |-> None]
    BY <1>3 DEF Advance
  <2> QED
    BY <1>1, <1>3, <2>1 DEF DispRecs
<1> QED
  BY <1>2, <1>3


LEMMA DispatchTyped == ASSUME Typed, DispatchStep PROVE Typed'
<1>1. disp \in DispRecs
  BY DEF Typed, TypeOK, DispRecs
<1>2. ASSUME disp' \in DispRecs, chan' \in [Workers -> Seq(Tasks)],
             status' \in [Tasks -> Statuses], rowKey' \in [Tasks -> Keys \cup {None}],
             disp'.pc = "idle" => disp'.batch = {},
             disp'.pc # "idle" => disp'.batch # {},
             disp'.pc = "mark" => disp'.w \in disp'.avail,
             UNCHANGED <<rhId, keyRow, hub, phase, toResume, gen, live, quit, exited, proc,
                         admin, cancelling, count>>
      PROVE  Typed'
  <2>1. TypeOK'
    BY <1>2 DEF Typed, TypeOK, DispRecs, hub, count
  <2> QED
    BY <1>2, <2>1 DEF Typed, Shape, Generations, count
<1>3. /\ chan \in [Workers -> Seq(Tasks)]
      /\ status \in [Tasks -> Statuses] /\ rowKey \in [Tasks -> Keys \cup {None}]
  BY DEF Typed, TypeOK
<1>4. CASE DispatchQuery
  <2>1. PICK b : b = disp'.batch
    OBVIOUS
  <2>2. disp' = [NoDisp EXCEPT !.pc = "list", !.batch = b]
    BY <1>4, <2>1 DEF DispatchQuery, NoDisp
  <2>3. b \subseteq Tasks
    BY <1>4, <2>1 DEF DispatchQuery, NoDisp, Having
  <2>4. b # {}
    <3>1. PICK x \in Having("PENDING") : \A y \in Having("PENDING") : x <= y
      BY <1>4, MinimumExists DEF DispatchQuery, Having
    <3>2. {u \in Having("PENDING") : u < x} = {}
      <4>1. x \in Nat /\ Having("PENDING") \subseteq Nat
        BY TasksAreIds DEF Having
      <4> QED
        BY <3>1, <4>1
    <3>3. Cardinality({u \in Having("PENDING") : u < x}) = 0
      BY <3>2, FS_EmptySet
    <3>4. x \in b
      BY <1>4, <2>1, <3>1, <3>3, BoundsAssumption DEF DispatchQuery, NoDisp
    <3> QED
      BY <3>4
  <2>5. disp' \in DispRecs /\ disp'.pc = "list"
    BY <2>2, <2>3 DEF DispRecs, NoDisp
  <2> QED
    BY <1>2, <1>3, <1>4, <2>1, <2>4, <2>5 DEF DispatchQuery, db, pool
<1>5. CASE DispatchList
  <2>1. PICK av : av = {w \in live : Available(w)}
    OBVIOUS
  <2>2. av \subseteq Workers
    BY <2>1 DEF Typed, TypeOK
  <2>3. disp' = NoDisp \/ disp' = [disp EXCEPT !.pc = "send", !.avail = av]
    BY <1>5, <2>1 DEF DispatchList
  <2>4. /\ disp' \in DispRecs
        /\ disp' = NoDisp \/ (disp'.pc = "send" /\ disp'.batch = disp.batch)
    BY <1>1, <2>2, <2>3, NoDispRec DEF DispRecs
  <2>5. disp.batch # {}
    BY <1>5 DEF DispatchList, Typed, Shape
  <2> QED
    BY <1>2, <1>3, <1>5, <2>4, <2>5, NoDispRec DEF DispatchList, db, pool
<1>6. ASSUME NEW w \in Workers, DispatchSend(w) PROVE Typed'
  <2>1. disp.batch # {} /\ First(disp.batch) \in Tasks
    BY <1>1, <1>6, FirstIn DEF DispatchSend, Typed, Shape, DispRecs
  <2>2. CASE disp' = Advance(w) /\ UNCHANGED chan
    BY <1>1, <1>2, <1>3, <1>6, <2>2, AdvanceShape DEF DispatchSend, db
  <2>3. CASE /\ chan' = [chan EXCEPT ![w] = Append(@, First(disp.batch))]
             /\ disp' = [disp EXCEPT !.pc = "mark", !.w = w]
    <3>1. chan' \in [Workers -> Seq(Tasks)]
      BY <1>3, <2>1, <2>3, AppendProperties
    <3>2. /\ disp' \in DispRecs /\ disp'.pc = "mark" /\ disp'.w = w
          /\ disp'.batch = disp.batch /\ disp'.avail = disp.avail
      BY <1>1, <2>3 DEF DispRecs
    <3>3. w \in disp.avail
      BY <1>6 DEF DispatchSend
    <3> QED
      BY <1>2, <1>3, <1>6, <2>1, <3>1, <3>2, <3>3 DEF DispatchSend, db
  <2> QED
    BY <1>6, <2>2, <2>3 DEF DispatchSend
<1>7. CASE DispatchMark
  <2>1. disp.w \in Workers
    BY <1>7 DEF DispatchMark, Typed, TypeOK, Shape
  <2>2. KeyOf(disp.w) \in Keys
    BY <2>1 DEF KeyOf, Workers
  <2>3. status' \in [Tasks -> Statuses] /\ rowKey' \in [Tasks -> Keys \cup {None}]
    BY <1>3, <1>7, <2>2 DEF DispatchMark, SetStatus, Statuses
  <2>4. disp' = Advance(disp.w)
    BY <1>7 DEF DispatchMark
  <2> QED
    BY <1>1, <1>2, <1>3, <1>7, <2>3, <2>4, AdvanceShape DEF DispatchMark, pool
<1> QED
  BY <1>4, <1>5, <1>6, <1>7 DEF DispatchStep

LEMMA RunTyped ==
  ASSUME Typed, NEW w \in Workers, RunStart(w) \/ RunExit(w) PROVE Typed'
<1>1. CASE RunStart(w)
  <2>1. PICK r : r = [NoProc EXCEPT !.pc = "load", !.w = w]
    OBVIOUS
  <2>2. r \in ProcRecs /\ r.pc = "load" /\ r.w \in Workers
    BY <2>1 DEF NoProc, ProcRecs, ProcPcs
  <2>3. /\ proc' \in [Tasks -> ProcRecs]
        /\ \A u \in Tasks : proc'[u] = proc[u] \/ proc'[u] = r
    BY <1>1, <2>1, <2>2 DEF RunStart, SetProc, Typed, TypeOK, ProcRecs
  <2>4. chan' \in [Workers -> Seq(Tasks)]
    BY <1>1, HeadTailProperties DEF RunStart, Typed, TypeOK
  <2>5. /\ UNCHANGED <<status, rowKey, rhId, keyRow, jobs, lost, jobKey, phase, toResume, gen>>
        /\ UNCHANGED <<live, quit, exited, disp, admin, cancelling, restarts, keyChanges>>
    BY <1>1 DEF RunStart, db, hub, count
  <2>6. TypeOK'
    <3>1. disp' \in DispRecs /\ admin' \in AdminRecs /\ proc' \in [Tasks -> ProcRecs]
      BY <2>3, <2>5, RecordsKept
    <3> QED
      BY <2>4, <2>5, <3>1 DEF Typed, TypeOK, ProcRecs, DispRecs, AdminRecs
  <2> QED
    BY <2>2, <2>3, <2>5, <2>6 DEF Typed, Shape, Generations
<1>2. CASE RunExit(w)
  <2>1. TypeOK'
    BY <1>2 DEF RunExit, Typed, TypeOK, db, hub, count
  <2> QED
    BY <1>2, <2>1 DEF RunExit, Typed, Shape, Generations, count
<1> QED
  BY <1>1, <1>2

LEMMA RequestTyped ==
  ASSUME Typed, NEW t \in Tasks, Submit(t) \/ CancelCheck(t) \/ CancelWrite(t) PROVE Typed'
<1>1. status' \in [Tasks -> Statuses] /\ cancelling' \subseteq Tasks
  BY DEF Submit, CancelCheck, CancelWrite, SetStatus, Typed, TypeOK, Statuses, db
<1>2. /\ UNCHANGED <<rowKey, rhId, keyRow, jobs, lost, jobKey, phase, toResume, gen, live, quit>>
      /\ UNCHANGED <<exited, chan, proc, disp, admin, restarts, keyChanges>>
  BY DEF Submit, CancelCheck, CancelWrite, db, hub, pool, count
<1>3. TypeOK'
  <2>1. /\ disp' \in DispRecs /\ admin' \in AdminRecs
        /\ proc' \in [Tasks -> ProcRecs] /\ chan' \in [Workers -> Seq(Tasks)]
    BY <1>2, RecordsKept
  <2> QED
    BY <1>1, <1>2, <2>1 DEF Typed, TypeOK, ProcRecs, DispRecs, AdminRecs
<1> QED
  BY <1>2, <1>3 DEF Typed, Shape, Generations

LEMMA KeyRequestTyped == ASSUME Typed, NEW k \in Keys, KeyRequest(k) PROVE Typed'
<1>1. /\ admin' \in AdminRecs /\ admin'.key = k /\ keyChanges' = keyChanges + 1
      /\ keyChanges < MaxKeyChanges
  BY DEF KeyRequest, CreateKey, UpdateKey, DeleteKey, NewKeyRequest, AdminRecs
<1>2. keyRow' \in [Keys -> {"absent", "active", "inactive", "deleted"}]
  BY DEF KeyRequest, CreateKey, UpdateKey, DeleteKey, Typed, TypeOK, db
<1>3. UNCHANGED <<status, rowKey, rhId, hub, phase, toResume, pool, proc, disp,
                  cancelling, restarts>>
  BY DEF KeyRequest, CreateKey, UpdateKey, DeleteKey, db
<1>4. keyChanges \in Nat /\ keyChanges' \in 0..MaxKeyChanges /\ gen \in [Keys -> Nat]
  BY <1>1, BoundsAssumption DEF Typed, TypeOK
<1>5. TypeOK'
  BY <1>1, <1>2, <1>3, <1>4 DEF Typed, TypeOK, AdminRecs, hub, pool
<1> QED
  BY <1>1, <1>3, <1>4, <1>5 DEF Typed, Shape, Generations, pool

LEMMA AfterRemoveShape ==
  ASSUME admin \in AdminRecs
  PROVE  /\ AfterRemove \in AdminRecs
         /\ AfterRemove.pc \in {"idle", "add", "row"}
         /\ AfterRemove.pc # "idle" => AfterRemove.key = admin.key
<1>1. CASE admin.op = "restart"
  BY <1>1 DEF AfterRemove, AdminRecs
<1>2. CASE admin.op = "delete"
  BY <1>2 DEF AfterRemove, AdminRecs
<1>3. CASE admin.op \notin {"restart", "delete"}
  BY <1>3 DEF AfterRemove, AdminRecs, NoAdmin
<1> QED
  BY <1>1, <1>2, <1>3

LEMMA KeyTyped == ASSUME Typed, KeyStep PROVE Typed'
<1>1. admin \in AdminRecs
  BY DEF Typed, TypeOK, AdminRecs
<1>2. NoAdmin \in AdminRecs /\ NoAdmin.pc = "idle"
  BY DEF NoAdmin, AdminRecs
<1>3. /\ [admin EXCEPT !.pc = "drain"] \in AdminRecs
      /\ [admin EXCEPT !.pc = "drain"].pc = "drain"
      /\ [admin EXCEPT !.pc = "drain"].key = admin.key
  BY <1>1 DEF AdminRecs
<1>4. CASE RemoveWorkerLock \/ RemoveWorkerDrained
  <2>1. /\ admin.pc \in {"lock", "drain"} /\ admin' \in AdminRecs
        /\ admin'.pc # "idle" => admin'.key = admin.key
    BY <1>1, <1>2, <1>3, <1>4, AfterRemoveShape DEF RemoveWorkerLock, RemoveWorkerDrained
  <2>2. /\ live' \subseteq Workers /\ quit' \subseteq Workers /\ exited' \subseteq quit'
    BY <1>4 DEF RemoveWorkerLock, RemoveWorkerDrained, Typed, TypeOK, WorkersOf
  <2>3. UNCHANGED <<db, hub, phase, toResume, gen, chan, proc, disp, cancelling, count>>
    BY <1>4 DEF RemoveWorkerLock, RemoveWorkerDrained
  <2>4. TypeOK'
    BY <2>1, <2>2, <2>3 DEF Typed, TypeOK, AdminRecs, db, hub, count
  <2> QED
    BY <2>1, <2>3, <2>4 DEF Typed, Shape, Generations, count
<1>5. CASE AddWorker
  <2>1. PICK k \in Keys : k = admin.key
    BY <1>5 DEF AddWorker, Typed, Shape
  <2>2. gen \in [Keys -> Nat] /\ gen[k] < keyChanges /\ keyChanges \in 0..MaxKeyChanges
    BY <1>5 DEF AddWorker, Typed, TypeOK, Generations
  <2>3. PICK g : gen' = [gen EXCEPT ![k] = g] /\ g \in {gen[k], gen[k] + 1}
                 /\ live' = (live \ WorkersOf(k)) \cup {<<k, g>>}
    BY <1>5, <2>1 DEF AddWorker
  <2>4. g \in 0..MaxKeyChanges /\ g <= keyChanges
    BY <2>2, <2>3, BoundsAssumption
  <2>5. live' \subseteq Workers
    BY <2>3, <2>4 DEF Typed, TypeOK, Workers
  <2>6. gen' \in [Keys -> 0..MaxKeyChanges] /\ \A j \in Keys : gen'[j] <= keyChanges
    BY <2>2, <2>3, <2>4 DEF Typed, TypeOK, Generations
  <2>7. TypeOK'
    BY <1>2, <1>5, <2>5, <2>6 DEF AddWorker, Typed, TypeOK, AdminRecs, db, hub, count
  <2> QED
    BY <1>2, <1>5, <2>6, <2>7 DEF AddWorker, Typed, Shape, Generations, count
<1>6. CASE DeleteRow
  <2>1. keyRow' \in [Keys -> {"absent", "active", "inactive", "deleted"}]
    BY <1>6 DEF DeleteRow, Typed, TypeOK
  <2>2. TypeOK'
    BY <1>2, <1>6, <2>1 DEF DeleteRow, Typed, TypeOK, AdminRecs, hub, pool, count
  <2> QED
    BY <1>2, <1>6, <2>2 DEF DeleteRow, Typed, Shape, Generations, pool, count
<1> QED
  BY <1>4, <1>5, <1>6 DEF KeyStep

LEMMA LossTyped ==
  ASSUME Typed, LoseMemory, UNCHANGED <<db, hub, keyChanges>>, restarts' \in 0..MaxRestarts
  PROVE  Typed'
<1>1. /\ gen' \in [Keys -> 0..MaxKeyChanges] /\ \A k \in Keys : gen'[k] <= keyChanges
  BY BoundsAssumption DEF LoseMemory, Typed, TypeOK
<1>2. chan' \in [Workers -> Seq(Tasks)]
  BY EmptySeq DEF LoseMemory
<1>3. proc' \in [Tasks -> ProcRecs] /\ \A t \in Tasks : proc'[t].pc = "none"
  BY NoRecs DEF LoseMemory
<1>4. disp' \in DispRecs /\ disp'.pc = "idle" /\ disp'.batch = {}
  BY NoDispRec DEF LoseMemory
<1>5. admin' \in AdminRecs /\ admin'.pc = "idle"
  BY DEF LoseMemory, NoAdmin, AdminRecs
<1>6. TypeOK'
  BY <1>1, <1>2, <1>3, <1>4, <1>5
  DEF LoseMemory, Typed, TypeOK, db, hub, ProcRecs, DispRecs, AdminRecs
<1> QED
  BY <1>1, <1>3, <1>4, <1>5, <1>6 DEF Typed, Shape, Generations

LEMMA StopTyped == ASSUME Typed, StopBegin \/ StopStep \/ Crash PROVE Typed'
<1>1. ASSUME restarts < MaxRestarts PROVE restarts + 1 \in 0..MaxRestarts
  BY <1>1, BoundsAssumption DEF Typed, TypeOK
<1>2. CASE StopBegin \/ (\E w \in Workers : StopWorker(w)) \/ StopEnd
  <2>1. restarts' \in 0..MaxRestarts /\ phase' \in {"stopping", "stopped"}
    BY <1>1, <1>2 DEF StopBegin, StopWorker, StopEnd, count, Typed, TypeOK
  <2>2. quit' \subseteq Workers /\ exited' \subseteq quit'
    BY <1>2 DEF StopBegin, StopWorker, StopEnd, pool, Typed, TypeOK
  <2>3. /\ UNCHANGED <<status, rowKey, rhId, keyRow, jobs, lost, jobKey, toResume, gen, live, chan>>
        /\ UNCHANGED <<proc, disp, admin, cancelling, keyChanges>>
    BY <1>2 DEF StopBegin, StopWorker, StopEnd, db, hub, pool, count
  <2>4. TypeOK'
    <3>1. /\ disp' \in DispRecs /\ admin' \in AdminRecs
          /\ proc' \in [Tasks -> ProcRecs] /\ chan' \in [Workers -> Seq(Tasks)]
      BY <2>3, RecordsKept
    <3> QED
      BY <2>1, <2>2, <2>3, <3>1 DEF Typed, TypeOK, ProcRecs, DispRecs, AdminRecs
  <2> QED
    BY <2>3, <2>4 DEF Typed, Shape, Generations
<1>3. CASE Exit
  BY <1>3, LossTyped DEF Exit, count, Typed, TypeOK
<1>4. CASE Crash
  BY <1>1, <1>4, LossTyped DEF Crash
<1> QED
  BY <1>2, <1>3, <1>4 DEF StopStep

LEMMA StillTyped == ASSUME Typed, UNCHANGED vars PROVE Typed'
<1>1. TypeOK'
  BY DEF vars, Typed, TypeOK
<1> QED
  BY <1>1 DEF vars, Typed, Shape, Generations

LEMMA StepTyped == Typed /\ [Next]_vars => Typed'
BY BootTyped, DispatchTyped, RunTyped, TaskTyped, RequestTyped, KeyRequestTyped, KeyTyped,
   StopTyped, StillTyped
DEF Next

LEMMA TypedInvariance == Spec => []Typed
BY InitTyped, StepTyped, PTL DEF Spec

(***************************************************************************)
(* Every variable keeps its type.                                          *)
(***************************************************************************)
THEOREM TypeCorrect == Spec => []TypeOK
<1>1. Typed => TypeOK
  BY DEF Typed
<1> QED
  BY <1>1, TypedInvariance, PTL

-----------------------------------------------------------------------------
(* What is quiet when.                                                     *)

LEMMA InitQuiet == Init => Quiet
BY DEF Init, Quiet, NoAdmin, NoProc, Processed

LEMMA StepQuiet == Typed /\ Quiet /\ [Next]_vars => Quiet'
<1> SUFFICES ASSUME Typed, Quiet, [Next]_vars PROVE Quiet'
  OBVIOUS
<1>1. CASE Boot
  BY <1>1 DEF Boot, Quiet
<1>2. CASE LoseMemory
  BY <1>2 DEF LoseMemory, Quiet, Processed, NoAdmin, NoProc
<1>3. ASSUME phase' = phase, phase \notin {"down", "resuming"}, UNCHANGED toResume
      PROVE  Quiet'
  BY <1>3 DEF Quiet
<1>4. CASE phase = "down" /\ ~Boot /\ ~LoseMemory
  <2>1. /\ \A t \in Tasks : proc[t].pc = "none"
        /\ disp.pc = "idle" /\ admin.pc = "idle" /\ cancelling = {} /\ quit = {}
        /\ \A w \in Workers : chan[w] = <<>>
    BY <1>4 DEF Quiet, Processed, NoDisp
  <2>2. ~Next
    BY <1>4, <2>1
    DEF Next, BootStep, ResumeNext, StartDispatch, DispatchStep, DispatchQuery, DispatchList,
        DispatchSend, DispatchMark, RunStart, RunExit, TaskStep, LoadRow, CreateAccepted,
        CreateAnswerLost, CreateRefused, Recheck, RecordRunning, PollTick, PollQuit, PollQuery,
        WriteResult, Submit, CancelCheck, CancelWrite, KeyRequest, CreateKey, UpdateKey,
        DeleteKey, NewKeyRequest, KeyStep, RemoveWorkerLock, RemoveWorkerDrained, AddWorker,
        DeleteRow, StopBegin, StopStep, StopWorker, StopEnd, Exit, Crash
  <2> QED
    BY <2>2 DEF vars, Quiet, Processed
<1>5. CASE phase = "resuming" /\ ~LoseMemory
  <2>1. /\ disp.pc = "idle" /\ admin.pc = "idle" /\ cancelling = {} /\ quit = {}
        /\ \A w \in Workers : chan[w] = <<>>
    BY <1>5 DEF Quiet, NoDisp
  <2>2. CASE ResumeNext
    BY <1>5, <2>2 DEF Quiet, ResumeNext, pool
  <2>3. CASE StartDispatch
    BY <2>3 DEF Quiet, StartDispatch
  <2>4. ASSUME NEW t \in Tasks, TaskStep(t) PROVE Quiet'
    <3>1. PICK r \in ProcRecs, s \in Statuses : Moves(t, r, s)
      BY <2>4, TaskMoves
    <3> QED
      BY <1>5, <3>1 DEF Moves, Quiet, pool
  <2>5. ~(Next /\ ~BootStep /\ \A t \in Tasks : ~TaskStep(t))
    BY <1>5, <2>1
    DEF Next, DispatchStep, DispatchQuery, DispatchList, DispatchSend, DispatchMark, RunStart,
        RunExit, Submit, CancelCheck, CancelWrite, KeyRequest, CreateKey, UpdateKey,
        DeleteKey, NewKeyRequest, KeyStep, RemoveWorkerLock, RemoveWorkerDrained, AddWorker,
        DeleteRow, StopBegin, StopStep, StopWorker, StopEnd, Exit, Crash
  <2>6. ~Boot
    BY <1>5 DEF Boot
  <2> QED
    BY <1>5, <2>2, <2>3, <2>4, <2>5, <2>6 DEF BootStep, vars, Quiet, Processed
<1>6. CASE phase \notin {"down", "resuming"} /\ ~LoseMemory
  <2>1. ASSUME NEW t \in Tasks, TaskStep(t) PROVE UNCHANGED <<phase, toResume>>
    BY <2>1, TaskMoves DEF Moves
  <2>2. UNCHANGED toResume /\ phase' \notin {"down", "resuming"}
    BY <1>6, <2>1
    DEF Next, BootStep, Boot, ResumeNext, StartDispatch, DispatchStep, DispatchQuery,
        DispatchList, DispatchSend, DispatchMark, RunStart, RunExit, Submit, CancelCheck,
        CancelWrite, KeyRequest, CreateKey, UpdateKey, DeleteKey, KeyStep, RemoveWorkerLock,
        RemoveWorkerDrained, AddWorker, DeleteRow, StopBegin, StopStep, StopWorker, StopEnd,
        Exit, Crash, vars
  <2> QED
    BY <1>6, <2>2 DEF Quiet
<1> QED
  BY <1>1, <1>2, <1>4, <1>5, <1>6 DEF Typed, TypeOK

-----------------------------------------------------------------------------
(* Channels.                                                               *)

LEMMA ChanFacts ==
  ASSUME Typed, NEW w \in Workers
  PROVE  /\ chan[w] \in Seq(Tasks) /\ Len(chan[w]) \in Nat
         /\ DOMAIN chan[w] = 1..Len(chan[w])
         /\ InChan(w) \subseteq Tasks /\ InChan(w) \subseteq Sent
         /\ chan[w] # <<>> => Head(chan[w]) = chan[w][1] /\ 1 \in DOMAIN chan[w]
<1>1. chan[w] \in Seq(Tasks)
  BY DEF Typed, TypeOK
<1>2. Len(chan[w]) \in Nat /\ DOMAIN chan[w] = 1..Len(chan[w])
  BY <1>1, LenProperties
<1>3. InChan(w) \subseteq Tasks /\ InChan(w) \subseteq Sent
  BY <1>1, <1>2, ElementOfSeq DEF InChan, Sent
<1>4. chan[w] # <<>> => Len(chan[w]) > 0 /\ Head(chan[w]) = chan[w][1]
  BY <1>1
<1> QED
  BY <1>1, <1>2, <1>3, <1>4

\* Dispatch puts a task that is in no channel behind the others.
LEMMA ChanAppend ==
  ASSUME Typed, Once, NEW w \in Workers, NEW t \in Tasks, t \notin Sent,
         chan' = [chan EXCEPT ![w] = Append(@, t)]
  PROVE  /\ Once' /\ Sent' = Sent \cup {t}
         /\ InChan(w)' = InChan(w) \cup {t} /\ Len(chan'[w]) = Len(chan[w]) + 1
         /\ \A v \in Workers \ {w} : chan'[v] = chan[v] /\ InChan(v)' = InChan(v)
<1>1. chan[w] \in Seq(Tasks) /\ DOMAIN chan[w] = 1..Len(chan[w]) /\ Len(chan[w]) \in Nat
  BY ChanFacts
<1>2. chan'[w] = Append(chan[w], t) /\ \A v \in Workers \ {w} : chan'[v] = chan[v]
  BY DEF Typed, TypeOK
<1>3. /\ Len(chan'[w]) = Len(chan[w]) + 1
      /\ \A i \in 1..Len(chan[w]) : chan'[w][i] = chan[w][i]
      /\ chan'[w][Len(chan[w]) + 1] = t /\ chan'[w] \in Seq(Tasks)
  BY <1>1, <1>2, AppendProperties
<1>4. DOMAIN chan'[w] = 1..(Len(chan[w]) + 1)
  BY <1>3, LenProperties
<1>5. DOMAIN chan'[w] = DOMAIN chan[w] \cup {Len(chan[w]) + 1}
  BY <1>1, <1>4
<1>6. \A i \in DOMAIN chan'[w] : (i \in DOMAIN chan[w] /\ chan'[w][i] = chan[w][i])
                                 \/ (i = Len(chan[w]) + 1 /\ chan'[w][i] = t)
  BY <1>1, <1>3, <1>5
<1>7. InChan(w)' = InChan(w) \cup {t}
  BY <1>1, <1>3, <1>5, <1>6 DEF InChan
<1>8. \A v \in Workers \ {w} : InChan(v)' = InChan(v)
  BY <1>2 DEF InChan
<1>9. Sent' = Sent \cup {t}
  BY <1>7, <1>8 DEF Sent
<1>10. \A v \in Workers : \A i \in DOMAIN chan[v] : chan[v][i] # t
  BY DEF Sent, InChan
<1>11. Once'
  <2> SUFFICES ASSUME NEW u \in Workers, NEW v \in Workers,
                      NEW i \in DOMAIN chan'[u], NEW j \in DOMAIN chan'[v],
                      chan'[u][i] = chan'[v][j]
               PROVE  u = v /\ i = j
    BY DEF Once
  <2>1. (i \in DOMAIN chan[u] /\ chan'[u][i] = chan[u][i])
        \/ (u = w /\ i = Len(chan[w]) + 1 /\ chan'[u][i] = t)
    BY <1>2, <1>6
  <2>2. (j \in DOMAIN chan[v] /\ chan'[v][j] = chan[v][j])
        \/ (v = w /\ j = Len(chan[w]) + 1 /\ chan'[v][j] = t)
    BY <1>2, <1>6
  <2> QED
    BY <1>10, <2>1, <2>2 DEF Once
<1> QED
  BY <1>2, <1>3, <1>7, <1>8, <1>9, <1>11

\* A worker takes the task at the head of its channel.
LEMMA ChanTail ==
  ASSUME Typed, Once, NEW w \in Workers, chan[w] # <<>>,
         chan' = [chan EXCEPT ![w] = Tail(@)]
  PROVE  /\ Once' /\ Head(chan[w]) \in InChan(w) /\ Sent' = Sent \ {Head(chan[w])}
         /\ InChan(w)' = InChan(w) \ {Head(chan[w])} /\ Len(chan'[w]) = Len(chan[w]) - 1
         /\ \A v \in Workers \ {w} :
              chan'[v] = chan[v] /\ InChan(v)' = InChan(v) /\ Head(chan[w]) \notin InChan(v)
<1> DEFINE t == chan[w][1]
<1>1. /\ chan[w] \in Seq(Tasks) /\ DOMAIN chan[w] = 1..Len(chan[w]) /\ Len(chan[w]) \in Nat
      /\ 1 \in DOMAIN chan[w] /\ Head(chan[w]) = t
  BY ChanFacts
<1>2. chan'[w] = Tail(chan[w]) /\ \A v \in Workers \ {w} : chan'[v] = chan[v]
  BY DEF Typed, TypeOK
<1>3. /\ Len(chan'[w]) = Len(chan[w]) - 1 /\ chan'[w] \in Seq(Tasks)
      /\ \A i \in 1..Len(chan'[w]) : chan'[w][i] = chan[w][i + 1]
  <2>1. PICK c \in Seq(Tasks) : c = chan[w] /\ c # <<>>
    BY <1>1
  <2>2. /\ Len(Tail(c)) = Len(c) - 1 /\ Tail(c) \in Seq(Tasks)
        /\ \A i \in 1..Len(Tail(c)) : Tail(c)[i] = c[i + 1]
    BY <2>1, HeadTailProperties
  <2> QED
    BY <1>2, <2>1, <2>2
<1>4. DOMAIN chan'[w] = 1..(Len(chan[w]) - 1)
  BY <1>3, LenProperties
<1>5. \A i \in DOMAIN chan'[w] :
        /\ i + 1 \in DOMAIN chan[w] /\ i + 1 # 1 /\ i \in Nat /\ chan'[w][i] = chan[w][i + 1]
  BY <1>1, <1>3, <1>4
<1>6. \A i \in DOMAIN chan[w] : i # 1 => i - 1 \in DOMAIN chan'[w] /\ chan'[w][i - 1] = chan[w][i]
  BY <1>1, <1>3, <1>4
<1>7. \A v \in Workers : \A i \in DOMAIN chan[v] : chan[v][i] = t => v = w /\ i = 1
  BY <1>1 DEF Once
<1>8. InChan(w)' = InChan(w) \ {t}
  <2>1. \A x \in InChan(w)' : x \in InChan(w) \ {t}
    BY <1>5, <1>7 DEF InChan
  <2>2. \A x \in InChan(w) \ {t} : x \in InChan(w)'
    <3> SUFFICES ASSUME NEW x \in InChan(w), x # t PROVE x \in InChan(w)'
      OBVIOUS
    <3>1. PICK i \in DOMAIN chan[w] : x = chan[w][i]
      BY DEF InChan
    <3>2. i # 1
      BY <3>1
    <3> QED
      BY <1>6, <3>1, <3>2 DEF InChan
  <2> QED
    BY <2>1, <2>2
<1>9. \A v \in Workers \ {w} : InChan(v)' = InChan(v) /\ t \notin InChan(v)
  BY <1>2, <1>7 DEF InChan
<1>10. t \in InChan(w) /\ Sent' = Sent \ {t}
  <2>1. t \in InChan(w)
    BY <1>1 DEF InChan
  <2> QED
    BY <1>8, <1>9, <2>1 DEF Sent
<1>11. Once'
  <2> SUFFICES ASSUME NEW u \in Workers, NEW v \in Workers,
                      NEW i \in DOMAIN chan'[u], NEW j \in DOMAIN chan'[v],
                      chan'[u][i] = chan'[v][j]
               PROVE  u = v /\ i = j
    BY DEF Once
  <2>1. u = w => i + 1 \in DOMAIN chan[u] /\ i \in Nat /\ chan'[u][i] = chan[u][i + 1]
    BY <1>5
  <2>2. v = w => j + 1 \in DOMAIN chan[v] /\ j \in Nat /\ chan'[v][j] = chan[v][j + 1]
    BY <1>5
  <2>3. CASE u = w /\ v = w
    <3>1. i + 1 = j + 1
      BY <2>1, <2>2, <2>3 DEF Once
    <3> QED
      BY <2>1, <2>2, <2>3, <3>1
  <2>4. CASE u = w /\ v # w
    BY <1>2, <2>1, <2>4 DEF Once
  <2>5. CASE u # w /\ v = w
    BY <1>2, <2>2, <2>5 DEF Once
  <2>6. CASE u # w /\ v # w
    BY <1>2, <2>6 DEF Once
  <2> QED
    BY <2>3, <2>4, <2>5, <2>6
<1> QED
  BY <1>1, <1>2, <1>3, <1>8, <1>9, <1>10, <1>11

-----------------------------------------------------------------------------
(* Custody, and what the rows say of it.                                   *)

Held == Custody /\ Rows

LEMMA InitHeld == Init => Held
<1> SUFFICES ASSUME Init PROVE Held
  OBVIOUS
<1>1. \A w \in Workers : DOMAIN chan[w] = {}
  BY DEF Init
<1>2. Sent = {} /\ Once
  BY <1>1 DEF Sent, InChan, Once
<1>3. Processed = {} /\ ToSend = {} /\ toResume = {}
  BY DEF Init, Processed, NoProc, ToSend, NoDisp
<1> QED
  BY <1>2, <1>3 DEF Held, Custody, Rows, Init

\* Steps that move no task and write no row's status.
LEMMA StillHeld ==
  ASSUME Held, UNCHANGED <<status, rhId, toResume, chan, proc, disp>> PROVE Held'
<1>1. /\ Once' = Once /\ Sent' = Sent /\ Processed' = Processed /\ ToSend' = ToSend
      /\ \A t : Marking(t)' = Marking(t)
  BY DEF Once, Sent, InChan, Processed, ToSend, Marking
<1> QED
  BY <1>1 DEF Held, Custody, Rows

LEMMA PlacesAreTasks ==
  ASSUME Typed
  PROVE  Sent \subseteq Tasks /\ Processed \subseteq Tasks /\ ToSend \subseteq Tasks /\ toResume \subseteq Tasks
<1>1. Sent \subseteq Tasks
  BY ChanFacts DEF Sent
<1>2. disp.batch \subseteq Tasks /\ toResume \subseteq Tasks
  BY DEF Typed, TypeOK
<1>3. Processed \subseteq Tasks
  BY DEF Processed
<1>4. ToSend \subseteq Tasks
  BY <1>2 DEF ToSend
<1> QED
  BY <1>1, <1>2, <1>3, <1>4

LEMMA MovesHold ==
  ASSUME Typed, NEW t \in Tasks, NEW r \in ProcRecs, NEW s \in Statuses, Moves(t, r, s)
  PROVE  /\ Once' = Once /\ Sent' = Sent /\ ToSend' = ToSend
         /\ \A u \in Tasks : Marking(u)' = Marking(u)
         /\ t \in Processed /\ status'[t] = s /\ proc'[t] = r
         /\ Processed' = IF r.pc = "none" THEN Processed \ {t} ELSE Processed
         /\ \A u \in Tasks \ {t} : status'[u] = status[u] /\ proc'[u] = proc[u]
<1>1. /\ status'[t] = s /\ proc'[t] = r
      /\ \A u \in Tasks \ {t} : status'[u] = status[u] /\ proc'[u] = proc[u]
  BY DEF Moves, Typed, TypeOK
<1>2. UNCHANGED <<chan, disp>>
  BY DEF Moves, pool
<1>3. Once' = Once /\ Sent' = Sent /\ ToSend' = ToSend /\ \A u \in Tasks : Marking(u)' = Marking(u)
  BY <1>2 DEF Once, Sent, InChan, ToSend, Marking
<1>4. t \in Processed
  BY DEF Moves, Processed
<1>5. Processed' = IF r.pc = "none" THEN Processed \ {t} ELSE Processed
  BY <1>1, <1>4 DEF Processed
<1> QED
  BY <1>1, <1>3, <1>4, <1>5

LEMMA TaskHeld ==
  ASSUME Typed, Held, NEW t \in Tasks, TaskStep(t) PROVE Held'
<1>1. PICK r \in ProcRecs, s \in Statuses : Moves(t, r, s)
  BY TaskMoves
<1>2. /\ Once' = Once /\ Sent' = Sent /\ ToSend' = ToSend /\ toResume' = toResume
      /\ \A u \in Tasks : Marking(u)' = Marking(u)
      /\ t \in Processed /\ status'[t] = s
      /\ Processed' = IF r.pc = "none" THEN Processed \ {t} ELSE Processed
      /\ \A u \in Tasks \ {t} : status'[u] = status[u]
  <2>1. toResume' = toResume
    BY <1>1 DEF Moves
  <2> QED
    BY <1>1, <2>1, MovesHold
<1>3. Custody'
  BY <1>2 DEF Held, Custody
<1>4. Sent \subseteq Tasks /\ Processed \subseteq Tasks /\ ToSend \subseteq Tasks /\ toResume \subseteq Tasks
  BY PlacesAreTasks
<1>5. t \notin Sent /\ t \notin ToSend /\ t \notin toResume
  BY <1>2 DEF Held, Custody
<1>6. r.pc # "none" => s = status[t] \/ s = "RUNNING"
  BY <1>1 DEF Moves
<1>7. \A u \in Tasks : status'[u] = "RUNNING" => rhId'[u] # 0
  <2>1. \A u \in Tasks \ {t} : rhId'[u] = rhId[u]
    BY <1>1 DEF Moves, Typed, TypeOK
  <2>2. s = "RUNNING" => rhId'[t] # 0
    BY <1>1 DEF Moves, Held, Rows, Typed, TypeOK
  <2> QED
    BY <1>2, <2>1, <2>2 DEF Held, Rows
<1> HIDE DEF Moves
<1>8. Rows'
  BY <1>2, <1>4, <1>5, <1>6, <1>7 DEF Held, Rows
<1> QED
  BY <1>3, <1>8 DEF Held

LEMMA BootHeld ==
  ASSUME Typed, Quiet, Held, BootStep PROVE Held'
<1>1. /\ \A w \in Workers : DOMAIN chan[w] = {}
      /\ disp = NoDisp /\ phase \in {"down", "resuming"}
  BY DEF BootStep, Boot, ResumeNext, StartDispatch, Quiet
<1>2. Sent = {} /\ Once /\ ToSend = {} /\ \A t : ~Marking(t)
  BY <1>1 DEF Sent, InChan, Once, ToSend, Marking, NoDisp
<1>3. UNCHANGED <<chan, disp, rhId>>
  BY DEF BootStep, Boot, ResumeNext, StartDispatch, db, pool
<1>4. Sent' = {} /\ Once' /\ ToSend' = {} /\ \A t : ~Marking(t)'
  BY <1>2, <1>3 DEF Sent, InChan, Once, ToSend, Marking
<1>5. CASE Boot
  <2>1. Processed' = {}
    BY <1>5 DEF Boot, Quiet, Processed
  <2>2. \A t \in toResume' : t \in Tasks /\ status'[t] = "RUNNING"
    BY <1>5 DEF Boot, Having, Typed, TypeOK
  <2>3. \A t \in Tasks : status'[t] = "RUNNING" => rhId'[t] # 0
    BY <1>5 DEF Boot, Held, Rows
  <2> QED
    BY <1>4, <2>1, <2>2, <2>3 DEF Held, Custody, Rows
<1>6. CASE ResumeNext
  <2>1. PICK t \in Tasks : t = First(toResume) /\ t \in toResume
    BY <1>6, FirstIn DEF ResumeNext, Typed, TypeOK
  <2>2. toResume' = toResume \ {t}
    BY <1>6, <2>1 DEF ResumeNext
  <2>3. t \notin Processed /\ status[t] = "RUNNING"
    BY <2>1 DEF Held, Custody, Rows
  <2>4. \/ UNCHANGED status /\ Processed' \subseteq Processed \cup {t}
        \/ status' = [status EXCEPT ![t] = "FAILED"] /\ Processed' = Processed
    <3>1. CASE UNCHANGED proc
      BY <1>6, <2>1, <3>1 DEF ResumeNext, SetStatus, Processed
    <3>2. CASE ~UNCHANGED proc
      <4>1. PICK r : proc' = [proc EXCEPT ![t] = r] /\ UNCHANGED status
        BY <1>6, <2>1, <3>2 DEF ResumeNext
      <4> QED
        BY <4>1 DEF Processed, Typed, TypeOK
    <3> QED
      BY <3>1, <3>2
  <2>5. Custody'
    BY <1>4, <2>2, <2>3, <2>4 DEF Held, Custody
  <2>6. Processed \subseteq Tasks /\ toResume \subseteq Tasks
    BY DEF Processed, Typed, TypeOK
  <2>7. /\ \A u \in Tasks \ {t} : status'[u] = status[u]
        /\ status'[t] = "RUNNING" \/ (status'[t] = "FAILED" /\ Processed' = Processed)
    BY <2>3, <2>4 DEF Typed, TypeOK
  <2>8. Processed' \subseteq Processed \cup {t}
    BY <2>4
  <2>9. \A u \in Sent' \cup Processed' : status'[u] \notin {"SUCCESS", "FAILED", "NONE", "PENDING"}
    BY <1>2, <1>4, <2>3, <2>6, <2>7, <2>8 DEF Held, Rows
  <2> QED
    BY <1>3, <1>4, <2>2, <2>3, <2>5, <2>6, <2>7, <2>9 DEF Held, Rows
<1>7. CASE StartDispatch
  BY <1>7, StillHeld DEF StartDispatch, db, pool
<1> QED
  BY <1>5, <1>6, <1>7 DEF BootStep

LEMMA DispatchHeld ==
  ASSUME Typed, Quiet, Held, DispatchStep PROVE Held'
<1>1. /\ disp \in DispRecs
      /\ UNCHANGED <<rhId, toResume, proc>> /\ Processed' = Processed
  <2>1. disp \in DispRecs
    BY DEF Typed, TypeOK, DispRecs
  <2>2. UNCHANGED <<rhId, toResume, proc>>
    BY DEF DispatchStep, DispatchQuery, DispatchList, DispatchSend, DispatchMark, db
  <2> QED
    BY <2>1, <2>2 DEF Processed
<1>2. toResume = {}
  <2>1. disp.pc \in {"list", "send", "mark"} \/ phase \in {"serving", "stopping", "stopped"}
    BY DEF DispatchStep, DispatchQuery, DispatchList, DispatchSend, DispatchMark
  <2>2. disp = NoDisp => disp.pc = "idle"
    BY NoDispRec
  <2>3. phase # "resuming"
    BY <2>1, <2>2 DEF Quiet
  <2> QED
    BY <2>3 DEF Quiet
<1>3. Sent \subseteq Tasks /\ Processed \subseteq Tasks /\ disp.batch \subseteq Tasks
  BY <1>1, ChanFacts DEF Sent, Processed, DispRecs
\* A step that keeps the rows and the channels may drop tasks of the batch.
<1>4. ASSUME UNCHANGED <<status, chan>>, disp'.pc # "mark", \A t : ~Marking(t),
             \A t \in disp'.batch : t \in ToSend \/ (t \in Tasks /\ t \notin Sent \cup Processed
                                                     /\ status[t] = "PENDING")
      PROVE  Held'
  <2>1. Once' = Once /\ Sent' = Sent /\ ToSend' = disp'.batch /\ \A t : ~Marking(t)'
    BY <1>4 DEF Once, Sent, InChan, ToSend, Marking
  <2>2. Custody'
    BY <1>1, <1>2, <1>4, <2>1 DEF Held, Custody
  <2>3. Rows'
    BY <1>1, <1>2, <1>4, <2>1 DEF Held, Rows
  <2> QED
    BY <2>2, <2>3 DEF Held
<1>5. CASE DispatchQuery
  <2>1. disp'.pc = "list" /\ disp'.batch \subseteq Having("PENDING") /\ \A t : ~Marking(t)
    BY <1>5 DEF DispatchQuery, NoDisp, Marking
  <2>2. \A t \in Having("PENDING") : t \in Tasks /\ t \notin Sent \cup Processed /\ status[t] = "PENDING"
    BY <2>1 DEF Having, Held, Rows
  <2> QED
    BY <1>4, <1>5, <2>1, <2>2 DEF DispatchQuery, db, pool
<1>6. CASE DispatchList
  <2>1. ToSend = disp.batch /\ \A t : ~Marking(t)
    BY <1>6 DEF DispatchList, ToSend, Marking
  <2>2. disp'.pc # "mark" /\ disp'.batch \subseteq disp.batch
    BY <1>1, <1>6 DEF DispatchList, NoDisp, DispRecs
  <2> QED
    BY <1>4, <1>6, <2>1, <2>2 DEF DispatchList, db, pool
<1>7. ASSUME NEW w \in Workers, DispatchSend(w) PROVE Held'
  <2>1. ToSend = disp.batch /\ \A t : ~Marking(t)
    BY <1>7 DEF DispatchSend, ToSend, Marking
  <2>2. CASE disp' = Advance(w) /\ UNCHANGED chan
    BY <1>1, <1>4, <1>7, <2>1, <2>2, AdvanceShape DEF DispatchSend, db
  <2>3. CASE /\ chan' = [chan EXCEPT ![w] = Append(@, First(disp.batch))]
             /\ disp' = [disp EXCEPT !.pc = "mark", !.w = w]
    <3>1. PICK t \in Tasks : t = First(disp.batch) /\ t \in disp.batch
      BY <1>3, <1>7, FirstIn DEF DispatchSend, Typed, Shape
    <3>2. /\ t \in ToSend /\ t \notin Sent /\ t \notin Processed
          /\ status[t] \in {"PENDING", "CANCELLED"}
      BY <2>1, <3>1 DEF Held, Custody, Rows
    <3>3. Once' /\ Sent' = Sent \cup {t}
      BY <2>3, <3>1, <3>2, ChanAppend DEF Held, Custody
    <3>4. disp'.pc = "mark" /\ disp'.batch = disp.batch
      BY <1>1, <2>3 DEF DispRecs
    <3>5. ToSend' = ToSend \ {t} /\ \A u : Marking(u)' <=> u = t
      BY <2>1, <3>1, <3>4 DEF ToSend, Marking
    <3>6. UNCHANGED status
      BY <1>7 DEF DispatchSend, db
    <3>7. Custody'
      BY <1>1, <1>2, <3>2, <3>3, <3>5 DEF Held, Custody
    <3>8. Rows'
      BY <1>1, <1>2, <2>1, <3>2, <3>3, <3>5, <3>6 DEF Held, Rows
    <3> QED
      BY <3>7, <3>8 DEF Held
  <2> QED
    BY <1>7, <2>2, <2>3 DEF DispatchSend
<1>8. CASE DispatchMark
  <2>1. PICK t \in Tasks : t = First(disp.batch)
    BY <1>3, <1>8, FirstIn DEF DispatchMark, Typed, Shape
  <2>2. /\ status' = [status EXCEPT ![t] = "DISPATCHED"] /\ disp' = Advance(disp.w)
        /\ UNCHANGED <<chan>>
    BY <1>8, <2>1 DEF DispatchMark, SetStatus, pool
  <2>3. ToSend = disp.batch \ {t} /\ \A u : Marking(u) <=> u = t
    BY <1>8, <2>1 DEF DispatchMark, ToSend, Marking
  <2>4. disp'.pc # "mark" /\ disp'.batch \subseteq disp.batch \ {t}
    BY <1>1, <2>1, <2>2, AdvanceShape
  <2>5. Once' = Once /\ Sent' = Sent /\ ToSend' = disp'.batch /\ \A u : ~Marking(u)'
    BY <2>2, <2>4 DEF Once, Sent, InChan, ToSend, Marking
  <2>6. Custody'
    BY <1>1, <1>2, <2>3, <2>4, <2>5 DEF Held, Custody
  <2>7. status'[t] = "DISPATCHED" /\ \A u \in Tasks \ {t} : status'[u] = status[u]
    BY <2>2 DEF Typed, TypeOK
  <2>8. Rows'
    BY <1>1, <1>2, <1>3, <2>3, <2>4, <2>5, <2>7 DEF Held, Rows
  <2> QED
    BY <2>6, <2>8 DEF Held
<1> QED
  BY <1>5, <1>6, <1>7, <1>8 DEF DispatchStep

LEMMA RunHeld ==
  ASSUME Typed, Quiet, Held, NEW w \in Workers, RunStart(w) \/ RunExit(w) PROVE Held'
<1>1. CASE RunStart(w)
  <2>1. PICK t : t = Head(chan[w])
    OBVIOUS
  <2>2. t \in InChan(w) /\ Once' /\ Sent' = Sent \ {t}
    BY <1>1, <2>1, ChanTail DEF RunStart, Held, Custody
  <2>3. t \in Tasks /\ t \in Sent
    BY <2>2, ChanFacts
  <2>4. PICK r : proc' = [proc EXCEPT ![t] = r] /\ r = [NoProc EXCEPT !.pc = "load", !.w = w]
    BY <1>1, <2>1 DEF RunStart, SetProc
  <2>5. r.pc = "load"
    BY <2>4 DEF NoProc
  <2>6. Processed' = Processed \cup {t}
    BY <2>3, <2>4, <2>5 DEF Processed, Typed, TypeOK
  <2>7. UNCHANGED <<status, rhId, toResume, disp>>
    BY <1>1 DEF RunStart, db
  <2>8. ToSend' = ToSend /\ \A u : Marking(u)' = Marking(u)
    BY <2>7 DEF ToSend, Marking
  <2>9. Custody'
    BY <2>2, <2>3, <2>6, <2>7, <2>8 DEF Held, Custody
  <2>10. Rows'
    BY <2>2, <2>3, <2>6, <2>7, <2>8 DEF Held, Rows
  <2> QED
    BY <2>9, <2>10 DEF Held
<1>2. CASE RunExit(w)
  BY <1>2, StillHeld DEF RunExit, db
<1> QED
  BY <1>1, <1>2

LEMMA RequestHeld ==
  ASSUME Typed, Quiet, Held, NEW t \in Tasks, Submit(t) \/ CancelCheck(t) \/ CancelWrite(t)
  PROVE  Held'
<1>1. CASE CancelCheck(t)
  BY <1>1, StillHeld DEF CancelCheck, db, pool
<1>2. CASE Submit(t) \/ CancelWrite(t)
  <2>1. /\ UNCHANGED <<rhId, toResume, chan, proc, disp>>
        /\ \/ status[t] = "NONE" /\ status' = [status EXCEPT ![t] = "PENDING"]
           \/ status' = [status EXCEPT ![t] = "CANCELLED"]
    BY <1>2 DEF Submit, CancelWrite, SetStatus, Having, pool
  <2>2. toResume = {}
    BY <1>2 DEF Submit, CancelWrite, Quiet
  <2>3. /\ Once' = Once /\ Sent' = Sent /\ Processed' = Processed /\ ToSend' = ToSend
        /\ \A u : Marking(u)' = Marking(u)
    BY <2>1 DEF Once, Sent, InChan, Processed, ToSend, Marking
  <2>4. Sent \subseteq Tasks /\ Processed \subseteq Tasks /\ ToSend \subseteq Tasks
    BY PlacesAreTasks
  <2>5. /\ \A u \in Tasks \ {t} : status'[u] = status[u]
        /\ (status[t] = "NONE" /\ status'[t] = "PENDING") \/ status'[t] = "CANCELLED"
    BY <2>1 DEF Typed, TypeOK
  <2>6. Custody'
    BY <2>1, <2>3 DEF Held, Custody
  <2>7. Rows'
    BY <2>1, <2>2, <2>3, <2>4, <2>5 DEF Held, Rows
  <2> QED
    BY <2>6, <2>7 DEF Held
<1> QED
  BY <1>1, <1>2

LEMMA LossHeld == ASSUME Held, LoseMemory, UNCHANGED db PROVE Held'
<1>1. \A w \in Workers : DOMAIN chan'[w] = {}
  BY DEF LoseMemory
<1>2. Sent' = {} /\ Once'
  BY <1>1 DEF Sent, InChan, Once
<1>3. Processed' = {} /\ ToSend' = {} /\ toResume' = {}
  BY DEF LoseMemory, Processed, NoProc, ToSend, NoDisp
<1> QED
  BY <1>2, <1>3 DEF Held, Custody, Rows, db

LEMMA StepHeld == Typed /\ Quiet /\ Held /\ [Next]_vars => Held'
<1> SUFFICES ASSUME Typed, Quiet, Held, [Next]_vars PROVE Held'
  OBVIOUS
<1>1. ASSUME NEW k \in Keys, KeyRequest(k) PROVE Held'
  BY <1>1, StillHeld DEF KeyRequest, CreateKey, UpdateKey, DeleteKey, db, pool
<1>2. CASE KeyStep
  BY <1>2, StillHeld
  DEF KeyStep, RemoveWorkerLock, RemoveWorkerDrained, AddWorker, DeleteRow, db, pool
<1>3. CASE StopBegin \/ (\E w \in Workers : StopWorker(w)) \/ StopEnd
  BY <1>3, StillHeld DEF StopBegin, StopWorker, StopEnd, db, pool
<1>4. CASE Exit \/ Crash
  BY <1>4, LossHeld DEF Exit, Crash
<1>5. CASE UNCHANGED vars
  BY <1>5, StillHeld DEF vars
<1> QED
  BY <1>1, <1>2, <1>3, <1>4, <1>5, BootHeld, DispatchHeld, RunHeld, TaskHeld, RequestHeld
  DEF Next, StopStep

LEMMA HeldInvariance == Spec => [](Typed /\ Quiet /\ Held)
<1>1. Init => Typed /\ Quiet /\ Held
  BY InitTyped, InitQuiet, InitHeld
<1>2. Typed /\ Quiet /\ Held /\ [Next]_vars => (Typed /\ Quiet /\ Held)'
  BY StepTyped, StepQuiet, StepHeld
<1> QED
  BY <1>1, <1>2, PTL DEF Spec

LEMMA HeldIsSole == Typed /\ Held => SoleCustody
<1> SUFFICES ASSUME Typed, Held PROVE SoleCustody
  OBVIOUS
<1>1. Holding \subseteq Workers /\ Queued \subseteq Sent
  BY DEF Holding, Queued, Sent
<1>2. disp.pc \in {"list", "send"} => ToSend = disp.batch
  BY DEF ToSend, Marking
<1> QED
  BY <1>1, <1>2 DEF SoleCustody, Held, Custody, Once

(***************************************************************************)
(* No task is with two goroutines, or twice in the channels.               *)
(***************************************************************************)
THEOREM OneGoroutinePerTask == Spec => []SoleCustody
BY HeldIsSole, HeldInvariance, PTL

LEMMA StepKeepsResult ==
  Typed /\ Held /\ [Next]_vars =>
    [\A t \in Tasks :
       /\ status[t] = "SUCCESS" => status'[t] \in {"SUCCESS", "CANCELLED", "DISPATCHED"}
       /\ status[t] = "FAILED" => status'[t] \in {"FAILED", "CANCELLED", "DISPATCHED"}
       /\ status[t] = "CANCELLED" /\ t \notin Processed \cup disp.batch
            => status'[t] = "CANCELLED"]_vars
<1> DEFINE Stays(t) == \/ status'[t] \in {status[t], "CANCELLED"}
                       \/ status'[t] = "DISPATCHED" /\ t \in disp.batch
<1> SUFFICES ASSUME Typed, Held, [Next]_vars, NEW t \in Tasks,
                    \/ status[t] \in {"SUCCESS", "FAILED"}
                    \/ status[t] = "CANCELLED" /\ t \notin Processed \cup disp.batch
             PROVE  Stays(t)
  OBVIOUS
<1>1. t \notin Processed /\ t \notin toResume
  BY DEF Held, Rows
<1>2. ASSUME NEW u \in Tasks, TaskStep(u) PROVE Stays(t)
  <2>1. PICK r \in ProcRecs, s \in Statuses : Moves(u, r, s)
    BY <1>2, TaskMoves
  <2>2. u \in Processed /\ \A v \in Tasks \ {u} : status'[v] = status[v]
    BY <2>1, MovesHold
  <2> QED
    BY <1>1, <2>2
<1>3. CASE Boot
  BY <1>3 DEF Boot
<1>4. CASE ResumeNext
  <2>1. First(toResume) # t
    BY <1>1, <1>4, FirstIn DEF ResumeNext, Typed, TypeOK
  <2>2. UNCHANGED status \/ status' = [status EXCEPT ![First(toResume)] = "FAILED"]
    BY <1>4 DEF ResumeNext, SetStatus
  <2> QED
    BY <2>1, <2>2 DEF Typed, TypeOK
<1>5. CASE DispatchMark
  <2>1. First(disp.batch) \in disp.batch
    BY <1>5, FirstIn DEF DispatchMark, Typed, TypeOK, Shape
  <2>2. status' = [status EXCEPT ![First(disp.batch)] = "DISPATCHED"]
    BY <1>5 DEF DispatchMark, SetStatus
  <2> QED
    BY <2>1, <2>2 DEF Typed, TypeOK
<1>6. ASSUME NEW u \in Tasks, Submit(u) \/ CancelWrite(u) PROVE Stays(t)
  BY <1>6 DEF Submit, CancelWrite, Having, SetStatus, Typed, TypeOK
<1>7. CASE /\ ~Boot /\ ~ResumeNext /\ ~DispatchMark
           /\ \A u \in Tasks : ~TaskStep(u) /\ ~Submit(u) /\ ~CancelWrite(u)
  <2>1. UNCHANGED status
    BY <1>7
    DEF Next, BootStep, StartDispatch, DispatchStep, DispatchQuery, DispatchList, DispatchSend,
        RunStart, RunExit, CancelCheck, KeyRequest, CreateKey, UpdateKey, DeleteKey, KeyStep,
        RemoveWorkerLock, RemoveWorkerDrained, AddWorker, DeleteRow, StopBegin, StopStep,
        StopWorker, StopEnd, Exit, Crash, db, vars
  <2> QED
    BY <2>1
<1> QED
  BY <1>2, <1>3, <1>4, <1>5, <1>6, <1>7

(***************************************************************************)
(* RunningHub's result is replaced only by a racing cancel or by the late  *)
(* mark of dispatch, a cancel only by what had the task already.           *)
(***************************************************************************)
THEOREM ResultsDoNotFlip == Spec => ResultNeverFlips
BY StepKeepsResult, HeldInvariance, PTL DEF Spec, ResultNeverFlips

-----------------------------------------------------------------------------
(* One job per task, restart and lost answer.                              *)

\* No job has been asked for since the process was started, or since the
\* task was last given to a worker.
Fresh(t) ==
  \/ phase = "down"
  \/ t \in Sent
  \/ proc[t].pc \in {"load", "create", "recheck"}
  \/ (status[t] \in {"NONE", "PENDING"} \/ t \in disp.batch) /\ ~Marking(t)

\* The job a fresh task is still owed, and the one a stopping process will
\* owe all of them.
Owed(t) == IF Fresh(t) THEN 1 ELSE 0
Ended == IF phase \in {"stopping", "stopped"} THEN 1 ELSE 0
JobsBound == \A t \in Tasks : jobs[t] + Owed(t) + Ended <= 1 + lost[t] + restarts

LEMMA InitJobs == Init => JobsBound
<1> SUFFICES ASSUME Init, NEW t \in Tasks PROVE jobs[t] + Owed(t) + Ended <= 1 + lost[t] + restarts
  BY DEF JobsBound
<1>1. jobs[t] = 0 /\ lost[t] = 0 /\ restarts = 0 /\ Ended = 0 /\ Owed(t) \in {0, 1}
  BY DEF Init, Ended, Owed
<1> QED
  BY <1>1

\* A step that keeps the process up and makes no call leaves fresh what was.
LEMMA StaysBounded ==
  ASSUME Typed, JobsBound, UNCHANGED <<jobs, lost, restarts>>,
         phase \in {"stopping", "stopped"} <=> phase' \in {"stopping", "stopped"},
         \A t \in Tasks : Fresh(t)' => Fresh(t)
  PROVE  JobsBound'
<1> SUFFICES ASSUME NEW t \in Tasks
             PROVE  (jobs[t] + Owed(t) + Ended <= 1 + lost[t] + restarts)'
  BY DEF JobsBound
<1>1. /\ jobs[t] \in Nat /\ lost[t] \in Nat /\ restarts \in Nat
      /\ jobs'[t] = jobs[t] /\ lost'[t] = lost[t] /\ restarts' = restarts
  BY DEF Typed, TypeOK
<1>2. Ended' = Ended /\ Ended \in {0, 1}
  BY DEF Ended
<1>3. Owed(t) \in {0, 1} /\ Owed(t)' \in {0, 1} /\ Owed(t)' <= Owed(t)
  BY DEF Owed
<1>4. jobs[t] + Owed(t) + Ended <= 1 + lost[t] + restarts
  BY DEF JobsBound
<1> QED
  BY <1>1, <1>2, <1>3, <1>4

\* The three ways a goroutine moves on.
LEMMA NextPc ==
  ASSUME Typed, NEW t \in Tasks
  PROVE  /\ \A pc : Goto(t, pc) => proc'[t].pc = pc /\ proc'[t].job = proc[t].job
         /\ \A pc : SetProc(t, [proc[t] EXCEPT !.pc = pc, !.n = @ + 1]) =>
                      proc'[t].pc = pc /\ proc'[t].job = proc[t].job
         /\ Done(t) => proc'[t].pc = "none"
         /\ RetryOrFail(t) => proc'[t].pc \in {"recheck", "fail"}
<1>1. proc \in [Tasks -> ProcRecs]
  BY DEF Typed, TypeOK, ProcRecs
<1>2. PICK q \in ProcRecs : q = proc[t]
  BY <1>1
<1>3. ASSUME NEW r, proc' = [proc EXCEPT ![t] = r] PROVE proc'[t] = r
  BY <1>1, <1>3
<1>4. ASSUME NEW pc
      PROVE  /\ [q EXCEPT !.pc = pc].pc = pc /\ [q EXCEPT !.pc = pc].job = q.job
             /\ [q EXCEPT !.pc = pc, !.n = @ + 1].pc = pc
             /\ [q EXCEPT !.pc = pc, !.n = @ + 1].job = q.job
  BY DEF ProcRecs
<1>5. Done(t) => proc'[t].pc = "none"
  BY <1>3, NoRecs DEF Done, SetProc
<1>6. ASSUME NEW pc, Goto(t, pc) PROVE proc'[t].pc = pc /\ proc'[t].job = proc[t].job
  <2>1. proc' = [proc EXCEPT ![t] = [q EXCEPT !.pc = pc]]
    BY <1>2, <1>6 DEF Goto, SetProc
  <2>2. proc'[t] = [q EXCEPT !.pc = pc]
    BY <1>3, <2>1
  <2> QED
    BY <1>2, <1>4, <2>2
<1>7. ASSUME NEW pc, SetProc(t, [proc[t] EXCEPT !.pc = pc, !.n = @ + 1])
      PROVE  proc'[t].pc = pc /\ proc'[t].job = proc[t].job
  <2>1. proc' = [proc EXCEPT ![t] = [q EXCEPT !.pc = pc, !.n = @ + 1]]
    BY <1>2, <1>7 DEF SetProc
  <2>2. proc'[t] = [q EXCEPT !.pc = pc, !.n = @ + 1]
    BY <1>3, <2>1
  <2> QED
    BY <1>2, <1>4, <2>2
<1>8. RetryOrFail(t) => proc'[t].pc \in {"recheck", "fail"}
  BY <1>6, <1>7 DEF RetryOrFail
<1> QED
  BY <1>5, <1>6, <1>7, <1>8

LEMMA TaskJobs ==
  ASSUME Typed, Quiet, Held, JobsBound, NEW t \in Tasks, TaskStep(t) PROVE JobsBound'
<1>1. PICK r \in ProcRecs, s \in Statuses : Moves(t, r, s)
  BY TaskMoves
<1>2. /\ Sent' = Sent /\ \A u \in Tasks : Marking(u)' = Marking(u)
      /\ t \in Processed /\ status'[t] = s /\ proc'[t] = r
      /\ \A u \in Tasks \ {t} : status'[u] = status[u] /\ proc'[u] = proc[u]
      /\ UNCHANGED <<phase, disp, restarts>>
  <2>1. UNCHANGED <<phase, disp, restarts>>
    BY <1>1 DEF Moves, count
  <2> QED
    BY <1>1, <2>1, MovesHold
<1>3. s = status[t] \/ s \notin {"NONE", "PENDING"}
  BY <1>1 DEF Moves
<1>4. \A u \in Tasks \ {t} : Fresh(u)' = Fresh(u)
  BY <1>2 DEF Fresh
\* t itself is with its goroutine and nowhere else.
<1>5. /\ phase # "down" /\ t \notin Sent /\ t \notin ToSend
      /\ ~(status[t] \in {"NONE", "PENDING"} /\ ~Marking(t))
  BY <1>2 DEF Held, Custody, Rows, Quiet
<1>6. Fresh(t) <=> proc[t].pc \in {"load", "create", "recheck"}
  BY <1>5 DEF Fresh, ToSend, Processed
<1>7. Fresh(t)' <=> r.pc \in {"load", "create", "recheck"}
  BY <1>2, <1>3, <1>5 DEF Fresh, ToSend
<1>8. CASE UNCHANGED <<jobs, lost>>
  <2>1. r.pc \in {"load", "create", "recheck"} => proc[t].pc \in {"load", "create", "recheck"}
    <3>1. RecordRunning(t) => r.pc = "poll"
      <4> SUFFICES ASSUME RecordRunning(t) PROVE r.pc = "poll"
        OBVIOUS
      <4>1. r = [proc[t] EXCEPT !.pc = "poll", !.n = 0]
        BY <1>2 DEF RecordRunning, SetProc, Typed, TypeOK
      <4> QED
        BY <4>1 DEF Typed, TypeOK
    <3>2. CreateAccepted(t) \/ CreateAnswerLost(t) => proc[t].pc = "create"
      BY DEF CreateAccepted, CreateAnswerLost
    <3>3. CreateRefused(t) => proc[t].pc = "create"
      BY DEF CreateRefused
    <3>4. LoadRow(t) => proc[t].pc = "load"
      BY DEF LoadRow
    <3>5. Recheck(t) => proc[t].pc = "recheck"
      BY DEF Recheck
    <3>6. PollTick(t) => r.pc \in {"fail", "none", "query"}
      BY <1>2, NextPc DEF PollTick
    <3>7. PollQuit(t) \/ WriteResult(t) => r.pc = "none"
      BY <1>2, NextPc DEF PollQuit, WriteResult
    <3>8. PollQuery(t) => r.pc \in {"succeed", "fail", "poll"}
      BY <1>2, NextPc DEF PollQuery
    <3> QED
      BY <3>1, <3>2, <3>3, <3>4, <3>5, <3>6, <3>7, <3>8 DEF TaskStep
  <2> QED
    BY <1>2, <1>4, <1>6, <1>7, <1>8, <2>1, StaysBounded
<1>9. CASE CreateAccepted(t) \/ CreateAnswerLost(t)
  <2>1. Fresh(t)
    BY <1>6, <1>9 DEF CreateAccepted, CreateAnswerLost
  <2>2. CreateAccepted(t) => r.pc = "record"
    <3> SUFFICES ASSUME CreateAccepted(t) PROVE r.pc = "record"
      OBVIOUS
    <3>1. proc' = [proc EXCEPT ![t] = [proc[t] EXCEPT !.pc = "record", !.job = jobs[t] + 1]]
      BY DEF CreateAccepted, SetProc
    <3>2. r = [proc[t] EXCEPT !.pc = "record", !.job = jobs[t] + 1]
      BY <1>2, <3>1 DEF Typed, TypeOK
    <3> QED
      BY <3>2 DEF Typed, TypeOK
  <2>3. /\ jobs' = [jobs EXCEPT ![t] = @ + 1]
        /\ (lost' = [lost EXCEPT ![t] = @ + 1]) \/ (UNCHANGED lost /\ ~Fresh(t)')
    BY <1>7, <1>9, <2>2 DEF CreateAccepted, CreateAnswerLost
  <2>4. Ended' = Ended /\ Ended \in {0, 1} /\ restarts' = restarts /\ restarts \in Nat
    BY <1>2 DEF Ended, Typed, TypeOK
  <2> SUFFICES ASSUME NEW u \in Tasks
               PROVE  (jobs[u] + Owed(u) + Ended <= 1 + lost[u] + restarts)'
    BY DEF JobsBound
  <2>5. /\ jobs[u] + Owed(u) + Ended <= 1 + lost[u] + restarts
        /\ jobs[u] \in Nat /\ lost[u] \in Nat
    BY DEF JobsBound, Typed, TypeOK
  <2>6. CASE u = t
    <3>1. jobs'[t] = jobs[t] + 1 /\ (lost'[t] = lost[t] + 1 \/ (lost'[t] = lost[t] /\ Owed(t)' = 0))
      BY <2>3 DEF Typed, TypeOK, Owed
    <3>2. Owed(t) = 1 /\ Owed(t)' \in {0, 1}
      BY <2>1 DEF Owed
    <3> QED
      BY <2>4, <2>5, <2>6, <3>1, <3>2
  <2>7. CASE u # t
    <3>1. jobs'[u] = jobs[u] /\ lost'[u] = lost[u]
      BY <2>3, <2>7 DEF Typed, TypeOK
    <3>2. Owed(u)' = Owed(u) /\ Owed(u) \in {0, 1}
      BY <1>4, <2>7 DEF Owed
    <3> QED
      BY <2>4, <2>5, <3>1, <3>2
  <2> QED
    BY <2>6, <2>7
<1> QED
  BY <1>8, <1>9
  DEF TaskStep, LoadRow, CreateRefused, Recheck, RecordRunning, PollTick, PollQuit, PollQuery,
      WriteResult, hub

LEMMA StillBounded ==
  ASSUME Typed, JobsBound, UNCHANGED <<hub, restarts, status, chan, proc, disp>>,
         phase' = phase \/ {phase, phase'} = {"resuming", "serving"}
                        \/ {phase, phase'} = {"stopping", "stopped"}
  PROVE  JobsBound'
<1>1. Sent' = Sent /\ \A t : Marking(t)' = Marking(t)
  BY DEF Sent, InChan, Marking
<1>2. phase = "down" <=> phase' = "down"
  OBVIOUS
<1>3. \A t \in Tasks : Fresh(t)' => Fresh(t)
  BY <1>1, <1>2 DEF Fresh
<1>4. phase \in {"stopping", "stopped"} <=> phase' \in {"stopping", "stopped"}
  OBVIOUS
<1> QED
  BY <1>3, <1>4, StaysBounded DEF hub

LEMMA BootJobs ==
  ASSUME Typed, Quiet, JobsBound, BootStep PROVE JobsBound'
<1>1. CASE Boot
  BY <1>1, StaysBounded DEF Boot, Fresh, count, hub
<1>2. CASE ResumeNext
  <2>1. PICK t : t = First(toResume)
    OBVIOUS
  <2>2. \/ UNCHANGED status
        \/ status' = [status EXCEPT ![t] = "FAILED"]
    BY <1>2, <2>1 DEF ResumeNext, SetStatus
  <2>3. \A u \in Tasks : status'[u] = status[u] \/ status'[u] = "FAILED"
    BY <2>2 DEF Typed, TypeOK
  <2>4. \/ UNCHANGED proc
        \/ \E w : proc' = [proc EXCEPT ![t] = [pc |-> "poll", w |-> w, n |-> 0, job |-> rhId[t]]]
    BY <1>2, <2>1 DEF ResumeNext
  <2>5. \A u \in Tasks : proc'[u] = proc[u] \/ proc'[u].pc = "poll"
    BY <2>4 DEF Typed, TypeOK
  <2>6. UNCHANGED <<chan, disp, phase, hub, restarts>>
    BY <1>2 DEF ResumeNext, pool, count
  <2>7. Sent' = Sent /\ \A u : Marking(u)' = Marking(u)
    BY <2>6 DEF Sent, InChan, Marking
  <2>8. \A u \in Tasks : Fresh(u)' => Fresh(u)
    BY <2>3, <2>5, <2>6, <2>7 DEF Fresh
  <2> QED
    BY <2>6, <2>8, StaysBounded DEF hub
<1>3. CASE StartDispatch
  BY <1>3, StillBounded DEF StartDispatch, db, pool, count
<1> QED
  BY <1>1, <1>2, <1>3 DEF BootStep

LEMMA DispatchJobs ==
  ASSUME Typed, Held, JobsBound, DispatchStep PROVE JobsBound'
<1>1. /\ disp \in DispRecs
      /\ UNCHANGED <<hub, restarts, phase, proc>>
  BY DEF DispatchStep, DispatchQuery, DispatchList, DispatchSend, DispatchMark, count, Typed,
     TypeOK, DispRecs
<1>2. ASSUME \A t \in Tasks : Fresh(t)' => Fresh(t) PROVE JobsBound'
  BY <1>1, <1>2, StaysBounded DEF hub
\* A step that keeps the rows and the channels may drop tasks of the batch.
<1>3. ASSUME UNCHANGED <<status, chan>>, \A t : ~Marking(t),
             \A t \in disp'.batch : t \in disp.batch \/ status[t] = "PENDING"
      PROVE  JobsBound'
  <2>1. Sent' = Sent
    BY <1>3 DEF Sent, InChan
  <2> QED
    BY <1>1, <1>2, <1>3, <2>1 DEF Fresh
<1>4. CASE DispatchQuery
  <2>1. disp'.batch \subseteq Having("PENDING") /\ \A t : ~Marking(t)
    BY <1>4 DEF DispatchQuery, NoDisp, Marking
  <2>2. UNCHANGED <<status, chan>>
    BY <1>4 DEF DispatchQuery, db, pool
  <2> QED
    BY <1>3, <2>1, <2>2 DEF Having
<1>5. CASE DispatchList
  <2>1. disp'.batch \subseteq disp.batch /\ \A t : ~Marking(t)
    BY <1>1, <1>5 DEF DispatchList, NoDisp, DispRecs, Marking
  <2> QED
    BY <1>3, <1>5, <2>1 DEF DispatchList, db, pool
<1>6. ASSUME NEW w \in Workers, DispatchSend(w) PROVE JobsBound'
  <2>1. \A t : ~Marking(t)
    BY <1>6 DEF DispatchSend, Marking
  <2>2. CASE disp' = Advance(w) /\ UNCHANGED chan
    BY <1>1, <1>3, <1>6, <2>1, <2>2, AdvanceShape DEF DispatchSend, db
  <2>3. CASE /\ chan' = [chan EXCEPT ![w] = Append(@, First(disp.batch))]
             /\ disp' = [disp EXCEPT !.pc = "mark", !.w = w]
    <3>1. PICK t \in Tasks : t = First(disp.batch) /\ t \in disp.batch
      BY <1>1, <1>6, FirstIn DEF DispatchSend, Typed, Shape, DispRecs
    <3>2. t \notin Sent
      BY <2>1, <3>1 DEF Held, Custody, ToSend
    <3>3. Sent' = Sent \cup {t}
      BY <2>3, <3>1, <3>2, ChanAppend DEF Held, Custody
    <3>4. disp'.batch = disp.batch
      BY <1>1, <2>3 DEF DispRecs
    <3>5. UNCHANGED status
      BY <1>6 DEF DispatchSend, db
    <3> QED
      BY <1>1, <1>2, <2>1, <3>1, <3>3, <3>4, <3>5 DEF Fresh
  <2> QED
    BY <1>6, <2>2, <2>3 DEF DispatchSend
<1>7. CASE DispatchMark
  <2>1. PICK t : t = First(disp.batch)
    OBVIOUS
  <2>2. /\ status' = [status EXCEPT ![t] = "DISPATCHED"] /\ disp' = Advance(disp.w)
        /\ UNCHANGED <<chan>>
    BY <1>7, <2>1 DEF DispatchMark, SetStatus, pool
  <2>3. \A u : Marking(u) <=> u = t
    BY <1>7, <2>1 DEF DispatchMark, Marking
  <2>4. disp'.batch \subseteq disp.batch \ {t} /\ \A u : ~Marking(u)'
    BY <1>1, <2>1, <2>2, AdvanceShape DEF Marking
  <2>5. Sent' = Sent
    BY <2>2 DEF Sent, InChan
  <2>6. \A u \in Tasks : IF u = t THEN status'[u] = "DISPATCHED" ELSE status'[u] = status[u]
    BY <2>2 DEF Typed, TypeOK
  <2> QED
    BY <1>1, <1>2, <2>3, <2>4, <2>5, <2>6 DEF Fresh
<1> QED
  BY <1>4, <1>5, <1>6, <1>7 DEF DispatchStep

LEMMA RunJobs ==
  ASSUME Typed, Held, JobsBound, NEW w \in Workers, RunStart(w) \/ RunExit(w) PROVE JobsBound'
<1>1. CASE RunStart(w)
  <2>1. PICK t : t = Head(chan[w])
    OBVIOUS
  <2>2. t \in Sent /\ Sent' = Sent \ {t}
    BY <1>1, <2>1, ChanTail, ChanFacts DEF RunStart, Held, Custody
  <2>3. \A u \in Tasks \ {t} : proc'[u] = proc[u]
    BY <1>1, <2>1 DEF RunStart, SetProc, Typed, TypeOK
  <2>4. UNCHANGED <<status, disp, phase, hub, restarts>>
    BY <1>1 DEF RunStart, db, count
  <2>5. \A u : Marking(u)' = Marking(u)
    BY <2>4 DEF Marking
  <2>6. \A u \in Tasks : Fresh(u)' => Fresh(u)
    BY <2>2, <2>3, <2>4, <2>5 DEF Fresh
  <2> QED
    BY <2>4, <2>6, StaysBounded DEF hub
<1>2. CASE RunExit(w)
  BY <1>2, StillBounded DEF RunExit, db, count
<1> QED
  BY <1>1, <1>2

LEMMA RequestJobs ==
  ASSUME Typed, JobsBound, NEW t \in Tasks, Submit(t) \/ CancelCheck(t) \/ CancelWrite(t)
  PROVE  JobsBound'
<1>1. UNCHANGED <<chan, proc, disp, phase, hub, restarts>>
  BY DEF Submit, CancelCheck, CancelWrite, pool, count
<1>2. Sent' = Sent /\ \A u : Marking(u)' = Marking(u)
  BY <1>1 DEF Sent, InChan, Marking
<1>3. \/ UNCHANGED status
      \/ status[t] = "NONE" /\ status' = [status EXCEPT ![t] = "PENDING"]
      \/ status' = [status EXCEPT ![t] = "CANCELLED"]
  BY DEF Submit, CancelCheck, CancelWrite, SetStatus, Having, db
<1>4. \A u \in Tasks : status'[u] \in {"NONE", "PENDING"} => status[u] \in {"NONE", "PENDING"}
  BY <1>3 DEF Typed, TypeOK
<1>5. \A u \in Tasks : Fresh(u)' => Fresh(u)
  BY <1>1, <1>2, <1>4 DEF Fresh
<1> QED
  BY <1>1, <1>5, StaysBounded DEF hub

\* The end of the process, and the beginning of its end, count as a restart.
LEMMA EndJobs ==
  ASSUME Typed, JobsBound, StopBegin \/ Exit \/ Crash PROVE JobsBound'
<1> SUFFICES ASSUME NEW t \in Tasks
             PROVE  (jobs[t] + Owed(t) + Ended <= 1 + lost[t] + restarts)'
  BY DEF JobsBound
<1>1. /\ jobs[t] \in Nat /\ lost[t] \in Nat /\ restarts \in Nat
      /\ jobs'[t] = jobs[t] /\ lost'[t] = lost[t]
  BY DEF StopBegin, Exit, Crash, hub, Typed, TypeOK
<1>2. Owed(t) \in {0, 1} /\ Owed(t)' \in {0, 1} /\ Ended \in {0, 1} /\ Ended' \in {0, 1}
  BY DEF Owed, Ended
<1>3. jobs[t] + Owed(t) + Ended <= 1 + lost[t] + restarts
  BY DEF JobsBound
<1>4. CASE StopBegin
  <2>1. UNCHANGED <<status, chan, proc, disp>>
    BY <1>4 DEF StopBegin, db, pool
  <2>2. Sent' = Sent /\ Marking(t)' = Marking(t)
    BY <2>1 DEF Sent, InChan, Marking
  <2>3. Fresh(t)' = Fresh(t)
    BY <1>4, <2>1, <2>2 DEF Fresh, StopBegin
  <2>4. Owed(t)' = Owed(t) /\ Ended = 0 /\ restarts' = restarts + 1
    BY <1>4, <2>3 DEF Owed, Ended, StopBegin
  <2> QED
    BY <1>1, <1>2, <1>3, <2>4
<1>5. CASE Exit
  <2>1. Ended = 1 /\ Ended' = 0 /\ restarts' = restarts
    BY <1>5 DEF Exit, LoseMemory, Ended, count
  <2> QED
    BY <1>1, <1>2, <1>3, <2>1
<1>6. CASE Crash
  <2>1. Ended' = 0 /\ restarts' = restarts + 1
    BY <1>6 DEF Crash, LoseMemory, Ended
  <2> QED
    BY <1>1, <1>2, <1>3, <2>1
<1> QED
  BY <1>4, <1>5, <1>6

LEMMA StepJobs == Typed /\ Quiet /\ Held /\ JobsBound /\ [Next]_vars => JobsBound'
<1> SUFFICES ASSUME Typed, Quiet, Held, JobsBound, [Next]_vars PROVE JobsBound'
  OBVIOUS
<1>1. ASSUME NEW k \in Keys, KeyRequest(k) PROVE JobsBound'
  BY <1>1, StillBounded DEF KeyRequest, CreateKey, UpdateKey, DeleteKey, db, pool
<1>2. CASE KeyStep
  BY <1>2, StillBounded
  DEF KeyStep, RemoveWorkerLock, RemoveWorkerDrained, AddWorker, DeleteRow, db, pool, count
<1>3. CASE (\E w \in Workers : StopWorker(w)) \/ StopEnd
  BY <1>3, StillBounded DEF StopWorker, StopEnd, db, pool, count
<1>4. CASE UNCHANGED vars
  BY <1>4, StillBounded DEF vars, hub
<1> QED
  BY <1>1, <1>2, <1>3, <1>4, BootJobs, DispatchJobs, RunJobs, TaskJobs, RequestJobs, EndJobs
  DEF Next, StopStep

(***************************************************************************)
(* RunningHub is asked for one job per task, restart and lost answer.      *)
(***************************************************************************)
THEOREM JobsAreBounded == Spec => []NoSurplusJobs
<1>1. Init => JobsBound
  BY InitJobs
<1>2. Typed /\ JobsBound => NoSurplusJobs
  <2> SUFFICES ASSUME Typed, JobsBound, NEW t \in Tasks PROVE jobs[t] <= 1 + lost[t] + restarts
    BY DEF NoSurplusJobs
  <2>1. jobs[t] \in Nat /\ lost[t] \in Nat /\ restarts \in Nat
    BY DEF Typed, TypeOK
  <2>2. jobs[t] + Owed(t) + Ended <= 1 + lost[t] + restarts
    BY DEF JobsBound
  <2>3. Owed(t) \in {0, 1} /\ Ended \in {0, 1}
    BY DEF Owed, Ended
  <2> QED
    BY <2>1, <2>2, <2>3
<1> QED
  BY <1>1, <1>2, StepJobs, HeldInvariance, PTL DEF Spec

=============================================================================
