------------------------------- MODULE Worker -------------------------------
(***************************************************************************)
(* One Worker of src/backend/services/worker.go: the bounded task channel, *)
(* the semaphore, the inflight counter, the WaitGroup and the goroutines   *)
(* that touch them.  They are                                              *)
(*                                                                         *)
(*   - the scheduler's boot, which claims slots for resumed tasks,         *)
(*   - the scheduler's dispatch, which checks Available and calls Dispatch,*)
(*   - run, the worker's own loop,                                         *)
(*   - one processTask (or resumed poll) per task, reduced here to its     *)
(*     deferred epilogue; the Scheduler module models its body,            *)
(*   - Stop.                                                               *)
(*                                                                         *)
(* Each task is at one stage of its way through the worker.  A member of   *)
(* Tasks stands for one delivery of a task id: the scheduler delivers an   *)
(* id again only after the worker is done with it.                         *)
(***************************************************************************)
EXTENDS Integers, Sequences, FiniteSets

CONSTANTS Tasks,    \* deliveries to this worker
          MaxConc   \* maxConc: capacity of taskChan and of sem

ASSUME TasksFinite == IsFiniteSet(Tasks)
\* Create and Update only store a positive max_concurrency (apikey.go:85, 138).
ASSUME MaxConcPositive == MaxConc \in Nat \ {0}

VARIABLES
  stage,     \* stage[t]: where task t is, see Stages
  taskChan,  \* the buffered channel, oldest task first
  sem,       \* tokens in the semaphore channel
  inflight,  \* the atomic counter behind Available
  wg,        \* the WaitGroup's counter
  quit,      \* TRUE once the quit channel is closed
  runPc,     \* "select" while run loops, "exited" after its return
  stopPc     \* "no", "waiting" in wg.Wait, "stopped" after Stop returned

vars == <<stage, taskChan, sem, inflight, wg, quit, runPc, stopPc>>

Stages == {
  "out",       \* not with this worker
  "orphan",    \* RUNNING before the restart, still to be resumed
  "claimed",   \* resume has counted it and waits for the semaphore
  "checked",   \* dispatch saw Available and picked this worker for it
  "added",     \* Dispatch has incremented inflight
  "queued",    \* in taskChan
  "held",      \* received by run, which waits for the semaphore
  "working",   \* processTask or the resumed poll runs, owning a token
  "releasing", \* epilogue: token returned, inflight not yet decremented
  "leaving" }  \* epilogue: inflight decremented, wg.Done to come

At(s) == {t \in Tasks : stage[t] = s}

TypeOK ==
  /\ stage \in [Tasks -> Stages]
  /\ taskChan \in Seq(Tasks)
  /\ sem \in 0..MaxConc
  /\ inflight \in Nat
  /\ wg \in Nat
  /\ quit \in BOOLEAN
  /\ runPc \in {"select", "exited"}
  /\ stopPc \in {"no", "waiting", "stopped"}

MoveTo(t, s) == stage' = [stage EXCEPT ![t] = s]

(***************************************************************************)
(* A new worker.  The orphans are the RUNNING rows of its key; there may   *)
(* be more of them than slots, because max_concurrency can be lowered and  *)
(* because replacing a worker abandons its running tasks.                  *)
(***************************************************************************)
Init ==
  /\ stage \in [Tasks -> {"out", "orphan"}]
  /\ taskChan = <<>>
  /\ sem = 0 /\ inflight = 0 /\ wg = 0
  /\ quit = FALSE
  /\ runPc = "select"
  /\ stopPc = "no"

-----------------------------------------------------------------------------
(* The boot's resume of RUNNING tasks: one at a time, before dispatch.     *)

\* Mutant: the resumed task is not counted.
ResumeClaimUncounted(t) ==
  /\ stage[t] = "orphan"
  /\ At("claimed") = {}
  /\ wg' = wg + 1
  /\ MoveTo(t, "claimed")
  /\ UNCHANGED <<taskChan, sem, inflight, quit, runPc, stopPc>>

ResumeClaim(t) ==
  /\ stage[t] = "orphan"
  /\ At("claimed") = {}
  /\ wg' = wg + 1
  /\ inflight' = inflight + 1
  /\ MoveTo(t, "claimed")
  /\ UNCHANGED <<taskChan, sem, quit, runPc, stopPc>>

\* Mutant: the resumed task takes no notice of the limit.
ResumeAcquireUnlimited(t) ==
  /\ stage[t] = "claimed"
  /\ sem' = sem + 1
  /\ MoveTo(t, "working")
  /\ UNCHANGED <<taskChan, inflight, wg, quit, runPc, stopPc>>

ResumeAcquire(t) ==
  /\ stage[t] = "claimed"
  /\ sem < MaxConc
  /\ sem' = sem + 1
  /\ MoveTo(t, "working")
  /\ UNCHANGED <<taskChan, inflight, wg, quit, runPc, stopPc>>

Resumed == At("orphan") = {} /\ At("claimed") = {}

-----------------------------------------------------------------------------
(* The scheduler's dispatch.  It is the only goroutine that adds tasks once*)
(* the boot is over, and it holds the scheduler's read lock from the check *)
(* to the end of Dispatch, while Stop runs under the write lock.           *)

DispatcherIdle == At("checked") = {} /\ At("added") = {}

\* Mutants: off by one; only the channel's room is looked at.
AvailableOffByOne == inflight <= MaxConc
AvailableByRoom == Len(taskChan) < MaxConc

Available == inflight < MaxConc

CheckAvailable(t) ==
  /\ Resumed
  /\ DispatcherIdle
  /\ stopPc # "waiting"
  /\ stage[t] = "out"
  /\ Available
  /\ MoveTo(t, "checked")
  /\ UNCHANGED <<taskChan, sem, inflight, wg, quit, runPc, stopPc>>

\* Mutant: Dispatch leaves the counting to the worker.
DispatchAddUncounted(t) ==
  /\ stage[t] = "checked"
  /\ MoveTo(t, "added")
  /\ UNCHANGED <<taskChan, sem, inflight, wg, quit, runPc, stopPc>>

DispatchAdd(t) ==
  /\ stage[t] = "checked"
  /\ inflight' = inflight + 1
  /\ MoveTo(t, "added")
  /\ UNCHANGED <<taskChan, sem, wg, quit, runPc, stopPc>>

\* The non-blocking send; a full channel gives the count back.
DispatchSend(t) ==
  /\ stage[t] = "added"
  /\ IF Len(taskChan) < MaxConc
     THEN /\ taskChan' = Append(taskChan, t)
          /\ MoveTo(t, "queued")
          /\ UNCHANGED inflight
     ELSE /\ inflight' = inflight - 1
          /\ MoveTo(t, "out")
          /\ UNCHANGED taskChan
  /\ UNCHANGED <<sem, wg, quit, runPc, stopPc>>

-----------------------------------------------------------------------------
(* run: a select whose ready cases are chosen at random, so a task may be  *)
(* received, and even started, after quit was closed.                      *)

RunReceive ==
  /\ runPc = "select"
  /\ At("held") = {}
  /\ taskChan # <<>>
  /\ MoveTo(Head(taskChan), "held")
  /\ taskChan' = Tail(taskChan)
  /\ UNCHANGED <<sem, inflight, wg, quit, runPc, stopPc>>

RunAcquire(t) ==
  /\ runPc = "select"
  /\ stage[t] = "held"
  /\ sem < MaxConc
  /\ sem' = sem + 1
  /\ wg' = wg + 1
  /\ MoveTo(t, "working")
  /\ UNCHANGED <<taskChan, inflight, quit, runPc, stopPc>>

\* Either select of run; a task it holds, and those queued, stay behind.
RunQuit ==
  /\ runPc = "select"
  /\ quit
  /\ runPc' = "exited"
  /\ UNCHANGED <<stage, taskChan, sem, inflight, wg, quit, stopPc>>

-----------------------------------------------------------------------------
(* The deferred epilogue of processTask and of the resumed poll.           *)

\* Mutant: the token is not returned.
ReleaseTokenKept(t) ==
  /\ stage[t] = "working"
  /\ MoveTo(t, "releasing")
  /\ UNCHANGED <<taskChan, sem, inflight, wg, quit, runPc, stopPc>>

ReleaseToken(t) ==
  /\ stage[t] = "working"
  /\ sem' = sem - 1
  /\ MoveTo(t, "releasing")
  /\ UNCHANGED <<taskChan, inflight, wg, quit, runPc, stopPc>>

\* Mutant: an early return that skips the decrement.
LeaveInflightCounted(t) ==
  /\ stage[t] = "releasing"
  /\ MoveTo(t, "leaving")
  /\ UNCHANGED <<taskChan, sem, inflight, wg, quit, runPc, stopPc>>

LeaveInflight(t) ==
  /\ stage[t] = "releasing"
  /\ inflight' = inflight - 1
  /\ MoveTo(t, "leaving")
  /\ UNCHANGED <<taskChan, sem, wg, quit, runPc, stopPc>>

\* Mutant: the WaitGroup is never told.
WgDoneMissing(t) ==
  /\ stage[t] = "leaving"
  /\ MoveTo(t, "out")
  /\ UNCHANGED <<taskChan, sem, inflight, wg, quit, runPc, stopPc>>

WgDone(t) ==
  /\ stage[t] = "leaving"
  /\ wg' = wg - 1
  /\ MoveTo(t, "out")
  /\ UNCHANGED <<taskChan, sem, inflight, quit, runPc, stopPc>>

-----------------------------------------------------------------------------
(* Stop: close quit, then wait for the WaitGroup.                          *)

StopBegin ==
  /\ Resumed
  /\ DispatcherIdle
  /\ stopPc = "no"
  /\ quit' = TRUE
  /\ stopPc' = "waiting"
  /\ UNCHANGED <<stage, taskChan, sem, inflight, wg, runPc>>

StopEnd ==
  /\ stopPc = "waiting"
  /\ wg = 0
  /\ stopPc' = "stopped"
  /\ UNCHANGED <<stage, taskChan, sem, inflight, wg, quit, runPc>>

-----------------------------------------------------------------------------
ResumeStep(t) == ResumeClaim(t) \/ ResumeAcquire(t)
DispatchStep(t) == DispatchAdd(t) \/ DispatchSend(t)
RunStep == RunReceive \/ (\E t \in Tasks : RunAcquire(t)) \/ RunQuit
TaskStep(t) == ReleaseToken(t) \/ LeaveInflight(t) \/ WgDone(t)

Next ==
  \/ \E t \in Tasks :
       ResumeStep(t) \/ CheckAvailable(t) \/ DispatchStep(t) \/ TaskStep(t)
  \/ RunStep
  \/ StopBegin
  \/ StopEnd

Spec == Init /\ [][Next]_vars

(***************************************************************************)
(* Every goroutine that can step is eventually scheduled.  A task's body   *)
(* ends: create attempts, HTTP time-outs and polls are all bounded.        *)
(* Whether dispatch ever picks this worker, and whether Stop is ever       *)
(* called, is left open.                                                   *)
(***************************************************************************)
Fairness ==
  /\ WF_vars(\E t \in Tasks : ResumeStep(t))
  /\ WF_vars(\E t \in Tasks : DispatchStep(t))
  /\ WF_vars(RunStep)
  /\ \A t \in Tasks : WF_vars(TaskStep(t))
  /\ WF_vars(StopEnd)

FairSpec == Spec /\ Fairness

-----------------------------------------------------------------------------
(* Safety.                                                                 *)

(***************************************************************************)
(* The three counters of a worker always say exactly how many tasks are at *)
(* which stage: no path (resume, a refused send, a quit in either select   *)
(* of run, the three steps of the epilogue) loses or doubles a count, so   *)
(* capacity neither leaks away nor grows.  worker.go:66-99,                *)
(* scheduler.go:310-318.                                                   *)
(***************************************************************************)
Count(s) == Cardinality(At(s))

CountersExact ==
  /\ sem = Count("working")
  /\ inflight = Count("claimed") + Count("added") + Count("queued")
                + Count("held") + Count("working") + Count("releasing")
  /\ wg = Count("claimed") + Count("working") + Count("releasing")
          + Count("leaving")

(***************************************************************************)
(* "Channel full (shouldn't happen if Available() was checked)",           *)
(* worker.go:74: between the check and the send other goroutines run, yet  *)
(* the send always finds room.                                             *)
(***************************************************************************)
DispatchNeverRejected == At("added") # {} => Len(taskChan) < MaxConc

(***************************************************************************)
(* run never waits for the semaphore (worker.go:87-90): the token of a     *)
(* finished task is back before the finished task stops being counted.     *)
(***************************************************************************)
RunNeverWaits == At("held") # {} => sem < MaxConc

\* The tasks that own a slot: counted by Dispatch, or resumed, and not over.
Owned == {t \in Tasks : stage[t] \in {"added", "queued", "held", "working"}}

Pool == INSTANCE SlotPool WITH owned <- Owned

(***************************************************************************)
(* The worker implements the pool of slots the scheduler relies on: a task *)
(* is admitted only while fewer than MaxConc tasks own a slot.             *)
(***************************************************************************)
ImplementsSlotPool == Pool!Spec

-----------------------------------------------------------------------------
(* Liveness, under FairSpec.                                               *)

(***************************************************************************)
(* However many tasks were resumed, the worker becomes available again and *)
(* again until it is stopped.                                              *)
(***************************************************************************)
CapacityReturns == []<>(Available \/ quit)

(***************************************************************************)
(* The boot gets every orphan a slot and goes on to dispatch, even when    *)
(* more tasks are RUNNING than the worker has slots (scheduler.go:312,     *)
(* where the boot then waits for polls to end).                            *)
(***************************************************************************)
ResumeCompletes == <>Resumed

(***************************************************************************)
(* Stop always returns (the scheduler calls it under its write lock).      *)
(***************************************************************************)
StopReturns == stopPc = "waiting" ~> stopPc = "stopped"

=============================================================================
