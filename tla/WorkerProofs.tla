---------------------------- MODULE WorkerProofs ----------------------------
(***************************************************************************)
(* Proofs about Worker, for every finite set of tasks and every positive   *)
(* MaxConc.  The counters being exact is not inductive alone: the proof    *)
(* strengthens it to IInv, which adds that the channel holds exactly the   *)
(* queued tasks, that dispatch starts after resume is over, and that the   *)
(* tasks checked, added, queued, held and working never outnumber the      *)
(* slots.                                                                  *)
(***************************************************************************)
EXTENDS Worker, FiniteSetTheorems, SequenceTheorems, TLAPS

ChanIsQueued ==
  /\ Len(taskChan) = Count("queued")
  /\ \A i \in 1..Len(taskChan) : stage[taskChan[i]] = "queued"
  /\ \A i, j \in 1..Len(taskChan) : taskChan[i] = taskChan[j] => i = j

ResumeFirst ==
  \/ Resumed
  \/ /\ At("checked") = {} /\ At("added") = {}
     /\ At("queued") = {} /\ At("held") = {}

SlotsBound ==
  Count("checked") + Count("added") + Count("queued")
    + Count("held") + Count("working") <= MaxConc

IInv == TypeOK /\ CountersExact /\ ChanIsQueued /\ ResumeFirst /\ SlotsBound

-----------------------------------------------------------------------------
(* Counting stages.                                                        *)

LEMMA CountNat ==
  \A s : Count(s) \in Nat /\ (Count(s) = 0 <=> At(s) = {})
<1>1. ASSUME NEW s PROVE Count(s) \in Nat /\ (Count(s) = 0 <=> At(s) = {})
  <2>1. At(s) \in SUBSET Tasks
    BY DEF At
  <2>2. IsFiniteSet(At(s))
    BY <2>1, TasksFinite, FS_Subset
  <2> QED
    BY <2>2, FS_CardinalityType, FS_EmptySet DEF Count
<1> QED
  BY <1>1

(***************************************************************************)
(* Moving one task from its stage to another takes one from the count of   *)
(* the first, adds one to the count of the second and leaves the others.   *)
(***************************************************************************)
LEMMA MoveCounts ==
  ASSUME stage \in [Tasks -> Stages],
         NEW t \in Tasks, NEW b \in Stages, stage[t] # b, MoveTo(t, b)
  PROVE  /\ stage' \in [Tasks -> Stages]
         /\ stage'[t] = b
         /\ \A u \in Tasks \ {t} : stage'[u] = stage[u]
         /\ \A s : Count(s)' = IF s = stage[t] THEN Count(s) - 1
                             ELSE IF s = b THEN Count(s) + 1
                             ELSE Count(s)
         /\ \A s : At(s)' = IF s = stage[t] THEN At(s) \ {t}
                          ELSE IF s = b THEN At(s) \cup {t}
                          ELSE At(s)
<1>1. /\ stage' \in [Tasks -> Stages]
      /\ stage'[t] = b
      /\ \A u \in Tasks \ {t} : stage'[u] = stage[u]
  BY DEF MoveTo
<1>2. ASSUME NEW s
      PROVE  At(s)' = IF s = stage[t] THEN At(s) \ {t}
                      ELSE IF s = b THEN At(s) \cup {t}
                      ELSE At(s)
  BY <1>1 DEF At
<1>3. ASSUME NEW s
      PROVE  Count(s)' = IF s = stage[t] THEN Count(s) - 1
                         ELSE IF s = b THEN Count(s) + 1
                         ELSE Count(s)
  <2>1. At(s) \in SUBSET Tasks /\ (t \in At(s) <=> s = stage[t])
    BY DEF At
  <2>2. IsFiniteSet(At(s))
    BY <2>1, TasksFinite, FS_Subset
  <2>3. Cardinality(At(s) \ {t})
          = IF s = stage[t] THEN Cardinality(At(s)) - 1 ELSE Cardinality(At(s))
    BY <2>1, <2>2, FS_RemoveElement
  <2>4. Cardinality(At(s) \cup {t})
          = IF s = stage[t] THEN Cardinality(At(s)) ELSE Cardinality(At(s)) + 1
    BY <2>1, <2>2, FS_AddElement
  <2> QED
    BY <1>2, <2>3, <2>4 DEF Count
<1> QED
  BY <1>1, <1>2, <1>3

LEMMA CountsNat ==
  /\ Count("claimed") \in Nat /\ Count("checked") \in Nat
  /\ Count("added") \in Nat /\ Count("queued") \in Nat
  /\ Count("held") \in Nat /\ Count("working") \in Nat
  /\ Count("releasing") \in Nat /\ Count("leaving") \in Nat
BY CountNat

-----------------------------------------------------------------------------
(* The invariant.                                                          *)

LEMMA InitInv == Init => IInv
<1> SUFFICES ASSUME Init PROVE IInv
  OBVIOUS
<1>1. TypeOK
  <2>1. taskChan \in Seq(Tasks)
    BY EmptySeq DEF Init
  <2>2. stage \in [Tasks -> Stages]
    BY DEF Init, Stages
  <2>3. sem \in 0..MaxConc /\ inflight \in Nat /\ wg \in Nat
    BY MaxConcPositive DEF Init
  <2>4. quit \in BOOLEAN /\ runPc \in {"select", "exited"}
        /\ stopPc \in {"no", "waiting", "stopped"}
    BY Zenon DEF Init
  <2> QED
    BY <2>1, <2>2, <2>3, <2>4, Zenon DEF TypeOK
<1>2. \A s : s \notin {"out", "orphan"} => At(s) = {} /\ Count(s) = 0
  BY CountNat DEF Init, At
<1>3. CountersExact
  BY <1>2 DEF Init, CountersExact
<1>4. ChanIsQueued
  BY <1>2 DEF Init, ChanIsQueued
<1>5. ResumeFirst
  BY <1>2 DEF ResumeFirst
<1>6. SlotsBound
  BY <1>2, MaxConcPositive DEF SlotsBound
<1> QED
  BY <1>1, <1>3, <1>4, <1>5, <1>6 DEF IInv

(***************************************************************************)
(* A move between two stages outside the channel leaves it well formed.    *)
(***************************************************************************)
LEMMA MoveKeepsChan ==
  ASSUME TypeOK, ChanIsQueued,
         NEW t \in Tasks, NEW b \in Stages, stage[t] # b, MoveTo(t, b),
         stage[t] # "queued", b # "queued", UNCHANGED taskChan
  PROVE  ChanIsQueued'
<1>1. /\ Count("queued")' = Count("queued")
      /\ \A u \in Tasks \ {t} : stage'[u] = stage[u]
  BY MoveCounts DEF TypeOK
<1>2. \A i \in 1..Len(taskChan) : taskChan[i] \in Tasks \ {t}
  BY DEF TypeOK, ChanIsQueued
<1> QED
  BY <1>1, <1>2 DEF ChanIsQueued

(***************************************************************************)
(* Each action keeps the invariant.                                        *)
(***************************************************************************)
LEMMA ResumeClaimInv ==
  ASSUME IInv, NEW t \in Tasks, ResumeClaim(t) PROVE IInv'
<1>1. stage[t] = "orphan" /\ MoveTo(t, "claimed") /\ "claimed" \in Stages
  BY DEF ResumeClaim, Stages
<1>2. /\ stage' \in [Tasks -> Stages]
      /\ \A s : Count(s)' = IF s = "orphan" THEN Count(s) - 1
                          ELSE IF s = "claimed" THEN Count(s) + 1
                          ELSE Count(s)
      /\ \A s : At(s)' = IF s = "orphan" THEN At(s) \ {t}
                       ELSE IF s = "claimed" THEN At(s) \cup {t}
                       ELSE At(s)
  BY <1>1, MoveCounts DEF IInv, TypeOK
<1>3. t \in At("orphan") /\ Count("orphan") >= 1
  BY <1>1, CountNat DEF At
<1>4. CountersExact'
  BY <1>2, CountsNat DEF IInv, CountersExact, ResumeClaim
<1>5. TypeOK'
  <2>1. inflight' \in Nat /\ wg' \in Nat
    BY MaxConcPositive DEF IInv, TypeOK, ResumeClaim
  <2> QED
    BY <1>2, <2>1 DEF IInv, TypeOK, ResumeClaim
<1>6. ChanIsQueued'
  BY <1>1, MoveKeepsChan DEF IInv, ResumeClaim
<1>7. ResumeFirst'
  BY <1>2, <1>3 DEF IInv, ResumeFirst, ResumeClaim, Resumed
<1>8. SlotsBound'
  BY <1>2, <1>3, CountsNat, MaxConcPositive DEF IInv, SlotsBound
<1> QED
  BY <1>4, <1>5, <1>6, <1>7, <1>8 DEF IInv

LEMMA ResumeAcquireInv ==
  ASSUME IInv, NEW t \in Tasks, ResumeAcquire(t) PROVE IInv'
<1>1. stage[t] = "claimed" /\ MoveTo(t, "working") /\ "working" \in Stages
  BY DEF ResumeAcquire, Stages
<1>2. /\ stage' \in [Tasks -> Stages]
      /\ \A s : Count(s)' = IF s = "claimed" THEN Count(s) - 1
                          ELSE IF s = "working" THEN Count(s) + 1
                          ELSE Count(s)
      /\ \A s : At(s)' = IF s = "claimed" THEN At(s) \ {t}
                       ELSE IF s = "working" THEN At(s) \cup {t}
                       ELSE At(s)
  BY <1>1, MoveCounts DEF IInv, TypeOK
<1>3. t \in At("claimed") /\ Count("claimed") >= 1
  BY <1>1, CountNat DEF At
<1>4. CountersExact'
  BY <1>2, CountsNat DEF IInv, CountersExact, ResumeAcquire
<1>5. TypeOK'
  <2>1. sem' \in 0..MaxConc
    BY MaxConcPositive DEF IInv, TypeOK, ResumeAcquire
  <2> QED
    BY <1>2, <2>1 DEF IInv, TypeOK, ResumeAcquire
<1>6. ChanIsQueued'
  BY <1>1, MoveKeepsChan DEF IInv, ResumeAcquire
<1>7. ResumeFirst'
  BY <1>2, <1>3 DEF IInv, ResumeFirst, ResumeAcquire, Resumed
<1>8. SlotsBound'
  <2>1. /\ Count("checked") = 0 /\ Count("added") = 0
        /\ Count("queued") = 0 /\ Count("held") = 0
    BY <1>3, CountNat DEF IInv, ResumeFirst, Resumed
  <2>2. Count("working") < MaxConc
    BY DEF IInv, CountersExact, ResumeAcquire
  <2> QED
    BY <1>2, <2>1, <2>2, CountsNat, MaxConcPositive DEF SlotsBound
<1> QED
  BY <1>4, <1>5, <1>6, <1>7, <1>8 DEF IInv

LEMMA CheckAvailableInv ==
  ASSUME IInv, NEW t \in Tasks, CheckAvailable(t) PROVE IInv'
<1>1. stage[t] = "out" /\ MoveTo(t, "checked") /\ "checked" \in Stages
  BY DEF CheckAvailable, Stages
<1>2. /\ stage' \in [Tasks -> Stages]
      /\ \A s : Count(s)' = IF s = "out" THEN Count(s) - 1
                          ELSE IF s = "checked" THEN Count(s) + 1
                          ELSE Count(s)
      /\ \A s : At(s)' = IF s = "out" THEN At(s) \ {t}
                       ELSE IF s = "checked" THEN At(s) \cup {t}
                       ELSE At(s)
  BY <1>1, MoveCounts DEF IInv, TypeOK
<1>3. t \in At("out") /\ Count("out") >= 1
  BY <1>1, CountNat DEF At
<1>4. CountersExact'
  BY <1>2, CountsNat DEF IInv, CountersExact, CheckAvailable
<1>5. TypeOK'
  BY <1>2 DEF IInv, TypeOK, CheckAvailable
<1>6. ChanIsQueued'
  BY <1>1, MoveKeepsChan DEF IInv, CheckAvailable
<1>7. ResumeFirst'
  BY <1>2, <1>3 DEF IInv, ResumeFirst, CheckAvailable, Resumed
<1>8. SlotsBound'
  <2>1. Count("checked") = 0 /\ Count("added") = 0
    BY CountNat DEF CheckAvailable, DispatcherIdle
  <2>2. Count("queued") + Count("held") + Count("working") < MaxConc
    BY CountsNat, MaxConcPositive
    DEF IInv, CountersExact, CheckAvailable, Available
  <2> QED
    BY <1>2, <2>1, <2>2, CountsNat, MaxConcPositive DEF SlotsBound
<1> QED
  BY <1>4, <1>5, <1>6, <1>7, <1>8 DEF IInv

LEMMA DispatchAddInv ==
  ASSUME IInv, NEW t \in Tasks, DispatchAdd(t) PROVE IInv'
<1>1. stage[t] = "checked" /\ MoveTo(t, "added") /\ "added" \in Stages
  BY DEF DispatchAdd, Stages
<1>2. /\ stage' \in [Tasks -> Stages]
      /\ \A s : Count(s)' = IF s = "checked" THEN Count(s) - 1
                          ELSE IF s = "added" THEN Count(s) + 1
                          ELSE Count(s)
      /\ \A s : At(s)' = IF s = "checked" THEN At(s) \ {t}
                       ELSE IF s = "added" THEN At(s) \cup {t}
                       ELSE At(s)
  BY <1>1, MoveCounts DEF IInv, TypeOK
<1>3. t \in At("checked") /\ Count("checked") >= 1
  BY <1>1, CountNat DEF At
<1>4. CountersExact'
  BY <1>2, CountsNat DEF IInv, CountersExact, DispatchAdd
<1>5. TypeOK'
  <2>1. inflight' \in Nat
    BY MaxConcPositive DEF IInv, TypeOK, DispatchAdd
  <2> QED
    BY <1>2, <2>1 DEF IInv, TypeOK, DispatchAdd
<1>6. ChanIsQueued'
  BY <1>1, MoveKeepsChan DEF IInv, DispatchAdd
<1>7. ResumeFirst'
  BY <1>2, <1>3 DEF IInv, ResumeFirst, DispatchAdd, Resumed
<1>8. SlotsBound'
  BY <1>2, <1>3, CountsNat, MaxConcPositive DEF IInv, SlotsBound
<1> QED
  BY <1>4, <1>5, <1>6, <1>7, <1>8 DEF IInv

LEMMA RunAcquireInv ==
  ASSUME IInv, NEW t \in Tasks, RunAcquire(t) PROVE IInv'
<1>1. stage[t] = "held" /\ MoveTo(t, "working") /\ "working" \in Stages
  BY DEF RunAcquire, Stages
<1>2. /\ stage' \in [Tasks -> Stages]
      /\ \A s : Count(s)' = IF s = "held" THEN Count(s) - 1
                          ELSE IF s = "working" THEN Count(s) + 1
                          ELSE Count(s)
      /\ \A s : At(s)' = IF s = "held" THEN At(s) \ {t}
                       ELSE IF s = "working" THEN At(s) \cup {t}
                       ELSE At(s)
  BY <1>1, MoveCounts DEF IInv, TypeOK
<1>3. t \in At("held") /\ Count("held") >= 1
  BY <1>1, CountNat DEF At
<1>4. CountersExact'
  BY <1>2, CountsNat DEF IInv, CountersExact, RunAcquire
<1>5. TypeOK'
  <2>1. sem' \in 0..MaxConc /\ wg' \in Nat
    BY MaxConcPositive DEF IInv, TypeOK, RunAcquire
  <2> QED
    BY <1>2, <2>1 DEF IInv, TypeOK, RunAcquire
<1>6. ChanIsQueued'
  BY <1>1, MoveKeepsChan DEF IInv, RunAcquire
<1>7. ResumeFirst'
  BY <1>2, <1>3 DEF IInv, ResumeFirst, RunAcquire, Resumed
<1>8. SlotsBound'
  BY <1>2, <1>3, CountsNat, MaxConcPositive DEF IInv, SlotsBound
<1> QED
  BY <1>4, <1>5, <1>6, <1>7, <1>8 DEF IInv

LEMMA ReleaseTokenInv ==
  ASSUME IInv, NEW t \in Tasks, ReleaseToken(t) PROVE IInv'
<1>1. stage[t] = "working" /\ MoveTo(t, "releasing") /\ "releasing" \in Stages
  BY DEF ReleaseToken, Stages
<1>2. /\ stage' \in [Tasks -> Stages]
      /\ \A s : Count(s)' = IF s = "working" THEN Count(s) - 1
                          ELSE IF s = "releasing" THEN Count(s) + 1
                          ELSE Count(s)
      /\ \A s : At(s)' = IF s = "working" THEN At(s) \ {t}
                       ELSE IF s = "releasing" THEN At(s) \cup {t}
                       ELSE At(s)
  BY <1>1, MoveCounts DEF IInv, TypeOK
<1>3. t \in At("working") /\ Count("working") >= 1
  BY <1>1, CountNat DEF At
<1>4. CountersExact'
  BY <1>2, CountsNat DEF IInv, CountersExact, ReleaseToken
<1>5. TypeOK'
  <2>1. sem >= 1
    BY <1>3, CountsNat DEF IInv, CountersExact
  <2>2. sem' \in 0..MaxConc
    BY <2>1, MaxConcPositive DEF IInv, TypeOK, ReleaseToken
  <2> QED
    BY <1>2, <2>2 DEF IInv, TypeOK, ReleaseToken
<1>6. ChanIsQueued'
  BY <1>1, MoveKeepsChan DEF IInv, ReleaseToken
<1>7. ResumeFirst'
  BY <1>2, <1>3 DEF IInv, ResumeFirst, ReleaseToken, Resumed
<1>8. SlotsBound'
  BY <1>2, <1>3, CountsNat, MaxConcPositive DEF IInv, SlotsBound
<1> QED
  BY <1>4, <1>5, <1>6, <1>7, <1>8 DEF IInv

LEMMA LeaveInflightInv ==
  ASSUME IInv, NEW t \in Tasks, LeaveInflight(t) PROVE IInv'
<1>1. stage[t] = "releasing" /\ MoveTo(t, "leaving") /\ "leaving" \in Stages
  BY DEF LeaveInflight, Stages
<1>2. /\ stage' \in [Tasks -> Stages]
      /\ \A s : Count(s)' = IF s = "releasing" THEN Count(s) - 1
                          ELSE IF s = "leaving" THEN Count(s) + 1
                          ELSE Count(s)
      /\ \A s : At(s)' = IF s = "releasing" THEN At(s) \ {t}
                       ELSE IF s = "leaving" THEN At(s) \cup {t}
                       ELSE At(s)
  BY <1>1, MoveCounts DEF IInv, TypeOK
<1>3. t \in At("releasing") /\ Count("releasing") >= 1
  BY <1>1, CountNat DEF At
<1>4. CountersExact'
  BY <1>2, CountsNat DEF IInv, CountersExact, LeaveInflight
<1>5. TypeOK'
  <2>1. inflight >= 1
    BY <1>3, CountsNat DEF IInv, CountersExact
  <2>2. inflight' \in Nat
    BY <2>1, MaxConcPositive DEF IInv, TypeOK, LeaveInflight
  <2> QED
    BY <1>2, <2>2 DEF IInv, TypeOK, LeaveInflight
<1>6. ChanIsQueued'
  BY <1>1, MoveKeepsChan DEF IInv, LeaveInflight
<1>7. ResumeFirst'
  BY <1>2, <1>3 DEF IInv, ResumeFirst, LeaveInflight, Resumed
<1>8. SlotsBound'
  BY <1>2, <1>3, CountsNat, MaxConcPositive DEF IInv, SlotsBound
<1> QED
  BY <1>4, <1>5, <1>6, <1>7, <1>8 DEF IInv

LEMMA WgDoneInv ==
  ASSUME IInv, NEW t \in Tasks, WgDone(t) PROVE IInv'
<1>1. stage[t] = "leaving" /\ MoveTo(t, "out") /\ "out" \in Stages
  BY DEF WgDone, Stages
<1>2. /\ stage' \in [Tasks -> Stages]
      /\ \A s : Count(s)' = IF s = "leaving" THEN Count(s) - 1
                          ELSE IF s = "out" THEN Count(s) + 1
                          ELSE Count(s)
      /\ \A s : At(s)' = IF s = "leaving" THEN At(s) \ {t}
                       ELSE IF s = "out" THEN At(s) \cup {t}
                       ELSE At(s)
  BY <1>1, MoveCounts DEF IInv, TypeOK
<1>3. t \in At("leaving") /\ Count("leaving") >= 1
  BY <1>1, CountNat DEF At
<1>4. CountersExact'
  BY <1>2, CountsNat DEF IInv, CountersExact, WgDone
<1>5. TypeOK'
  <2>1. wg >= 1
    BY <1>3, CountsNat DEF IInv, CountersExact
  <2>2. wg' \in Nat
    BY <2>1, MaxConcPositive DEF IInv, TypeOK, WgDone
  <2> QED
    BY <1>2, <2>2 DEF IInv, TypeOK, WgDone
<1>6. ChanIsQueued'
  BY <1>1, MoveKeepsChan DEF IInv, WgDone
<1>7. ResumeFirst'
  BY <1>2, <1>3 DEF IInv, ResumeFirst, WgDone, Resumed
<1>8. SlotsBound'
  BY <1>2, <1>3, CountsNat, MaxConcPositive DEF IInv, SlotsBound
<1> QED
  BY <1>4, <1>5, <1>6, <1>7, <1>8 DEF IInv

LEMMA DispatchSendInv ==
  ASSUME IInv, NEW t \in Tasks, DispatchSend(t) PROVE IInv'
<1>1. stage[t] = "added" /\ Count("added") >= 1
  BY CountNat DEF DispatchSend, At
<1>2. Len(taskChan) < MaxConc
  BY <1>1, CountsNat, MaxConcPositive DEF IInv, ChanIsQueued, SlotsBound
<1>3. MoveTo(t, "queued") /\ "queued" \in Stages /\ taskChan' = Append(taskChan, t)
      /\ UNCHANGED <<sem, inflight, wg, quit, runPc, stopPc>>
  BY <1>2 DEF DispatchSend, Stages
<1>4. /\ stage' \in [Tasks -> Stages]
      /\ stage'[t] = "queued"
      /\ \A u \in Tasks \ {t} : stage'[u] = stage[u]
      /\ \A s : Count(s)' = IF s = "added" THEN Count(s) - 1
                          ELSE IF s = "queued" THEN Count(s) + 1
                          ELSE Count(s)
      /\ \A s : At(s)' = IF s = "added" THEN At(s) \ {t}
                       ELSE IF s = "queued" THEN At(s) \cup {t}
                       ELSE At(s)
  BY <1>1, <1>3, MoveCounts DEF IInv, TypeOK
<1>5. /\ taskChan' \in Seq(Tasks)
      /\ Len(taskChan) \in Nat
      /\ Len(taskChan') = Len(taskChan) + 1
      /\ \A i \in 1..Len(taskChan) : taskChan'[i] = taskChan[i]
      /\ taskChan'[Len(taskChan) + 1] = t
  BY <1>3, AppendProperties, LenProperties DEF IInv, TypeOK
<1>6. CountersExact'
  <2>1. UNCHANGED <<sem, inflight, wg>>
    BY <1>3
  <2> QED
    BY <2>1, <1>4, CountsNat DEF IInv, CountersExact
<1>7. TypeOK'
  BY <1>3, <1>4, <1>5 DEF IInv, TypeOK
<1>8. ChanIsQueued'
  <2>1. \A i \in 1..Len(taskChan) :
          taskChan[i] \in Tasks \ {t} /\ stage'[taskChan[i]] = "queued"
    BY <1>1, <1>4 DEF IInv, TypeOK, ChanIsQueued
  <2>2. \A i \in 1..Len(taskChan') : i \in 1..Len(taskChan) \/ i = Len(taskChan) + 1
    BY <1>5
  <2>3. Len(taskChan') = Count("queued")'
    BY <1>4, <1>5, CountsNat DEF IInv, ChanIsQueued
  <2>4. \A i \in 1..Len(taskChan') : stage'[taskChan'[i]] = "queued"
    BY <1>4, <1>5, <2>1, <2>2
  <2>5. \A i, j \in 1..Len(taskChan') : taskChan'[i] = taskChan'[j] => i = j
    BY <1>5, <2>1, <2>2 DEF IInv, ChanIsQueued
  <2> QED
    BY <2>3, <2>4, <2>5 DEF ChanIsQueued
<1>9. ResumeFirst'
  BY <1>1, <1>4 DEF IInv, ResumeFirst, Resumed, At
<1>10. SlotsBound'
  BY <1>1, <1>4, CountsNat, MaxConcPositive DEF IInv, SlotsBound
<1> QED
  BY <1>6, <1>7, <1>8, <1>9, <1>10 DEF IInv

LEMMA RunReceiveInv ==
  ASSUME IInv, RunReceive PROVE IInv'
<1> DEFINE t == Head(taskChan)
<1>1. /\ taskChan' \in Seq(Tasks)
      /\ Len(taskChan) \in Nat \ {0}
      /\ Len(taskChan') = Len(taskChan) - 1
      /\ \A i \in 1..Len(taskChan') : taskChan'[i] = taskChan[i+1]
      /\ t = taskChan[1] /\ t \in Tasks
  BY HeadTailProperties, EmptySeq DEF IInv, TypeOK, RunReceive
<1>2. stage[t] = "queued" /\ t \in At("queued") /\ Count("queued") >= 1
  <2>1. stage[t] = "queued"
    BY <1>1 DEF IInv, ChanIsQueued
  <2> QED
    BY <1>1, <2>1, CountNat DEF At
<1>3. MoveTo(t, "held") /\ "held" \in Stages
      /\ UNCHANGED <<sem, inflight, wg, quit, runPc, stopPc>>
  BY DEF RunReceive, Stages
<1> HIDE DEF t
<1>4. /\ stage' \in [Tasks -> Stages]
      /\ \A u \in Tasks \ {t} : stage'[u] = stage[u]
      /\ \A s : Count(s)' = IF s = "queued" THEN Count(s) - 1
                          ELSE IF s = "held" THEN Count(s) + 1
                          ELSE Count(s)
      /\ \A s : At(s)' = IF s = "queued" THEN At(s) \ {t}
                       ELSE IF s = "held" THEN At(s) \cup {t}
                       ELSE At(s)
  BY <1>1, <1>2, <1>3, MoveCounts DEF IInv, TypeOK
<1>5. CountersExact'
  BY <1>3, <1>4, CountsNat DEF IInv, CountersExact
<1>6. TypeOK'
  BY <1>1, <1>3, <1>4 DEF IInv, TypeOK
<1>7. ChanIsQueued'
  <2>1. \A i \in 1..Len(taskChan') : i + 1 \in 1..Len(taskChan) /\ i + 1 # 1
    BY <1>1
  <2>2. \A i \in 1..Len(taskChan') :
          taskChan'[i] \in Tasks \ {t} /\ stage[taskChan'[i]] = "queued"
    <3> SUFFICES ASSUME NEW i \in 1..Len(taskChan')
                 PROVE  taskChan'[i] \in Tasks \ {t}
                        /\ stage[taskChan'[i]] = "queued"
      OBVIOUS
    <3>1. taskChan'[i] \in Tasks
      BY <1>1
    <3>2. 1 \in 1..Len(taskChan)
      BY <1>1
    <3>3. taskChan[i+1] # taskChan[1]
      BY <2>1, <3>2 DEF IInv, ChanIsQueued
    <3> QED
      BY <1>1, <2>1, <3>1, <3>3 DEF IInv, ChanIsQueued
  <2>3. Len(taskChan') = Count("queued")'
    BY <1>1, <1>4, CountsNat DEF IInv, ChanIsQueued
  <2>4. \A i \in 1..Len(taskChan') : stage'[taskChan'[i]] = "queued"
    BY <1>4, <2>2
  <2>5. \A i, j \in 1..Len(taskChan') : taskChan'[i] = taskChan'[j] => i = j
    BY <1>1, <2>1 DEF IInv, ChanIsQueued
  <2> QED
    BY <2>3, <2>4, <2>5 DEF ChanIsQueued
<1>8. ResumeFirst'
  BY <1>2, <1>4 DEF IInv, ResumeFirst, Resumed
<1>9. SlotsBound'
  BY <1>2, <1>4, CountsNat, MaxConcPositive DEF IInv, SlotsBound
<1> QED
  BY <1>5, <1>6, <1>7, <1>8, <1>9 DEF IInv

\* Steps of run and Stop that leave tasks, channel and counters alone.
LEMMA QuietInv ==
  ASSUME IInv, RunQuit \/ StopBegin \/ StopEnd \/ UNCHANGED vars PROVE IInv'
<1>1. UNCHANGED <<stage, taskChan, sem, inflight, wg>>
  BY DEF RunQuit, StopBegin, StopEnd, vars
<1>2. TypeOK'
  <2>1. quit' \in BOOLEAN /\ runPc' \in {"select", "exited"}
        /\ stopPc' \in {"no", "waiting", "stopped"}
    BY DEF RunQuit, StopBegin, StopEnd, vars, IInv, TypeOK
  <2> QED
    BY <1>1, <2>1 DEF IInv, TypeOK
<1>3. \A s : At(s)' = At(s) /\ Count(s)' = Count(s)
  BY <1>1 DEF At, Count
<1>4. CountersExact' /\ SlotsBound'
  BY <1>1, <1>3 DEF IInv, CountersExact, SlotsBound
<1>5. ChanIsQueued' /\ ResumeFirst'
  BY <1>1, <1>3 DEF IInv, ChanIsQueued, ResumeFirst, Resumed
<1> QED
  BY <1>2, <1>4, <1>5 DEF IInv

LEMMA StepInv == IInv /\ [Next]_vars => IInv'
<1> SUFFICES ASSUME IInv, [Next]_vars PROVE IInv'
  OBVIOUS
<1>1. ASSUME NEW t \in Tasks, ResumeStep(t) PROVE IInv'
  BY <1>1, ResumeClaimInv, ResumeAcquireInv DEF ResumeStep
<1>2. ASSUME NEW t \in Tasks, CheckAvailable(t) PROVE IInv'
  BY <1>2, CheckAvailableInv
<1>3. ASSUME NEW t \in Tasks, DispatchStep(t) PROVE IInv'
  BY <1>3, DispatchAddInv, DispatchSendInv DEF DispatchStep
<1>4. ASSUME NEW t \in Tasks, TaskStep(t) PROVE IInv'
  BY <1>4, ReleaseTokenInv, LeaveInflightInv, WgDoneInv DEF TaskStep
<1>5. CASE RunStep
  BY <1>5, RunReceiveInv, RunAcquireInv, QuietInv DEF RunStep
<1>6. CASE StopBegin \/ StopEnd \/ UNCHANGED vars
  BY <1>6, QuietInv
<1> QED
  BY <1>1, <1>2, <1>3, <1>4, <1>5, <1>6 DEF Next

\* Every reachable state satisfies the inductive invariant: the counters of
\* worker.go:66-99 agree with where the tasks are, and no more than MaxConc
\* tasks are between the dispatcher's check and the end of processing.
THEOREM Invariance == Spec => []IInv
<1> QED
  BY InitInv, StepInv, PTL DEF Spec

-----------------------------------------------------------------------------
(* What the invariant gives.                                               *)

(***************************************************************************)
(* Every variable of a worker keeps its type; in particular the semaphore  *)
(* never holds more than MaxConc tokens and no counter goes below zero.    *)
(***************************************************************************)
THEOREM TypeCorrect == Spec => []TypeOK
<1>1. IInv => TypeOK
  BY DEF IInv
<1> QED
  BY <1>1, Invariance, PTL

(***************************************************************************)
(* sem, inflight and wg count the tasks at their stages exactly.           *)
(***************************************************************************)
THEOREM CountersAlwaysExact == Spec => []CountersExact
<1>1. IInv => CountersExact
  BY DEF IInv
<1> QED
  BY <1>1, Invariance, PTL

(***************************************************************************)
(* Dispatch's non-blocking send always finds room in the channel.          *)
(***************************************************************************)
THEOREM SendFindsRoom == Spec => []DispatchNeverRejected
<1>1. IInv => DispatchNeverRejected
  <2> SUFFICES ASSUME IInv, At("added") # {} PROVE Len(taskChan) < MaxConc
    BY DEF DispatchNeverRejected
  <2>1. Count("added") >= 1
    BY CountNat
  <2> QED
    BY <2>1, CountsNat, MaxConcPositive DEF IInv, ChanIsQueued, SlotsBound
<1> QED
  BY <1>1, Invariance, PTL

(***************************************************************************)
(* run finds a token whenever it holds a task.                             *)
(***************************************************************************)
THEOREM RunFindsToken == Spec => []RunNeverWaits
<1>1. IInv => RunNeverWaits
  <2> SUFFICES ASSUME IInv, At("held") # {} PROVE sem < MaxConc
    BY DEF RunNeverWaits
  <2>1. Count("held") >= 1
    BY CountNat
  <2> QED
    BY <2>1, CountsNat, MaxConcPositive DEF IInv, CountersExact, SlotsBound
<1> QED
  BY <1>1, Invariance, PTL

-----------------------------------------------------------------------------
(* The worker implements the pool of slots.                                *)

LEMMA DisjointCard ==
  ASSUME NEW S, NEW T, IsFiniteSet(S), IsFiniteSet(T), S \cap T = {}
  PROVE  /\ IsFiniteSet(S \cup T)
         /\ Cardinality(S \cup T) = Cardinality(S) + Cardinality(T)
<1>1. Cardinality(S \cap T) = 0
  BY FS_EmptySet
<1>2. Cardinality(S) \in Nat /\ Cardinality(T) \in Nat
  BY FS_CardinalityType
<1>3. /\ IsFiniteSet(S \cup T)
      /\ Cardinality(S \cup T) = Cardinality(S) + Cardinality(T) - Cardinality(S \cap T)
  BY FS_Union
<1> QED
  BY <1>1, <1>2, <1>3

LEMMA OwnedCounted ==
  Cardinality(Owned) = Count("added") + Count("queued")
                         + Count("held") + Count("working")
<1> DEFINE A == At("added") \cup At("queued")
           B == At("held") \cup At("working")
<1>1. /\ IsFiniteSet(At("added")) /\ IsFiniteSet(At("queued"))
      /\ IsFiniteSet(At("held")) /\ IsFiniteSet(At("working"))
  BY TasksFinite, FS_Subset DEF At
<1>2. /\ At("added") \cap At("queued") = {}
      /\ At("held") \cap At("working") = {}
      /\ A \cap B = {}
      /\ Owned = A \cup B
  BY DEF At, Owned
<1>3. IsFiniteSet(A) /\ Cardinality(A) = Count("added") + Count("queued")
  BY <1>1, <1>2, DisjointCard DEF Count
<1>4. IsFiniteSet(B) /\ Cardinality(B) = Count("held") + Count("working")
  BY <1>1, <1>2, DisjointCard DEF Count
<1> HIDE DEF A, B
<1>5. Cardinality(Owned) = Cardinality(A) + Cardinality(B)
  BY <1>2, <1>3, <1>4, DisjointCard
<1> QED
  BY <1>3, <1>4, <1>5, CountsNat

LEMMA InitRefines == Init => Pool!Init
BY DEF Init, Pool!Init, Owned

(***************************************************************************)
(* A task enters the pool by DispatchAdd or ResumeAcquire and leaves it by *)
(* ReleaseToken; every other step leaves the pool as it is.                *)
(***************************************************************************)
LEMMA StepRefines == IInv /\ [Next]_vars => [Pool!Next]_Owned
<1> SUFFICES ASSUME IInv, [Next]_vars PROVE [Pool!Next]_Owned
  OBVIOUS
<1> DEFINE Slot == {"added", "queued", "held", "working"}
<1>1. ASSUME NEW t \in Tasks, NEW b \in Stages, MoveTo(t, b),
             stage[t] \in Slot <=> b \in Slot
      PROVE  UNCHANGED Owned
  BY <1>1 DEF MoveTo, Owned, IInv, TypeOK
<1>2. ASSUME NEW t \in Tasks, NEW b \in Slot, MoveTo(t, b), stage[t] \notin Slot,
             Count("added") + Count("queued") + Count("held") + Count("working")
               < MaxConc
      PROVE  Pool!Next
  <2>1. t \notin Owned /\ Owned' = Owned \cup {t}
    BY <1>2 DEF MoveTo, Owned, IInv, TypeOK
  <2>2. Cardinality(Owned) < MaxConc
    BY <1>2, OwnedCounted
  <2>3. Pool!Cardinality(Owned) < MaxConc
    BY <2>2 DEF Pool!Cardinality, Cardinality
  <2>4. Pool!Admit(t)
    BY <2>1, <2>3 DEF Pool!Admit
  <2> QED
    BY <2>4 DEF Pool!Next
<1>3. ASSUME NEW t \in Tasks, DispatchAdd(t) PROVE Pool!Next
  <2>1. Count("checked") >= 1
    BY <1>3, CountNat DEF DispatchAdd, At
  <2>2. Count("added") + Count("queued") + Count("held") + Count("working") < MaxConc
    BY <2>1, CountsNat, MaxConcPositive DEF IInv, SlotsBound
  <2> QED
    BY <1>2, <1>3, <2>2 DEF DispatchAdd
<1>4. ASSUME NEW t \in Tasks, ResumeAcquire(t) PROVE Pool!Next
  <2>1. t \in At("claimed")
    BY <1>4 DEF ResumeAcquire, At
  <2>2. /\ Count("added") = 0 /\ Count("queued") = 0 /\ Count("held") = 0
        /\ Count("working") = sem /\ sem < MaxConc
    BY <1>4, <2>1, CountNat
    DEF IInv, ResumeFirst, Resumed, CountersExact, ResumeAcquire
  <2>3. Count("added") + Count("queued") + Count("held") + Count("working") < MaxConc
    BY <2>2, CountsNat, MaxConcPositive
  <2> QED
    BY <1>2, <1>4, <2>3 DEF ResumeAcquire
<1>5. ASSUME NEW t \in Tasks, ReleaseToken(t) PROVE Pool!Next
  <2>1. t \in Owned /\ Owned' = Owned \ {t}
    BY <1>5 DEF ReleaseToken, MoveTo, Owned, IInv, TypeOK
  <2> QED
    BY <2>1 DEF Pool!Next, Pool!Finish
<1>6. ASSUME NEW t \in Tasks,
             ResumeClaim(t) \/ CheckAvailable(t) \/ LeaveInflight(t) \/ WgDone(t)
      PROVE  UNCHANGED Owned
  BY <1>1, <1>6 DEF ResumeClaim, CheckAvailable, LeaveInflight, WgDone, Stages
<1>7. ASSUME NEW t \in Tasks, DispatchSend(t) PROVE UNCHANGED Owned
  <2>1. stage[t] = "added" /\ Count("added") >= 1
    BY <1>7, CountNat DEF DispatchSend, At
  <2>2. Len(taskChan) < MaxConc
    BY <2>1, CountsNat, MaxConcPositive DEF IInv, ChanIsQueued, SlotsBound
  <2>3. MoveTo(t, "queued")
    BY <1>7, <2>2 DEF DispatchSend
  <2> QED
    BY <1>1, <2>1, <2>3 DEF Stages
<1>8. ASSUME NEW t \in Tasks, RunAcquire(t) PROVE UNCHANGED Owned
  BY <1>1, <1>8 DEF RunAcquire, Stages
<1>9. CASE RunReceive
  <2>1. /\ Head(taskChan) \in Tasks
        /\ Head(taskChan) = taskChan[1] /\ 1 \in 1..Len(taskChan)
    BY <1>9, HeadTailProperties, EmptySeq DEF RunReceive, IInv, TypeOK
  <2>2. stage[Head(taskChan)] = "queued"
    BY <2>1 DEF IInv, ChanIsQueued
  <2> QED
    BY <1>1, <1>9, <2>1, <2>2 DEF RunReceive, Stages
<1>10. CASE RunQuit \/ StopBegin \/ StopEnd \/ UNCHANGED vars
  BY <1>10 DEF RunQuit, StopBegin, StopEnd, vars, Owned
<1> QED
  BY <1>3, <1>4, <1>5, <1>6, <1>7, <1>8, <1>9, <1>10
  DEF Next, ResumeStep, DispatchStep, RunStep, TaskStep

(***************************************************************************)
(* The worker implements SlotPool: for any number of tasks, slots and      *)
(* orphans, no more than MaxConc tasks own a slot.                         *)
(***************************************************************************)
THEOREM WorkerImplementsSlotPool == Spec => ImplementsSlotPool
<1> QED
  BY InitRefines, StepRefines, Invariance, PTL
  DEF Spec, ImplementsSlotPool, Pool!Spec

=============================================================================
