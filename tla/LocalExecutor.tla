--------------------------- MODULE LocalExecutor ---------------------------
(***************************************************************************)
(* Tasks of the apps the platform runs itself (is_local rows):             *)
(* src/backend/services/local_executor.go, with the handlers that create   *)
(* and cancel them and the boot's recovery of DISPATCHED rows.             *)
(*                                                                         *)
(* Rows and the upload directory survive the process; slots, batch and     *)
(* goroutines do not.  A graceful stop waits for none of them, so it is a  *)
(* crash to this component.                                                *)
(***************************************************************************)
EXTENDS Integers, Sequences, FiniteSets

CONSTANTS
  Tasks,        \* ids of local tasks, in the order of created_at
  Files,        \* local paths of remotely uploaded files
  Inputs,       \* Inputs[t]: the files task t names, in their order
  MaxConc,      \* maxConc, at least 1 (NewLocalExecutor)
  BatchLimit,   \* LIMIT of the dispatch query
  MaxRestarts   \* bound: ends of the process in a behaviour

ASSUME TasksAreIds == Tasks \subseteq Nat /\ IsFiniteSet(Tasks)
ASSUME InputsAssumption == Inputs \in [Tasks -> Seq(Files)]
ASSUME LimitsAssumption ==
  MaxConc \in Nat \ {0} /\ BatchLimit \in Nat \ {0} /\ MaxRestarts \in Nat

VARIABLES
  status,      \* status[t]; "NONE" before the row exists
  disk,        \* disk[f]: what the upload directory has of f
  filler,      \* filler[f]: the task writing the file now at that path, if any
  phase,       \* "down" or "up"
  sem,         \* tokens in the semaphore
  disp,        \* the dispatch loop
  proc,        \* proc[t]: processTask of t, at input i of its node list
  cancelling,  \* tasks a cancel request has found cancellable
  restarts     \* ends of the process so far

files == <<disk, filler>>
vars == <<status, disk, filler, phase, sem, disp, proc, cancelling, restarts>>

Statuses == {"NONE", "PENDING", "DISPATCHED", "RUNNING",
             "SUCCESS", "FAILED", "CANCELLED"}
ProcPcs == {"none", "load", "begin", "resolve", "fetch", "copy",
            "execute", "succeed", "fail", "end"}
NoProc == [pc |-> "none", i |-> 1]
NoDisp == [pc |-> "idle", batch |-> {}]

TypeOK ==
  /\ status \in [Tasks -> Statuses]
  /\ disk \in [Files -> {"absent", "partial", "complete"}]
  /\ filler \in [Files -> SUBSET Tasks]
  /\ phase \in {"down", "up"}
  /\ sem \in 0..MaxConc
  /\ disp \in [pc : {"idle", "next", "mark"}, batch : SUBSET Tasks]
  /\ proc \in [Tasks -> [pc : ProcPcs, i : Nat \ {0}]]
  /\ cancelling \subseteq Tasks
  /\ restarts \in 0..MaxRestarts

First(S) == CHOOSE t \in S : \A u \in S : t <= u
Having(s) == {t \in Tasks : status[t] = s}
SetStatus(t, s) == status' = [status EXCEPT ![t] = s]
At(t, pc) == proc[t].pc = pc
Goto(t, pc) == proc' = [proc EXCEPT ![t].pc = pc]
NextInput(t) == proc' = [proc EXCEPT ![t] = [pc |-> "resolve", i |-> proc[t].i + 1]]
File(t) == Inputs[t][proc[t].i]

Init ==
  /\ status = [t \in Tasks |-> "NONE"]
  /\ disk = [f \in Files |-> "absent"]
  /\ filler = [f \in Files |-> {}]
  /\ phase = "down"
  /\ sem = 0
  /\ disp = NoDisp
  /\ proc = [t \in Tasks |-> NoProc]
  /\ cancelling = {}
  /\ restarts = 0

-----------------------------------------------------------------------------
(* Boot and end of the process.                                            *)

\* recoverOrphanedTasks resets local rows too; resumeRunningTasks skips them.
Boot ==
  /\ phase = "down"
  /\ phase' = "up"
  /\ status' = [t \in Tasks |-> IF status[t] = "DISPATCHED" THEN "PENDING"
                                ELSE status[t]]
  /\ UNCHANGED <<files, sem, disp, proc, cancelling, restarts>>

\* A file being written stays as far as it was written.
Halt ==
  /\ phase = "up"
  /\ restarts < MaxRestarts
  /\ restarts' = restarts + 1
  /\ phase' = "down"
  /\ sem' = 0
  /\ disp' = NoDisp
  /\ proc' = [t \in Tasks |-> NoProc]
  /\ cancelling' = {}
  /\ filler' = [f \in Files |-> {}]
  /\ UNCHANGED <<status, disk>>

-----------------------------------------------------------------------------
(* The dispatch loop: a slot first, then the row, then the goroutine.      *)

DispatchQuery ==
  /\ phase = "up"
  /\ disp.pc = "idle"
  /\ Having("PENDING") # {}
  /\ disp' = [pc |-> "next",
              batch |-> {t \in Having("PENDING") :
                           Cardinality({u \in Having("PENDING") : u < t}) < BatchLimit}]
  /\ UNCHANGED <<status, files, phase, sem, proc, cancelling, restarts>>

\* Mutant: a slot is looked for but not taken.
DispatchAcquireUncounted ==
  /\ disp.pc = "next"
  /\ IF sem < MaxConc THEN disp' = [disp EXCEPT !.pc = "mark"] ELSE disp' = NoDisp
  /\ UNCHANGED <<status, files, phase, sem, proc, cancelling, restarts>>

\* The non-blocking send to sem; without a slot the batch is dropped.
DispatchAcquire ==
  /\ disp.pc = "next"
  /\ IF sem < MaxConc
     THEN sem' = sem + 1 /\ disp' = [disp EXCEPT !.pc = "mark"]
     ELSE disp' = NoDisp /\ UNCHANGED sem
  /\ UNCHANGED <<status, files, phase, proc, cancelling, restarts>>

AfterFirst ==
  LET rest == disp.batch \ {First(disp.batch)}
  IN  IF rest = {} THEN NoDisp ELSE [pc |-> "next", batch |-> rest]

\* Mutants: the row is not marked; the batch does not advance.
DispatchMarkSilent ==
  /\ disp.pc = "mark"
  /\ Goto(First(disp.batch), "load")
  /\ disp' = AfterFirst
  /\ UNCHANGED <<status, files, phase, sem, cancelling, restarts>>

DispatchMarkStays ==
  /\ disp.pc = "mark"
  /\ SetStatus(First(disp.batch), "DISPATCHED")
  /\ Goto(First(disp.batch), "load")
  /\ disp' = [disp EXCEPT !.pc = "next"]
  /\ UNCHANGED <<files, phase, sem, cancelling, restarts>>

\* The mark is written whatever the row has become since the query.
DispatchMark ==
  /\ disp.pc = "mark"
  /\ SetStatus(First(disp.batch), "DISPATCHED")
  /\ Goto(First(disp.batch), "load")
  /\ disp' = AfterFirst
  /\ UNCHANGED <<files, phase, sem, cancelling, restarts>>

-----------------------------------------------------------------------------
(* processTask.                                                            *)

\* Mutant: a cancelled task returns without its slot.
LoadLeaks(t) ==
  /\ At(t, "load")
  /\ IF status[t] = "CANCELLED" THEN Goto(t, "none") ELSE Goto(t, "begin")
  /\ UNCHANGED <<status, files, phase, sem, disp, cancelling, restarts>>

Load(t) ==
  /\ At(t, "load")
  /\ IF status[t] = "CANCELLED" THEN Goto(t, "end") ELSE Goto(t, "begin")
  /\ UNCHANGED <<status, files, phase, sem, disp, cancelling, restarts>>

\* RUNNING is written whatever the row has become; the node list may not parse.
Begin(t) ==
  /\ At(t, "begin")
  /\ SetStatus(t, "RUNNING")
  /\ Goto(t, "resolve") \/ Goto(t, "fail")
  /\ UNCHANGED <<files, phase, sem, disp, cancelling, restarts>>

\* A file that exists counts as there, whoever may still be writing it.
\* A record without a URL and an output directory that cannot be made fail.
Resolve(t) ==
  /\ At(t, "resolve")
  /\ IF proc[t].i > Len(Inputs[t]) THEN Goto(t, "execute") \/ Goto(t, "fail")
     ELSE IF disk[File(t)] # "absent" THEN NextInput(t)
     ELSE Goto(t, "fetch") \/ Goto(t, "fail")
  /\ UNCHANGED <<status, files, phase, sem, disp, cancelling, restarts>>

\* The GET has no time-out.  Its answer creates, or truncates, the file.
FetchOpen(t) ==
  /\ At(t, "fetch")
  /\ disk' = [disk EXCEPT ![File(t)] = "partial"]
  /\ filler' = [filler EXCEPT ![File(t)] = {t}]
  /\ Goto(t, "copy")
  /\ UNCHANGED <<status, phase, sem, disp, cancelling, restarts>>

FetchFail(t) ==
  /\ At(t, "fetch")
  /\ Goto(t, "fail")
  /\ UNCHANGED <<status, files, phase, sem, disp, cancelling, restarts>>

\* All is written.  Only the last to truncate the file has written all of
\* what is at the path now.
CopyDone(t) ==
  /\ At(t, "copy")
  /\ disk' = IF t \in filler[File(t)] THEN [disk EXCEPT ![File(t)] = "complete"] ELSE disk
  /\ filler' = [filler EXCEPT ![File(t)] = @ \ {t}]
  /\ NextInput(t)
  /\ UNCHANGED <<status, phase, sem, disp, cancelling, restarts>>

\* Mutants: the error is only logged; the task returns without a result.
CopyFailIgnored(t) ==
  /\ At(t, "copy")
  /\ filler' = [filler EXCEPT ![File(t)] = @ \ {t}]
  /\ NextInput(t)
  /\ UNCHANGED <<status, disk, phase, sem, disp, cancelling, restarts>>

CopyFailSilent(t) ==
  /\ At(t, "copy")
  /\ disk' = [disk EXCEPT ![File(t)] = "absent"]
  /\ filler' = [filler EXCEPT ![File(t)] = {}]
  /\ Goto(t, "end")
  /\ UNCHANGED <<status, phase, sem, disp, cancelling, restarts>>

\* os.Remove takes whatever file is at the path.
CopyFail(t) ==
  /\ At(t, "copy")
  /\ disk' = [disk EXCEPT ![File(t)] = "absent"]
  /\ filler' = [filler EXCEPT ![File(t)] = {}]
  /\ Goto(t, "fail")
  /\ UNCHANGED <<status, phase, sem, disp, cancelling, restarts>>

\* The app ends within its time-out.
Execute(t) ==
  /\ At(t, "execute")
  /\ Goto(t, "succeed") \/ Goto(t, "fail")
  /\ UNCHANGED <<status, files, phase, sem, disp, cancelling, restarts>>

Result(t) == IF At(t, "succeed") THEN "SUCCESS" ELSE "FAILED"

\* Mutant: a failure returns the slot, and so does the deferred function.
WriteResultReleases(t) ==
  /\ proc[t].pc \in {"succeed", "fail"}
  /\ SetStatus(t, Result(t))
  /\ sem' = IF At(t, "fail") THEN sem - 1 ELSE sem
  /\ Goto(t, "end")
  /\ UNCHANGED <<files, phase, disp, cancelling, restarts>>

\* The result is written whatever the row has become.
WriteResult(t) ==
  /\ proc[t].pc \in {"succeed", "fail"}
  /\ SetStatus(t, Result(t))
  /\ Goto(t, "end")
  /\ UNCHANGED <<files, phase, sem, disp, cancelling, restarts>>

End(t) ==
  /\ At(t, "end")
  /\ sem' = sem - 1
  /\ proc' = [proc EXCEPT ![t] = NoProc]
  /\ UNCHANGED <<status, files, phase, disp, cancelling, restarts>>

-----------------------------------------------------------------------------
(* Requests.                                                               *)

Submit(t) ==
  /\ phase = "up"
  /\ t \in Having("NONE")
  /\ t = First(Having("NONE"))
  /\ SetStatus(t, "PENDING")
  /\ UNCHANGED <<files, phase, sem, disp, proc, cancelling, restarts>>

CancelCheck(t) ==
  /\ phase = "up"
  /\ t \notin cancelling
  /\ status[t] \in {"PENDING", "DISPATCHED", "RUNNING"}
  /\ cancelling' = cancelling \cup {t}
  /\ UNCHANGED <<status, files, phase, sem, disp, proc, restarts>>

CancelWrite(t) ==
  /\ t \in cancelling
  /\ cancelling' = cancelling \ {t}
  /\ SetStatus(t, "CANCELLED")
  /\ UNCHANGED <<files, phase, sem, disp, proc, restarts>>

-----------------------------------------------------------------------------
DispatchStep == DispatchQuery \/ DispatchAcquire \/ DispatchMark

\* What a task does by itself, and what the network does to it.
OwnStep(t) == Load(t) \/ Begin(t) \/ Resolve(t) \/ Execute(t) \/ WriteResult(t) \/ End(t)
NetworkStep(t) == FetchOpen(t) \/ FetchFail(t) \/ CopyDone(t) \/ CopyFail(t)

Next ==
  \/ Boot \/ Halt
  \/ DispatchStep
  \/ \E t \in Tasks : \/ OwnStep(t) \/ NetworkStep(t)
                      \/ Submit(t) \/ CancelCheck(t) \/ CancelWrite(t)

Spec == Init /\ [][Next]_vars

(***************************************************************************)
(* Goroutines are scheduled, the loop ticks, the app ends by its time-out, *)
(* the process is restarted.  Nothing bounds a download: http.Get and the  *)
(* copy have no time-out, so NetworkStep is not fair.                      *)
(***************************************************************************)
Fairness ==
  /\ WF_vars(Boot)
  /\ WF_vars(DispatchStep)
  /\ \A t \in Tasks : WF_vars(OwnStep(t))

FairSpec == Spec /\ Fairness

-----------------------------------------------------------------------------
(* Properties.                                                             *)

Processed == {t \in Tasks : ~At(t, "none")}

(***************************************************************************)
(* The loop never starts a task that is being processed: what is left of a *)
(* batch has no goroutine (local_executor.go:74-102).                      *)
(***************************************************************************)
BatchIsFresh == disp.batch \cap Processed = {}

Pool == INSTANCE SlotPool WITH owned <- Processed

(***************************************************************************)
(* From one start of the process to its end the executor is a pool of      *)
(* maxConc slots: the token taken by the loop is what a task owns until    *)
(* its deferred release (local_executor.go:89, 105).                       *)
(***************************************************************************)
ExecutorIsPool ==
  /\ Pool!Init
  /\ [][UNCHANGED Processed \/ Pool!Next \/ phase' = "down"]_vars

(***************************************************************************)
(* Only the end of the process leaves a DISPATCHED or RUNNING row without  *)
(* a goroutine: every other way out of processTask writes a result, or     *)
(* found the row CANCELLED (local_executor.go:104-211).                    *)
(***************************************************************************)
Stranded(t) == status[t] \in {"DISPATCHED", "RUNNING"} /\ At(t, "none")

OnlyHaltStrands ==
  [][\A t \in Tasks : Stranded(t)' => Stranded(t) \/ phase' = "down"]_vars

(***************************************************************************)
(* A local result is replaced by nothing but a cancel that raced it.  A    *)
(* cancel is undone only by the mark of a batch read before it or by a     *)
(* goroutine past its one look at the status (local_executor.go:92,        *)
(* 115-121, 197, 208): not by the boot, nor once the goroutine has ended.  *)
(***************************************************************************)
CancelHolds(t) ==
  t \notin disp.batch /\ proc[t].pc \in {"none", "load", "end"}

LocalResultStays ==
  [][\A t \in Tasks :
       /\ status[t] \in {"SUCCESS", "FAILED"} => status'[t] \in {status[t], "CANCELLED"}
       /\ status[t] = "CANCELLED" /\ CancelHolds(t) => status'[t] = "CANCELLED"]_vars

(***************************************************************************)
(* "Resolve remote files: download from URL if file is not local"          *)
(* (local_executor.go:137): while the app of a task runs, all its files    *)
(* are on disk.                                                            *)
(***************************************************************************)
InputFiles(t) == {Inputs[t][i] : i \in DOMAIN Inputs[t]}

InputsWhole ==
  \A t \in Tasks : At(t, "execute") => \A f \in InputFiles(t) : disk[f] = "complete"

(***************************************************************************)
(* InputsWhole holds of a file that no other task names, until the process *)
(* first ends: the errors of a download are all noticed.                   *)
(***************************************************************************)
OwnInputsWhole ==
  \A t \in Tasks : At(t, "execute") /\ restarts = 0 =>
    \A f \in InputFiles(t) :
      disk[f] = "complete" \/ \E u \in Tasks \ {t} : f \in InputFiles(u)

(***************************************************************************)
(* As long as no download hangs forever, a PENDING local task does not     *)
(* stay PENDING: every slot comes back, on every path of processTask.      *)
(***************************************************************************)
DownloadsReturn == \A t \in Tasks : []<>(~At(t, "fetch") /\ ~At(t, "copy"))

PendingLocalIsStarted ==
  DownloadsReturn => \A t \in Tasks : status[t] = "PENDING" ~> status[t] # "PENDING"

=============================================================================
