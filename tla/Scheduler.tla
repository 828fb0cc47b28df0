------------------------------ MODULE Scheduler ------------------------------
(***************************************************************************)
(* The life of a RunningHub task across the whole backend:                 *)
(*                                                                         *)
(*   - the rows of the database, which survive a restart,                  *)
(*   - the scheduler's boot (recover, resume) and its dispatch loop,       *)
(*   - the workers, one per active API key, and a processTask goroutine    *)
(*     per task, whose slots the Worker module proves to be a SlotPool,    *)
(*   - the HTTP handlers that create and cancel tasks and that create,     *)
(*     update and delete API keys,                                         *)
(*   - crashes and graceful stops of the process.                          *)
(*                                                                         *)
(* Every database statement is one step; nothing in the code groups two of *)
(* them into a transaction.  Sources: src/backend/services/scheduler.go,   *)
(* services/worker.go, handlers/task.go, handlers/proxy.go,                *)
(* handlers/apikey.go, main.go.                                            *)
(***************************************************************************)
EXTENDS Integers, Sequences, FiniteSets

CONSTANTS
  Tasks,          \* ids, in the order of created_at
  Keys,           \* API keys
  InitKeys,       \* the keys present, and active, in the first database
  MaxConc,        \* max_concurrency of each key
  None,           \* a NULL api_key_id
  BatchLimit,     \* LIMIT of the dispatch query
  MaxRetries,     \* maxRetries of processTask
  MaxPolls,       \* poll_max_attempts
  MaxRestarts,    \* bound: crashes and stops in a behaviour
  MaxKeyChanges,  \* bound: key requests in a behaviour
  MaxDisturbances \* bound: crashes, stops and key requests together

ASSUME TasksAreIds == Tasks \subseteq Nat /\ IsFiniteSet(Tasks)
ASSUME KeysAssumption == IsFiniteSet(Keys) /\ InitKeys \subseteq Keys /\ None \notin Keys
ASSUME MaxConcAssumption == MaxConc \in [Keys -> Nat \ {0}]
ASSUME BoundsAssumption ==
  /\ BatchLimit \in Nat \ {0}
  /\ {MaxRetries, MaxPolls, MaxRestarts, MaxKeyChanges, MaxDisturbances} \subseteq Nat

VARIABLES
  \* the database
  status,      \* status[t]; "NONE" before the row exists
  rowKey,      \* api_key_id of the row
  rhId,        \* rh_task_id of the row, 0 when empty
  keyRow,      \* the api_keys row: "active" or "inactive"; "absent" before
               \* the key is created, "deleted" after: ids are not used again
  \* RunningHub
  jobs,        \* jobs[t]: how many jobs RunningHub has accepted for t
  lost,        \* lost[t]: how many of those acceptances never arrived
  jobKey,      \* history: the key with which the job in rh_task_id was made
  \* the process
  phase,       \* "down", "resuming", "serving", "stopping", "stopped"
  toResume,    \* RUNNING rows the boot has still to resume
  gen,         \* gen[k]: how many workers key k has had, less one
  live,        \* the scheduler's map: the worker of each key
  chan,        \* chan[w]: the task channel of worker w
  quit,        \* workers whose quit channel is closed
  exited,      \* workers whose run loop has returned
  proc,        \* proc[t]: the processTask or resumed poll of t
  disp,        \* the dispatch loop
  admin,       \* the one key request under way
  cancelling,  \* tasks a cancel request has found cancellable
  restarts,    \* crashes and stops so far
  keyChanges   \* key requests so far

db    == <<status, rowKey, rhId, keyRow>>
hub   == <<jobs, lost, jobKey>>
pool  == <<gen, live, chan, quit, exited>>
count == <<restarts, keyChanges>>
vars  == <<status, rowKey, rhId, keyRow, jobs, lost, jobKey, phase, toResume, gen,
           live, chan, quit, exited, proc, disp, admin, cancelling, restarts, keyChanges>>

Statuses == {"NONE", "PENDING", "DISPATCHED", "RUNNING",
             "SUCCESS", "FAILED", "CANCELLED"}

\* A worker is its key and the number of workers the key had before it.
Workers == Keys \X (0..MaxKeyChanges)
Undisturbed == restarts + keyChanges < MaxDisturbances
KeyOf(w) == w[1]

ProcPcs == {"none", "load", "create", "recheck", "record",
            "poll", "query", "succeed", "fail"}
NoProc == [pc |-> "none", w |-> None, n |-> 0, job |-> 0]
NoDisp == [pc |-> "idle", batch |-> {}, avail |-> {}, w |-> None]
NoAdmin == [pc |-> "idle", op |-> "none", key |-> None]

TypeOK ==
  /\ status \in [Tasks -> Statuses]
  /\ rowKey \in [Tasks -> Keys \cup {None}]
  /\ rhId \in [Tasks -> Nat]
  /\ keyRow \in [Keys -> {"absent", "active", "inactive", "deleted"}]
  /\ jobs \in [Tasks -> Nat] /\ lost \in [Tasks -> Nat]
  /\ jobKey \in [Tasks -> Keys \cup {None}]
  /\ phase \in {"down", "resuming", "serving", "stopping", "stopped"}
  /\ toResume \subseteq Tasks
  /\ gen \in [Keys -> 0..MaxKeyChanges]
  /\ live \subseteq Workers /\ quit \subseteq Workers /\ exited \subseteq quit
  /\ chan \in [Workers -> Seq(Tasks)]
  /\ proc \in [Tasks -> [pc : ProcPcs, w : Workers \cup {None}, n : Nat, job : Nat]]
  /\ disp \in [pc : {"idle", "list", "send", "mark"}, batch : SUBSET Tasks,
               avail : SUBSET Workers, w : Workers \cup {None}]
  /\ admin \in [pc : {"idle", "lock", "drain", "add", "row"},
                op : {"none", "restart", "stop", "delete"}, key : Keys \cup {None}]
  /\ cancelling \subseteq Tasks
  /\ restarts \in 0..MaxRestarts
  /\ keyChanges \in 0..MaxKeyChanges

-----------------------------------------------------------------------------
(* Helpers.                                                                *)

First(S) == CHOOSE t \in S : \A u \in S : t <= u

Having(s) == {t \in Tasks : status[t] = s}

HasRow(k) == keyRow[k] \in {"active", "inactive"}

SetStatus(t, s) == status' = [status EXCEPT ![t] = s]

Running(w) == {t \in Tasks : proc[t].pc # "none" /\ proc[t].w = w}

\* inflight: the tasks a worker owns, queued and running.
Load(w) == Len(chan[w]) + Cardinality(Running(w))
Available(w) == Load(w) < MaxConc[KeyOf(w)]

\* sem: a token is free.
TokenFree(w) == Cardinality(Running(w)) < MaxConc[KeyOf(w)]

\* The scheduler's RWMutex: dispatch reads, key changes and Stop write.
ReadLocked == disp.pc \in {"send", "mark"}
WriteLocked == admin.pc = "drain" \/ phase = "stopping"
WorkersOf(k) == {w \in live : KeyOf(w) = k}

-----------------------------------------------------------------------------
(* An empty database with some keys, and no process.                       *)

Init ==
  /\ status = [t \in Tasks |-> "NONE"]
  /\ rowKey = [t \in Tasks |-> None]
  /\ rhId = [t \in Tasks |-> 0]
  /\ keyRow = [k \in Keys |-> IF k \in InitKeys THEN "active" ELSE "absent"]
  /\ jobs = [t \in Tasks |-> 0]
  /\ lost = [t \in Tasks |-> 0]
  /\ jobKey = [t \in Tasks |-> None]
  /\ phase = "down"
  /\ toResume = {}
  /\ gen = [k \in Keys |-> 0]
  /\ live = {} /\ quit = {} /\ exited = {}
  /\ chan = [w \in Workers |-> <<>>]
  /\ proc = [t \in Tasks |-> NoProc]
  /\ disp = NoDisp
  /\ admin = NoAdmin
  /\ cancelling = {}
  /\ restarts = 0
  /\ keyChanges = 0

-----------------------------------------------------------------------------
(* Boot: Scheduler.Start.  HTTP is not served before it returns.           *)

Boot ==
  /\ phase = "down"
  /\ status' = [t \in Tasks |-> IF status[t] = "DISPATCHED" THEN "PENDING"
                                ELSE status[t]]
  /\ live' = {<<k, 0>> : k \in {k \in Keys : keyRow[k] = "active"}}
  /\ toResume' = {t \in Having("RUNNING") : rhId[t] # 0}
  /\ phase' = "resuming"
  /\ UNCHANGED <<rowKey, rhId, keyRow, hub, gen, chan, quit, exited, proc, disp,
                 admin, cancelling, count>>

\* The next row of resumeRunningTasks.  With its worker at the limit the
\* send to the semaphore blocks, and so does the boot.
ResumeNext ==
  /\ phase = "resuming"
  /\ toResume # {}
  /\ LET t == First(toResume)
         k == rowKey[t]
     IN  /\ toResume' = toResume \ {t}
         /\ IF k = None THEN UNCHANGED <<status, proc>>
            ELSE IF WorkersOf(k) # {}
            THEN \E w \in WorkersOf(k) :
                   /\ TokenFree(w)
                   /\ proc' = [proc EXCEPT ![t] =
                                 [pc |-> "poll", w |-> w, n |-> 0, job |-> rhId[t]]]
                   /\ UNCHANGED status
            ELSE /\ IF HasRow(k) THEN SetStatus(t, "FAILED") ELSE UNCHANGED status
                 /\ UNCHANGED proc
  /\ UNCHANGED <<rowKey, rhId, keyRow, hub, phase, pool, disp, admin, cancelling, count>>

StartDispatch ==
  /\ phase = "resuming"
  /\ toResume = {}
  /\ phase' = "serving"
  /\ UNCHANGED <<db, hub, toResume, pool, proc, disp, admin, cancelling, count>>

-----------------------------------------------------------------------------
(* The dispatch loop.  After quit is closed its select may still take the  *)
(* ticker's case, so it may run on until the process exits.                *)

\* SELECT ... WHERE status = PENDING ORDER BY created_at LIMIT, no lock held.
DispatchQuery ==
  /\ phase \in {"serving", "stopping", "stopped"}
  /\ disp.pc = "idle"
  /\ Having("PENDING") # {}
  /\ disp' = [NoDisp EXCEPT
       !.pc = "list",
       !.batch = {t \in Having("PENDING") :
                    Cardinality({u \in Having("PENDING") : u < t}) < BatchLimit}]
  /\ UNCHANGED <<db, hub, phase, toResume, pool, proc, admin, cancelling, count>>

\* Read lock and list of the available workers.
DispatchList ==
  /\ disp.pc = "list"
  /\ ~WriteLocked
  /\ LET avail == {w \in live : Available(w)}
     IN  disp' = IF avail = {} THEN NoDisp
                 ELSE [disp EXCEPT !.pc = "send", !.avail = avail]
  /\ UNCHANGED <<db, hub, phase, toResume, pool, proc, admin, cancelling, count>>

\* Mutant: the worker's availability is not checked again.
AdvanceUnchecked(w) ==
  LET batch == disp.batch \ {First(disp.batch)}
  IN  IF batch = {} THEN NoDisp
      ELSE [pc |-> "send", batch |-> batch, avail |-> disp.avail, w |-> None]

\* What is left to dispatch after the batch's oldest task went to w, whose
\* availability is checked again.
Advance(w) ==
  LET batch == disp.batch \ {First(disp.batch)}
      avail == IF Available(w) THEN disp.avail ELSE disp.avail \ {w}
  IN  IF batch = {} \/ avail = {} THEN NoDisp
      ELSE [pc |-> "send", batch |-> batch, avail |-> avail, w |-> None]

\* Dispatch of the oldest task of the batch to a worker of the strategy's
\* choice (any available one here); a full channel refuses the task.
DispatchSend(w) ==
  /\ disp.pc = "send"
  /\ w \in disp.avail
  /\ IF Len(chan[w]) < MaxConc[KeyOf(w)]
     THEN /\ chan' = [chan EXCEPT ![w] = Append(@, First(disp.batch))]
          /\ disp' = [disp EXCEPT !.pc = "mark", !.w = w]
     ELSE /\ disp' = Advance(w)
          /\ UNCHANGED chan
  /\ UNCHANGED <<db, hub, phase, toResume, gen, live, quit, exited, proc, admin,
                 cancelling, count>>

\* Mutants: the row's status is not written; the worker is stored for its key.
DispatchMarkKeyOnly ==
  /\ disp.pc = "mark"
  /\ rowKey' = [rowKey EXCEPT ![First(disp.batch)] = KeyOf(disp.w)]
  /\ disp' = Advance(disp.w)
  /\ UNCHANGED <<status, rhId, keyRow, hub, phase, toResume, pool, proc, admin,
                 cancelling, count>>

DispatchMarkWorker ==
  /\ disp.pc = "mark"
  /\ SetStatus(First(disp.batch), "DISPATCHED")
  /\ rowKey' = [rowKey EXCEPT ![First(disp.batch)] = disp.w]
  /\ disp' = Advance(disp.w)
  /\ UNCHANGED <<rhId, keyRow, hub, phase, toResume, pool, proc, admin, cancelling, count>>

\* The row is marked after the worker has the task, whatever became of the
\* task meanwhile.
DispatchMark ==
  /\ disp.pc = "mark"
  /\ LET t == First(disp.batch)
     IN  /\ SetStatus(t, "DISPATCHED")
         /\ rowKey' = [rowKey EXCEPT ![t] = KeyOf(disp.w)]
  /\ disp' = Advance(disp.w)
  /\ UNCHANGED <<rhId, keyRow, hub, phase, toResume, pool, proc, admin, cancelling, count>>

-----------------------------------------------------------------------------
(* A worker's loop.  Both selects of run are one step: Worker proves that  *)
(* a received task never waits for its token.  The choice between a task   *)
(* and quit is random.                                                     *)

SetProc(t, p) == proc' = [proc EXCEPT ![t] = p]
Goto(t, pc) == SetProc(t, [proc[t] EXCEPT !.pc = pc])
Done(t) == SetProc(t, NoProc)

RunStart(w) ==
  /\ w \in (live \cup quit) \ exited
  /\ chan[w] # <<>>
  /\ TokenFree(w)
  /\ SetProc(Head(chan[w]), [NoProc EXCEPT !.pc = "load", !.w = w])
  /\ chan' = [chan EXCEPT ![w] = Tail(@)]
  /\ UNCHANGED <<db, hub, phase, toResume, gen, live, quit, exited, disp, admin,
                 cancelling, count>>

\* The tasks left in the channel are never looked at again.
RunExit(w) ==
  /\ w \in quit \ exited
  /\ exited' = exited \cup {w}
  /\ UNCHANGED <<db, hub, phase, toResume, gen, live, chan, quit, proc, disp, admin,
                 cancelling, count>>

-----------------------------------------------------------------------------
(* processTask.  Each goroutine ends by returning its token and its count. *)

\* First read of the row; nodeInfoList may also turn out not to be JSON.
LoadRow(t) ==
  /\ proc[t].pc = "load"
  /\ IF status[t] = "CANCELLED" THEN Done(t)
     ELSE Goto(t, "create") \/ Goto(t, "fail")
  /\ UNCHANGED <<db, hub, phase, toResume, pool, disp, admin, cancelling, count>>

\* After a transient error: another attempt, or the end of the retries.
RetryOrFail(t) ==
  IF proc[t].n < MaxRetries
  THEN SetProc(t, [proc[t] EXCEPT !.pc = "recheck", !.n = @ + 1])
  ELSE Goto(t, "fail")

\* Mutant: an acceptance in an unexpected form is taken for a transient error.
CreateAcceptedRetried(t) ==
  /\ proc[t].pc = "create"
  /\ jobs' = [jobs EXCEPT ![t] = @ + 1]
  /\ RetryOrFail(t)
  /\ UNCHANGED <<db, lost, jobKey, phase, toResume, pool, disp, admin, cancelling, count>>

\* RunningHub's create call: accepted; accepted, but the answer is lost to a
\* time-out; a retryable error; any other error.
CreateAccepted(t) ==
  /\ proc[t].pc = "create"
  /\ jobs' = [jobs EXCEPT ![t] = @ + 1]
  /\ SetProc(t, [proc[t] EXCEPT !.pc = "record", !.job = jobs[t] + 1])
  /\ UNCHANGED <<db, lost, jobKey, phase, toResume, pool, disp, admin, cancelling, count>>

CreateAnswerLost(t) ==
  /\ proc[t].pc = "create"
  /\ jobs' = [jobs EXCEPT ![t] = @ + 1]
  /\ lost' = [lost EXCEPT ![t] = @ + 1]
  /\ RetryOrFail(t)
  /\ UNCHANGED <<db, jobKey, phase, toResume, pool, disp, admin, cancelling, count>>

CreateRefused(t) ==
  /\ proc[t].pc = "create"
  /\ RetryOrFail(t) \/ Goto(t, "fail")
  /\ UNCHANGED <<db, hub, phase, toResume, pool, disp, admin, cancelling, count>>

\* The sleep between attempts is over; a cancelled task is given up.
Recheck(t) ==
  /\ proc[t].pc = "recheck"
  /\ IF status[t] = "CANCELLED" THEN Done(t) ELSE Goto(t, "create")
  /\ UNCHANGED <<db, hub, phase, toResume, pool, disp, admin, cancelling, count>>

\* The row becomes RUNNING whatever it was.  api_key_id is left to dispatch,
\* so nothing but the goroutine knows with whose key the job was made.
RecordRunning(t) ==
  /\ proc[t].pc = "record"
  /\ SetStatus(t, "RUNNING")
  /\ rhId' = [rhId EXCEPT ![t] = proc[t].job]
  /\ jobKey' = [jobKey EXCEPT ![t] = KeyOf(proc[t].w)]
  /\ SetProc(t, [proc[t] EXCEPT !.pc = "poll", !.n = 0])
  /\ UNCHANGED <<rowKey, keyRow, jobs, lost, phase, toResume, pool, disp, admin,
                 cancelling, count>>

\* Mutant: no limit to the polls.
PollTickForever(t) ==
  /\ proc[t].pc = "poll"
  /\ IF status[t] = "CANCELLED" THEN Done(t) ELSE Goto(t, "query")
  /\ UNCHANGED <<db, hub, phase, toResume, pool, disp, admin, cancelling, count>>

\* A tick of pollTaskResult: the limit first, then the cancellation check.
PollTick(t) ==
  /\ proc[t].pc = "poll"
  /\ IF proc[t].n >= MaxPolls THEN Goto(t, "fail")
     ELSE IF status[t] = "CANCELLED" THEN Done(t)
     ELSE SetProc(t, [proc[t] EXCEPT !.pc = "query", !.n = @ + 1])
  /\ UNCHANGED <<db, hub, phase, toResume, pool, disp, admin, cancelling, count>>

\* Mutant: one quit channel for all workers.
PollQuitShared(t) ==
  /\ proc[t].pc = "poll"
  /\ quit # {}
  /\ Done(t)
  /\ UNCHANGED <<db, hub, phase, toResume, pool, disp, admin, cancelling, count>>

\* The worker was stopped: the poll is abandoned, the row stays RUNNING.
PollQuit(t) ==
  /\ proc[t].pc = "poll"
  /\ proc[t].w \in quit
  /\ Done(t)
  /\ UNCHANGED <<db, hub, phase, toResume, pool, disp, admin, cancelling, count>>

\* RunningHub's answer: a result, or an error or an unfinished job.
PollQuery(t) ==
  /\ proc[t].pc = "query"
  /\ Goto(t, "succeed") \/ Goto(t, "fail") \/ Goto(t, "poll")
  /\ UNCHANGED <<db, hub, phase, toResume, pool, disp, admin, cancelling, count>>

\* Mutant: the loop goes on after the result.
WriteResultNoReturn(t) ==
  /\ proc[t].pc \in {"succeed", "fail"}
  /\ SetStatus(t, IF proc[t].pc = "succeed" THEN "SUCCESS" ELSE "FAILED")
  /\ Goto(t, "poll")
  /\ UNCHANGED <<rowKey, rhId, keyRow, hub, phase, toResume, pool, disp, admin,
                 cancelling, count>>

\* The result is written whatever the row was.
WriteResult(t) ==
  /\ proc[t].pc \in {"succeed", "fail"}
  /\ SetStatus(t, IF proc[t].pc = "succeed" THEN "SUCCESS" ELSE "FAILED")
  /\ Done(t)
  /\ UNCHANGED <<rowKey, rhId, keyRow, hub, phase, toResume, pool, disp, admin,
                 cancelling, count>>

-----------------------------------------------------------------------------
(* Task requests.                                                          *)

Submit(t) ==
  /\ phase = "serving"
  /\ t \in Having("NONE")
  /\ t = First(Having("NONE"))
  /\ SetStatus(t, "PENDING")
  /\ UNCHANGED <<rowKey, rhId, keyRow, hub, phase, toResume, pool, proc, disp,
                 admin, cancelling, count>>

\* Cancel reads the row and finds it cancellable, asks RunningHub to cancel
\* the job if there is one, then writes.  A request outlives the 30 seconds
\* Shutdown waits for it until the process exits.
CancelCheck(t) ==
  /\ phase = "serving"
  /\ t \notin cancelling
  /\ status[t] \in {"PENDING", "DISPATCHED", "RUNNING"}
  /\ cancelling' = cancelling \cup {t}
  /\ UNCHANGED <<db, hub, phase, toResume, pool, proc, disp, admin, count>>

CancelWrite(t) ==
  /\ t \in cancelling
  /\ cancelling' = cancelling \ {t}
  /\ SetStatus(t, "CANCELLED")
  /\ UNCHANGED <<rowKey, rhId, keyRow, hub, phase, toResume, pool, proc, disp,
                 admin, count>>

-----------------------------------------------------------------------------
(* Key requests, one at a time: the row first, then the worker.            *)

NewKeyRequest(pc, op, k) ==
  /\ phase = "serving"
  /\ admin.pc = "idle"
  /\ keyChanges < MaxKeyChanges /\ Undisturbed
  /\ keyChanges' = keyChanges + 1
  /\ admin' = [pc |-> pc, op |-> op, key |-> k]

CreateKey(k) ==
  /\ keyRow[k] = "absent"
  /\ keyRow' = [keyRow EXCEPT ![k] = "active"]
  /\ NewKeyRequest("add", "none", k)
  /\ UNCHANGED <<status, rowKey, rhId, hub, phase, toResume, pool, proc, disp,
                 cancelling, restarts>>

UpdateKey(k, active) ==
  /\ HasRow(k)
  /\ keyRow' = [keyRow EXCEPT ![k] = IF active THEN "active" ELSE "inactive"]
  /\ NewKeyRequest("lock", IF active THEN "restart" ELSE "stop", k)
  /\ UNCHANGED <<status, rowKey, rhId, hub, phase, toResume, pool, proc, disp,
                 cancelling, restarts>>

\* Refused while a row of the key is DISPATCHED or RUNNING.
DeleteKey(k) ==
  /\ HasRow(k)
  /\ \A t \in Tasks : ~(rowKey[t] = k /\ status[t] \in {"DISPATCHED", "RUNNING"})
  /\ NewKeyRequest("lock", "delete", k)
  /\ UNCHANGED <<db, hub, phase, toResume, pool, proc, disp, cancelling, restarts>>

\* Mutant: an updated key gets no new worker.
AfterRemoveNoRestart ==
  IF admin.op = "delete" THEN [admin EXCEPT !.pc = "row"] ELSE NoAdmin

AfterRemove ==
  CASE admin.op = "restart" -> [admin EXCEPT !.pc = "add"]
    [] admin.op = "delete"  -> [admin EXCEPT !.pc = "row"]
    [] OTHER                -> NoAdmin

\* Mutant: no lock against dispatch.
RemoveWorkerUnlocked ==
  /\ admin.pc = "lock"
  /\ phase # "stopping"
  /\ LET ws == WorkersOf(admin.key)
     IN  IF ws = {} THEN admin' = AfterRemove /\ UNCHANGED quit
         ELSE IF ws \subseteq quit THEN admin' = NoAdmin /\ UNCHANGED quit
         ELSE admin' = [admin EXCEPT !.pc = "drain"] /\ quit' = quit \cup ws
  /\ UNCHANGED <<db, hub, phase, toResume, gen, live, chan, exited, proc, disp,
                 cancelling, count>>

\* RemoveWorker takes the write lock and closes the worker's quit channel.
\* A worker the scheduler's Stop has already closed makes it panic, which
\* ends the request only.
RemoveWorkerLock ==
  /\ admin.pc = "lock"
  /\ ~ReadLocked
  /\ phase # "stopping"
  /\ LET ws == WorkersOf(admin.key)
     IN  IF ws = {} THEN admin' = AfterRemove /\ UNCHANGED quit
         ELSE IF ws \subseteq quit THEN admin' = NoAdmin /\ UNCHANGED quit
         ELSE admin' = [admin EXCEPT !.pc = "drain"] /\ quit' = quit \cup ws
  /\ UNCHANGED <<db, hub, phase, toResume, gen, live, chan, exited, proc, disp,
                 cancelling, count>>

\* Mutant: the channel has to be empty as well.
RemoveWorkerEmptied ==
  /\ admin.pc = "drain"
  /\ \A w \in WorkersOf(admin.key) : Load(w) = 0
  /\ live' = live \ WorkersOf(admin.key)
  /\ admin' = AfterRemove
  /\ UNCHANGED <<db, hub, phase, toResume, gen, chan, quit, exited, proc, disp,
                 cancelling, count>>

\* wg.Wait is over: the worker leaves the map.
RemoveWorkerDrained ==
  /\ admin.pc = "drain"
  /\ \A w \in WorkersOf(admin.key) : Running(w) = {}
  /\ live' = live \ WorkersOf(admin.key)
  /\ admin' = AfterRemove
  /\ UNCHANGED <<db, hub, phase, toResume, gen, chan, quit, exited, proc, disp,
                 cancelling, count>>

AddWorker ==
  /\ admin.pc = "add"
  /\ ~ReadLocked
  /\ phase # "stopping"
  /\ LET k == admin.key
         g == IF \E w \in live \cup quit : KeyOf(w) = k THEN gen[k] + 1 ELSE gen[k]
     IN  /\ gen' = [gen EXCEPT ![k] = g]
         /\ live' = (live \ WorkersOf(k)) \cup {<<k, g>>}
  /\ admin' = NoAdmin
  /\ UNCHANGED <<db, hub, phase, toResume, chan, quit, exited, proc, disp,
                 cancelling, count>>

DeleteRow ==
  /\ admin.pc = "row"
  /\ keyRow' = [keyRow EXCEPT ![admin.key] = "deleted"]
  /\ admin' = NoAdmin
  /\ UNCHANGED <<status, rowKey, rhId, hub, phase, toResume, pool, proc, disp,
                 cancelling, count>>

-----------------------------------------------------------------------------
(* Stops and crashes.                                                      *)

\* SIGTERM: no new requests; Scheduler.Stop takes the write lock.
StopBegin ==
  /\ phase = "serving"
  /\ ~ReadLocked
  /\ admin.pc # "drain"
  /\ restarts < MaxRestarts /\ Undisturbed
  /\ restarts' = restarts + 1
  /\ phase' = "stopping"
  /\ UNCHANGED <<db, hub, toResume, pool, proc, disp, admin, cancelling, keyChanges>>

\* One worker after the other: close quit, wait for its WaitGroup.
StopWorker(w) ==
  /\ phase = "stopping"
  /\ w \in live \ quit
  /\ \A v \in live \cap quit : Running(v) = {}
  /\ quit' = quit \cup {w}
  /\ UNCHANGED <<db, hub, phase, toResume, gen, live, chan, exited, proc, disp,
                 admin, cancelling, count>>

\* Mutant: the channels have to be empty as well.
StopEndEmptied ==
  /\ phase = "stopping"
  /\ live \subseteq quit
  /\ \A w \in live : Load(w) = 0
  /\ phase' = "stopped"
  /\ UNCHANGED <<db, hub, toResume, pool, proc, disp, admin, cancelling, count>>

StopEnd ==
  /\ phase = "stopping"
  /\ live \subseteq quit
  /\ \A w \in live : Running(w) = {}
  /\ phase' = "stopped"
  /\ UNCHANGED <<db, hub, toResume, pool, proc, disp, admin, cancelling, count>>

\* All that is not in the database is gone.
LoseMemory ==
  /\ phase' = "down"
  /\ toResume' = {}
  /\ gen' = [k \in Keys |-> 0]
  /\ live' = {} /\ quit' = {} /\ exited' = {}
  /\ chan' = [w \in Workers |-> <<>>]
  /\ proc' = [t \in Tasks |-> NoProc]
  /\ disp' = NoDisp
  /\ admin' = NoAdmin
  /\ cancelling' = {}

Exit ==
  /\ phase = "stopped"
  /\ LoseMemory
  /\ UNCHANGED <<db, hub, count>>

Crash ==
  /\ phase # "down"
  /\ restarts < MaxRestarts /\ Undisturbed
  /\ restarts' = restarts + 1
  /\ LoseMemory
  /\ UNCHANGED <<db, hub, keyChanges>>

-----------------------------------------------------------------------------
TaskStep(t) ==
  \/ LoadRow(t)
  \/ CreateAccepted(t) \/ CreateAnswerLost(t) \/ CreateRefused(t) \/ Recheck(t)
  \/ RecordRunning(t)
  \/ PollTick(t) \/ PollQuit(t) \/ PollQuery(t)
  \/ WriteResult(t)

BootStep == Boot \/ ResumeNext \/ StartDispatch

DispatchStep ==
  DispatchQuery \/ DispatchList \/ (\E w \in Workers : DispatchSend(w)) \/ DispatchMark

KeyRequest(k) == CreateKey(k) \/ (\E active \in BOOLEAN : UpdateKey(k, active)) \/ DeleteKey(k)

KeyStep == RemoveWorkerLock \/ RemoveWorkerDrained \/ AddWorker \/ DeleteRow

StopStep == (\E w \in Workers : StopWorker(w)) \/ StopEnd \/ Exit

Next ==
  \/ BootStep
  \/ DispatchStep
  \/ \E w \in Workers : RunStart(w) \/ RunExit(w)
  \/ \E t \in Tasks : TaskStep(t) \/ Submit(t) \/ CancelCheck(t) \/ CancelWrite(t)
  \/ \E k \in Keys : KeyRequest(k)
  \/ KeyStep
  \/ StopBegin
  \/ StopStep
  \/ Crash

Spec == Init /\ [][Next]_vars

(***************************************************************************)
(* The process is restarted when it ends (docker-compose.yml), its         *)
(* goroutines are scheduled, tickers tick, locks are granted and every     *)
(* call returns.  Requests, stops and crashes need not happen.             *)
(***************************************************************************)
Fairness ==
  /\ WF_vars(BootStep)
  /\ WF_vars(DispatchStep)
  /\ \A w \in Workers : WF_vars(RunStart(w) \/ RunExit(w))
  /\ \A t \in Tasks : WF_vars(TaskStep(t)) /\ WF_vars(CancelWrite(t))
  /\ WF_vars(KeyStep)
  /\ WF_vars(StopStep)

FairSpec == Spec /\ Fairness

-----------------------------------------------------------------------------
(* Safety.                                                                 *)

InChan(w) == {chan[w][i] : i \in DOMAIN chan[w]}
\* Workers whose loop may still receive what is in their channel.
Holding == {w \in Workers \ exited : chan[w] # <<>>}
Queued == UNION {InChan(w) : w \in Holding}
Processed == {t \in Tasks : proc[t].pc # "none"}

(***************************************************************************)
(* A task is in one place at a time: in one channel once, or in one        *)
(* processTask, over all workers, those stopped included; and the tasks    *)
(* dispatch is about to send are in neither.  Otherwise one row would be   *)
(* submitted by two goroutines (scheduler.go:162-217, worker.go:80-96).    *)
(***************************************************************************)
SoleCustody ==
  /\ \A v, w \in Holding : \A i \in DOMAIN chan[v], j \in DOMAIN chan[w] :
        chan[v][i] = chan[w][j] => v = w /\ i = j
  /\ Queued \cap Processed = {}
  /\ disp.pc \in {"list", "send"} => disp.batch \cap (Queued \cup Processed) = {}

(***************************************************************************)
(* RunningHub is asked for one job per task; one more for each acceptance  *)
(* whose answer was lost and for each restart (worker.go:134-179,          *)
(* scheduler.go:259-266).                                                  *)
(***************************************************************************)
NoSurplusJobs == \A t \in Tasks : jobs[t] <= 1 + lost[t] + restarts

(***************************************************************************)
(* While dispatch works through its batch, each worker it may still choose *)
(* has a slot, is in the scheduler's map and has not been told to quit: no *)
(* key change and no stop comes between the check and the send             *)
(* (scheduler.go:174-216, 76-83).                                          *)
(***************************************************************************)
DispatchTargetsReady ==
  disp.pc = "send" =>
    \A w \in disp.avail : Available(w) /\ (phase = "serving" => w \in live \ quit)

(***************************************************************************)
(* Each worker is a pool of slots to its scheduler, as Worker proves of    *)
(* the channel and the counters: dispatch, the resume and the epilogue of  *)
(* processTask are all that move tasks in and out of it, and the check of  *)
(* Available before them keeps to its slots.                               *)
(***************************************************************************)
Owned(w) == InChan(w) \cup Running(w)

Pool(w) == INSTANCE SlotPool WITH MaxConc <- MaxConc[KeyOf(w)], owned <- Owned(w)

\* Pool(w)!Spec for every w, written as one action formula; the end of the
\* process empties all of them at once.
WorkersArePools ==
  /\ \A w \in Workers : Pool(w)!Init
  /\ [][phase' = "down" \/ \A w \in Workers : UNCHANGED Owned(w) \/ Pool(w)!Next]_vars

(***************************************************************************)
(* A RUNNING row has a goroutine that polls its job, with the key the job  *)
(* was made with, across restarts and key changes: "Worker handles         *)
(* RunningHub polling and updates the DB" (proxy.go:155).  Without it are  *)
(*   - rows whose key was deleted, or had a worker stopped since the boot: *)
(*     no other worker takes the poll up (worker.go:264, scheduler.go:292),*)
(*     and the boot after that does for every key still there;             *)
(*   - rows that do not name the key of their job, because the process     *)
(*     ended between RUNNING (worker.go:198) and the mark of dispatch      *)
(*     (scheduler.go:204): the boot skips them, or resumes them with the   *)
(*     key of an earlier dispatch.  Each end of the process makes one such *)
(*     row at most.                                                        *)
(***************************************************************************)
Polled(t) ==
  /\ proc[t].pc \in {"poll", "query", "succeed", "fail"}
  /\ proc[t].job = rhId[t] /\ KeyOf(proc[t].w) = jobKey[t]
Unpolled == {t \in Having("RUNNING") : ~Polled(t)}
Misnamed(t) == rowKey[t] # jobKey[t]
StoppedKeys == {KeyOf(w) : w \in quit}

RunningIsPolled ==
  phase = "serving" =>
    /\ \A t \in Unpolled :
         Misnamed(t) \/ keyRow[rowKey[t]] = "deleted" \/ rowKey[t] \in StoppedKeys
    /\ Cardinality({t \in Unpolled : Misnamed(t)}) <= restarts

(***************************************************************************)
(* The result RunningHub gave is never replaced by the opposite one, nor   *)
(* by RUNNING: only a cancel that raced it (task.go:151) or the late mark  *)
(* of the dispatch that delivered the task (scheduler.go:204) overwrite it.*)
(* A cancel is undone only by a goroutine or a dispatch that had the task  *)
(* already (worker.go:198, 301, 406): not by the boot, nor for a task that *)
(* waits in a channel, where LoadRow still finds it.                       *)
(***************************************************************************)
ResultNeverFlips ==
  [][\A t \in Tasks :
       /\ status[t] = "SUCCESS" => status'[t] \in {"SUCCESS", "CANCELLED", "DISPATCHED"}
       /\ status[t] = "FAILED" => status'[t] \in {"FAILED", "CANCELLED", "DISPATCHED"}
       /\ status[t] = "CANCELLED" /\ t \notin Processed \cup disp.batch
            => status'[t] = "CANCELLED"]_vars

-----------------------------------------------------------------------------
(* What the code says of itself and a run refutes.                         *)

(***************************************************************************)
(* "Can only cancel non-terminal tasks" (task.go:134; proxy.go:362): a     *)
(* cancel request never replaces a result.                                 *)
(***************************************************************************)
CancelOnlyNonTerminal ==
  [][\A t \in Tasks :
       status[t] \in {"SUCCESS", "FAILED"} => status'[t] # "CANCELLED"]_vars

(***************************************************************************)
(* "DISPATCHED means sent to worker channel but not yet submitted to       *)
(* RunningHub" (scheduler.go:257): no row the boot is about to reset to    *)
(* PENDING, and so to submit anew, has a job.                              *)
(***************************************************************************)
DispatchedNotSubmitted ==
  phase = "down" => \A t \in Having("DISPATCHED") : rhId[t] = 0

-----------------------------------------------------------------------------
(* Liveness, under FairSpec.                                               *)

(***************************************************************************)
(* A PENDING task does not stay PENDING, across restarts, worker           *)
(* replacements and full workers, unless no key is active.                 *)
(***************************************************************************)
PendingIsDispatched ==
  \A t \in Tasks :
    status[t] = "PENDING" ~>
      (status[t] # "PENDING" \/ \A k \in Keys : keyRow[k] # "active")

(***************************************************************************)
(* A task a worker has is let go again: queued tasks are started or        *)
(* abandoned, retries and polls end, whatever RunningHub answers.          *)
(***************************************************************************)
CustodyEnds ==
  \A t \in Tasks : t \in Queued \cup Processed ~> t \notin Queued \cup Processed

(***************************************************************************)
(* A key request ends, though it holds the write lock while the worker's   *)
(* tasks finish and waits for it while dispatch works.                     *)
(***************************************************************************)
KeyRequestEnds == admin.pc # "idle" ~> admin.pc = "idle"

(***************************************************************************)
(* A graceful stop gets through all workers and the process exits.         *)
(***************************************************************************)
StopCompletes == phase = "stopping" ~> phase = "down"

=============================================================================
