# RunningHub manager in TLA+

A verification development for `runninghub-manager`: the back end (`src/backend`, Go) and the web console
(`src/frontend`, React). The back end puts client tasks in a database, hands them to one worker per RunningHub
API key, submits them to RunningHub, polls for their results, and survives restarts; the console lists what is
there, and administers keys and settings. What is hard about it is not one function but the meeting of the
database rows, the workers' goroutines, the HTTP handlers, the restarts, and pages whose requests overlap; that is
what is modelled.

## 1. The system

### Components

| Component | Source | State it keeps | Operations | Correct when |
|---|---|---|---|---|
| Worker (one per active key) | `services/worker.go` | `taskChan`, `sem`, `inflight`, `wg`, `quit`; a goroutine per task | Dispatch, Available, run, processTask, pollTaskResult, Stop | counters agree with the tasks; never more than `maxConc` tasks; every slot comes back; Stop returns |
| Scheduler | `services/scheduler.go` | map of workers under an RWMutex, tick, tick channel | Start (recover, resume), dispatch, AddWorker, RemoveWorker, UpdateWorker, SetTick, Stop | a task is with one worker at a time; pending tasks are dispatched; RUNNING tasks are polled again after a restart |
| Task rows | `models/task.go`, `handlers/proxy.go`, `handlers/task.go` | `status`, `api_key_id`, `rh_task_id`, results | create, query, cancel | results are not replaced; one RunningHub job per task |
| API keys | `handlers/apikey.go`, `pages/ApiKeys.tsx` | `api_keys` rows; the page's list and dialog | List, Create, Update, Delete; edit, toggle | rows and worker map agree; the dialog never mixes two keys |
| RunningHub client | `services/runninghub.go` | none (HTTP, 30 s time-out) | CreateTask, QueryTask, CancelTask, UploadFile, GetWebappInfo | outcomes are classified rightly |
| Local executor | `services/local_executor.go` | `sem`, files in the upload directory | dispatch, processTask, downloadFile, Stop | at most `maxConc` local tasks; every slot comes back; a cached file is complete |
| Video splitting | `apps/video_split.go`, `apps/registry.go` | none | Execute | segments cover the video |
| Runtime settings | `config/*.go`, `handlers/dashboard.go`, `pages/Settings.tsx` | AppConfig under a lock, `settings` rows, the loop's tick; the page's inputs and what counts as saved | Load, LoadFromDB, Set*, SaveAllSettings, SetTick; edit, save | the three copies of a setting agree; a page with nothing to save shows them |
| List pages | `pages/Tasks.tsx`, `Uploads.tsx`, `PlatformKeys.tsx`, `Dashboard.tsx` | query, shown answer, dialogs, intervals | fetch, filter, turn the page, cancel, create, delete, reveal | a page ends up showing its table |
| Console session | `lib/api.ts`, `pages/Login.tsx`, `components/Layout.tsx`, `ProtectedRoute.tsx` | the token in localStorage, shared by all tabs; the page of each tab | login, logout, navigation, interceptors | a tab with a dead token leaves the console |
| Dashboard, request log | `handlers/dashboard.go`, `middleware/logger.go` | `request_logs` rows | read-only queries, one insert per request | – |
| Authentication, platform keys | `handlers/auth.go`, `handlers/platform_key.go`, `middleware/auth.go` | `users`, `platform_keys` rows | login, register, key administration | – |
| Process | `main.go`, `database/database.go` | none | boot, SIGTERM, shutdown | nothing accepted is lost across a restart |
| UI components | `components/ui/*` | none | render | – |

### Who talks to whom

- `proxy.go` writes a `PENDING` row. `dispatch` (every tick) reads up to 50 of them *without* the lock, takes
  the read lock, lists the available workers, sends each id to a worker's channel and *then* marks the row
  `DISPATCHED`.
- A worker's `run` receives an id, acquires the semaphore and starts `processTask`, which reads the row,
  submits (retrying), writes `RUNNING`, polls and writes `SUCCESS` or `FAILED`. Every write is an
  unconditional `UPDATE`, whatever the row has become.
- Cancel handlers read the row, call RunningHub, write `CANCELLED`. Workers notice by reading the row again.
- Key handlers change the row, then replace the worker under the scheduler's write lock, waiting under that
  lock for its tasks; polls end at `quit`, creates and their retry sleeps do not.
- Rows of the apps the platform runs itself (`is_local`) are taken by the local executor instead: its loop takes a
  slot, marks the row and starts a goroutine, which downloads the row's remote files and runs the app.
- The pages fetch when they are mounted, when their query changes, after an own change, and (tasks, dashboard) on
  an interval. No request is cancelled and no answer numbered: what lands last is shown.
- Every request carries the token stored when it is sent. A 401 to any of them removes the token and loads the login
  page, in the tab that hears it.
- A boot turns `DISPATCHED` into `PENDING`, starts the workers, gives every `RUNNING` row a slot, then starts
  dispatching and serving. SIGTERM shuts HTTP down, then stops worker after worker.

### What is hard

No two database statements are in a transaction, so between any two of them everything else may happen. Three
bounds (`taskChan`, `sem`, `inflight`) stand for the same slots and are changed one at a time. `select`
chooses at random between a task and `quit`. Memory is lost at a restart, rows and RunningHub jobs are not. A setting
lives in three places that are written one after the other, and a page keeps a fourth copy. Answers reach a page in any
order, after the user has gone on to something else.
`PROJECT.json` lists each of these hazards at its line with the properties that watch over it.

## 2. The modules

| Module | Models | Notes |
|---|---|---|
| `SlotPool` | what a worker promises: a pool of `MaxConc` slots | the abstract specification |
| `Worker` | one worker at the grain of its channel operations and atomic counters | implements `SlotPool` |
| `WorkerProofs` | proofs about `Worker` | for all finite `Tasks` and all positive `MaxConc` |
| `Scheduler` | rows, RunningHub jobs, boot, dispatch, all workers, task and key requests, stops and crashes | each of its workers is a `SlotPool` again |
| `SchedulerProofs` | proofs about `Scheduler`: types, custody, results, jobs | for all finite `Tasks` and `Keys`, all slots and all bounds |
| `SchedulerWorkersProofs` | proofs about the workers of `Scheduler`, on top of it | for the same |
| `LocalExecutor` | local tasks: dispatch loop, semaphore, downloads, cancels, restarts | implements `SlotPool` from a start to an end of the process |
| `LocalExecutorProofs` | proofs about `LocalExecutor` | for all finite `Tasks`, all files and inputs, every positive `MaxConc` |
| `KeyAdmin` | the key page and overlapping key requests against rows and worker map | `Scheduler` has one key request at a time, and tasks |
| `KeyAdminProofs` | proofs about `KeyAdmin` | for all finite `Keys`, all confs and all bounds |
| `Settings` | settings page, handlers, tick channel, table, restart | |
| `SettingsProofs` | proofs about `Settings` | for all `Admins`, all fields with their ranges, defaults and texts, and all bounds |
| `Pages` | one tab of the console and its list pages | |
| `PagesProofs` | proofs about `Pages` | for all finite `Ids`, all names, every positive `PageSize` and all bounds |
| `Console` | the session that several tabs share | `Pages` starts from a tab that is logged in |
| `ConsoleProofs` | proofs about `Console` | for all finite `Tabs` and all bounds |
| `MCWorker`, `MCScheduler`, `MCLocalExecutor`, `MCKeyAdmin`, `MCSettings`, `MCPages`, `MCConsole` | the constants of the runs | |

### Worker

A task is at one *stage*: not with the worker, waiting to be resumed, claimed by the resume, picked by dispatch
(`checked`), counted by `Dispatch` (`added`), in the channel, received by `run` (`held`), working, or in one of
the two gaps of the deferred epilogue `<-w.sem; w.inflight.Add(-1); w.wg.Done()`. The counters are variables of
their own, changed by the actions as by the code; that they agree with the stages is a property, not a definition.

| Action | Code |
|---|---|
| `ResumeClaim`, `ResumeAcquire` | `resumeRunningTasks`: `wg` and `inflight` first, then the blocking send to `sem` |
| `CheckAvailable`, `DispatchAdd`, `DispatchSend` | the check in `dispatch`; the increment and the non-blocking send of `Dispatch`, with its refusal |
| `RunReceive`, `RunAcquire`, `RunQuit` | the two selects of `run` |
| `ReleaseToken`, `LeaveInflight`, `WgDone` | the deferred epilogue, in its order |
| `StopBegin`, `StopEnd` | `Stop` |

`dispatch` reads a worker's `Available` a second time after each send; in `Worker` each check is one
`CheckAvailable`, which is what both readings amount to for one worker, because only the dispatcher adds. The
scheduler's lock appears as the guards between the dispatcher's stages and `StopBegin`. That the dispatcher may
go on to check a worker after `Stop` has returned is included (the loop's select may take a tick after `quit`).

### Scheduler

The variables fall into four groups: the database (`status`, `rowKey`, `rhId`, `keyRow`), RunningHub (`jobs`;
`lost`, the acceptances whose answer never arrived; and `jobKey`, a history variable: with whose key the job in
`rh_task_id` was made, which no row records until dispatch writes `api_key_id`), the process (`phase`, worker map and channels,
`proc[t]`, the dispatch loop, the key request, the cancel requests), and the counters of the bounds.
A crash, or the exit after a graceful stop, clears the third group and keeps the others.

| Actions | Code |
|---|---|
| `Boot`, `ResumeNext`, `StartDispatch` | `Scheduler.Start`; `Boot` joins the statements nothing can interleave with, HTTP not being served yet |
| `DispatchQuery`, `DispatchList`, `DispatchSend`, `DispatchMark` | `dispatch`: the query, the lock and list, the send, the mark |
| `RunStart`, `RunExit` | `run` |
| `LoadRow`, `Create*`, `Recheck`, `RecordRunning` | `processTask` |
| `PollTick`, `PollQuit`, `PollQuery`, `WriteResult` | `pollTaskResult`, `failTask` |
| `Submit`, `CancelCheck`, `CancelWrite` | `CreateTask`, `CancelTask` (`proxy.go`), `Cancel` (`task.go`) |
| `CreateKey`, `UpdateKey`, `DeleteKey`, `RemoveWorkerLock`, `RemoveWorkerDrained`, `AddWorker`, `DeleteRow` | `apikey.go` with `AddWorker`, `UpdateWorker`, `RemoveWorker` |
| `StopBegin`, `StopWorker`, `StopEnd`, `Exit`, `Crash` | `main.go`, `Scheduler.Stop` |

What it abstracts:

- The two selects of `run` are one step and the epilogue is one step: `Worker` has them apart and proves that
  a received task never waits for its token, that the counters are exact, and that the worker is a slot pool.
  `Load` and `TokenFree` are therefore computed from the channel and the running tasks.
- The strategy is "any available worker": what holds for it holds for least-loaded, fill-first and round robin.
- RunningHub is a choice of outcomes: accepted, accepted with the answer lost, a retryable error, another
  error; and for a query a result, or an error or unfinished job. Error codes, delays and messages are left out.
- Tasks are created in the order of their ids, so `ORDER BY created_at` is the order of ids.
- `ResumeNext` takes the rows by id. The query has no order (`scheduler.go:273`), but one is all that is needed: the boot waits
  for a slot of the row it has come to, whichever that is, and no property tells the orders apart.
- An id of `api_keys` is not used again, so a deleted key (`"deleted"`) does not come back.
- Database statements succeed. `QUEUED`, which no code writes, and local tasks are left out.
- Key requests run one at a time; cancel requests run concurrently with everything, but one per task.
- The 30 seconds HTTP shutdown grants are not a bound on handlers: those that outlast it go on until the exit.

### LocalExecutor

Rows (`status`) and the upload directory (`disk`) survive the process; `sem`, the loop and the goroutines do not.
A file is absent, partial or complete; `filler[f]` says whose copy goes to the file now at the path of `f`,
because `os.Create` truncates what another task may still be writing and `os.Remove` takes it away.

| Action | Code |
|---|---|
| `Boot` | `recoverOrphanedTasks`, which resets local rows too; `resumeRunningTasks`, which skips them |
| `DispatchQuery`, `DispatchAcquire`, `DispatchMark` | `dispatch`: the query, the non-blocking slot, the mark and the `go` |
| `Load`, `Begin`, `Resolve`, `Execute`, `WriteResult`, `End` | `processTask` and `failTask`: the read, RUNNING and the parsing, the inputs one by one, the app, the result, the deferred release |
| `FetchOpen`, `FetchFail`, `CopyDone`, `CopyFail` | `downloadFile` |
| `Submit`, `CancelCheck`, `CancelWrite` | the request handlers, as in `Scheduler` |
| `Halt` | any end of the process: a graceful stop closes `quit` and waits for no local task |

What it abstracts: `Inputs[t]` is the local paths of the remote uploads that a task names, the other fields of its
node list are left out; an app succeeds or fails; database statements succeed. The mark and the start of the
goroutine are one step, since nothing else knows of the goroutine in between. The loop goes on until `Halt`: the
moments between its `quit` and the exit are those in which it happens not to tick.

### KeyAdmin

For a key there are its row, the worker in the scheduler's map and, counted, the workers that run but are no longer in
the map (`stray`). A request is an element of `calls` with a program counter; the handlers take the scheduler's lock
once per change of the map and none for the whole request, so requests interleave between any two statements.

| Action | Code |
|---|---|
| `ReadList`, `LandList`, `LoseList` | `List`; `fetchKeys` |
| `OpenAdd`, `Edit`, `Enter`, `CloseDialog` | the dialog of `ApiKeys.tsx` and its form |
| `Submit`, `Toggle`, `Delete`, `Put` | `handleSubmit`, `handleToggle`, `handleDelete`; another client |
| `InsertRow`, `ReadRow`, `SaveRow`, `CountTasks`, `DeleteRow` | the statements of `Create`, `Update`, `Delete` |
| `RemoveWorker`, `AddWorker` | the map under its lock, with `UpdateWorker` as one and then the other |
| `LoseAnswer`, `Done` | a broken connection; the answer in the page |

What it abstracts: name, base URL and concurrency are one value, the conf; an API key is whose it is; `currentTasks` of
the list is left out; stopping a worker takes no time here, since `Scheduler` has the waiting.

### Settings

`config`, `row`, `loop` and `pending` are the copies of a setting: AppConfig, table, the tick of the loop, and the
channel of one between them. A PUT walks the fields of its body in the order of the code: range check and setter
(`Apply`), row (`Persist`), for the tick the three steps of `SetTick` (`Offer`, `Drain`, `Send`), against
`TickUpdate` of the loop. `Crash` and `Boot` are `LoadFromDB` over the environment. The page has what is in its inputs
(`form`) and what counts as saved; `SaveLands` restores the closure of `handleSave`: what was *sent* counts as saved.
`parseInt` is modelled ("2.7" is 2). A PUT of the page has all fields, the one-field routes are the client `Script`.

### Pages

One page is mounted at a time: its query, the answer it shows, its dialogs and its intervals. Requests are sets, so
that answers come in any order; a request of a page that is left may still be handled, but its answer is not heard.

| Action | Code |
|---|---|
| `Goto`, `Poll`, `SetFilter`, `Turn` | mounting, `setInterval`, tab or search, pagination |
| `ReadList`, `LandList`, `LoseList` | the list handlers; `setTasks` and its like; a failed request |
| `Press`, `Cancel`, `Create`, `Handle`, `Done`, `LoseRequest` | the buttons, the handlers behind them, their answers |
| `OpenTask`, `OpenForm`, `CloseDialog` | the dialogs |
| `Change` | clients, workers and other admins |

What it abstracts: four of the seven statuses (the list treats the others like one of these); a search is by the exact
name; the dashboard's requests are two reads of the tasks, its logs and charts are left out; count and page of a list
handler are one read (between the two statements the table may change, which the next poll repairs).

### Console

Tabs share `token`; `valid` are the tokens that have not expired, `at` the page of each tab, `requests` what is under
way with the token it carries. `Enter` is `ProtectedRoute`, `Interceptor` the response interceptor, `Open` and
`Navigate` a page load and a link, `Poll` an interval, `SubmitLogin`, `AnswerLogin` and `LoggedIn` the login page. The
user record is stored and removed with the token. Answers other than 401 mean nothing to the session and vanish.

## 3. The runs

| Run | Shows | Bounds |
|---|---|---|
| `worker` | types; exact counters; the send of `Dispatch` finds room; `run` finds a token; a worker is a `SlotPool`; the worker becomes available again; the boot gets all orphans a slot; `Stop` returns | 4 tasks, 2 slots, every number of orphans |
| `scheduler_restart` | types; a task is in one place; one job per task but for lost answers and restarts; results do not flip, cancels are undone only by what had the task | 2 tasks, 1 key of 2 slots, 1 retry, 1 poll, 1 crash, stop or key request |
| `scheduler_keys` | custody again, dispatch only picks workers that are up and have room, RUNNING rows are polled with the key of their job | 2 tasks, 2 keys of 1 slot (one to be created), 2 key requests or 1 and a crash or stop |
| `scheduler_live` | every worker is a `SlotPool`, PENDING rows are dispatched, workers let go of their tasks, stops complete, key requests end | 2 tasks, 1 key of 1 slot, 1 crash, stop or key request |
| `local` | types; the loop starts no task twice; a file only one task names is whole when its app runs; a `SlotPool`; only an end of the process strands a row; results stay but for racing cancels, cancels but for what had the task; PENDING rows are started | 3 tasks, 2 slots, 2 files, one of them shared, 1 restart |
| `settings` | types; the copies of a setting agree between PUTs that did not overlap or fail; a refused save has changed nothing; a clean page shows the values in force; every PUT returns | 1 page and a script, 2 edits, 3 saves, 1 fault, 1 restart |
| `pages` | types; the pages without polls show their table once their requests are answered; the polled ones end up showing it | 2 rows, pages of 1, 2 lists asked for, 3 acts, 1 change, 1 fault |
| `key_admin` | types; workers match rows between requests, an overlap is healed by the next request alone and costs at most one stray worker; the form belongs to its dialog | 2 keys, 2 confs, 3 acts, 1 other request or failure |
| `console` | types; a tab that polls with a dead token gets to the login page | 2 tabs, 2 tokens, 3 acts, 1 fault |
| `cancel_race`, `late_mark` | refuted, see the findings | 1 task, 1 key |
| `local_inputs` | refuted: the files of a running app are whole | 2 tasks, same files |

Why the bounds are enough to be interesting. Two tasks compete for one slot (in `scheduler_restart` they run side by side), so full workers, waiting tasks
and abandoned channels all occur; in `Worker` four orphans exceed two slots, so the resume blocks, and the
channel is full while tasks run. One retry and one poll (`MaxRetries`, `MaxPolls`; the code's 3 and
`poll_max_attempts`) reach both sides of each limit. One restart reaches what a crash leaves behind of one process, a RUNNING row without a key included; that a row
resumes with the key of an earlier dispatch takes two, and is left to the theorem `RunningRowsArePolled`. Two key
requests replace a worker twice, so that two stopped generations and a live one coexist. `MaxRestarts`,
`MaxKeyChanges` and `MaxDisturbances` (both together) have no counterpart in the code, nor have the `MaxActs`,
`MaxEdits`, `MaxSaves`, `MaxChanges`, `MaxFaults`, `MaxTrouble`, `MaxLists` and `MaxTokens` of the console's modules: they
count what users, other clients and the network do. Three acts are what it takes for an answer to come late: a request,
something done meanwhile, and a request that follows from it. Two callers and three saves fill the tick channel while
another waits. `MaxLists` makes an interval wait, so that polling stays finite. `BatchLimit` is 2 (the code's 50) in
`Scheduler`, where the batch never exceeds the tasks: the limit itself is not put to the test. In `local` it is 2 (the
code's 20) for three tasks, so the limit cuts, and two slots for three tasks make the loop drop a batch.
`CHECK_DEADLOCK FALSE` is set because the system rests when all tasks are done and the bounds are used up.

### Fairness

Weak fairness of each goroutine's steps: Go schedules every runnable goroutine, tickers tick, sleeps and HTTP
calls with their time-outs return. `DispatchStep`, `BootStep`, `KeyStep` and `StopStep` are one goroutine each,
so one condition each is enough; tasks and run loops have one condition apiece. The select of `run` has one
condition for both of its cases, since the code promises no fair choice between them. The lock needs no more
than weak fairness: Go's RWMutex holds new readers back once a writer waits. Nothing makes
clients submit, cancel or change keys, and nothing makes the process crash or stop. `Boot` is fair because
`docker-compose.yml` restarts the process. In `Worker`, whether dispatch picks this worker is not fair; the
end of a task's body is, because its retries, time-outs and polls are bounded, which `CustodyEnds` confirms in
`Scheduler`.

In `Settings` handlers, the loop and the delivery of answers are fair, users, faults and restarts are not. In `Pages`
equal requests are one element of a set, so fairness is stated per step of a request (asked, half answered, answered)
and not per request. In `Console` each tab's intervals and answers are fair; tokens need not expire and users need not
log in. `KeyAdmin` has no liveness property: its requests end as `KeyRequestEnds` says.

In `LocalExecutor` a task's own steps and the loop's are fair, the app because it is ended by the task time-out (60
minutes unless set otherwise). The steps of a download are not: it uses `http.Get` outside that time-out, with none of
its own. `PendingLocalIsStarted` therefore assumes that downloads return (`DownloadsReturn`); without it, a server that
never answers keeps a slot for good, although the settings page says that a task past its time is ended.

`CapacityReturns`, `ResumeCompletes` and `StopReturns` are what rests on the order and completeness of the epilogue.
`PendingIsDispatched` gives up only while no key is active: then there is no worker.

## 4. What is proved

`WorkerProofs` proves, for every finite set `Tasks` (`TasksFinite`) and every positive `MaxConc`
(`MaxConcPositive`; the handlers store nothing else):

| Theorem | Statement |
|---|---|
| `Invariance` | `Spec => []IInv` |
| `TypeCorrect` | `Spec => []TypeOK` |
| `CountersAlwaysExact` | `Spec => []CountersExact` |
| `SendFindsRoom` | `Spec => []DispatchNeverRejected` |
| `RunFindsToken` | `Spec => []RunNeverWaits` |
| `WorkerImplementsSlotPool` | `Spec => ImplementsSlotPool` |

The argument. None of the properties is inductive: `DispatchNeverRejected` speaks of the channel's length, which
says nothing until one knows that the channel holds exactly the queued tasks (`ChanIsQueued`) and that those,
with all others between the check and the end of processing, are at most `MaxConc` (`SlotsBound`). The check
looks at `inflight`, so the bound follows from exact counters (`CountersExact`), provided a task checked but not
yet counted is alone, which the dispatcher being one goroutine gives, and provided no resumed task
can push in after the check, which is `ResumeFirst`. `RunNeverWaits` then rests on the order of the epilogue: the token
comes back before `inflight` goes down, so a worker that looks available has a token for whatever it is sent.
With the two lines of the epilogue in the other order `SlotsBound` fails.

`MoveCounts` is the lemma everything leans on: a task that moves from one stage to another changes exactly two
counts by one. Each action has its lemma (`ResumeClaimInv`, ... , `RunReceiveInv`), with one step per conjunct of
`IInv`; those that move a task in or out of the channel use the library's facts on sequences.

For the refinement a task owns a slot from `Dispatch`'s increment (or the resume's token) to the release of its
token; `DispatchAdd` and `ResumeAcquire` implement `Admit`, `ReleaseToken` implements `Finish`, all else stutters. The
refused send would be a `Finish` as well, but `SlotsBound` excludes it.

`SchedulerProofs` and `SchedulerWorkersProofs` prove, from `TasksAreIds`, `KeysAssumption`, `MaxConcAssumption` and
`BoundsAssumption`:

| Theorem | Statement |
|---|---|
| `TypeCorrect` | `Spec => []TypeOK` |
| `OneGoroutinePerTask` | `Spec => []SoleCustody` |
| `ResultsDoNotFlip` | `Spec => ResultNeverFlips` |
| `JobsAreBounded` | `Spec => []NoSurplusJobs` |
| `TargetsAreReady` | `Spec => []DispatchTargetsReady` |
| `WorkersImplementPools` | `Spec => WorkersArePools` |
| `RunningRowsArePolled` | `Spec => []RunningIsPolled` |

The argument. `SoleCustody` says that no task is in two places, but nobody who gives a task away looks at the places:
dispatch takes PENDING rows, the boot RUNNING ones. `Rows` therefore says what a row tells of its task: a task in a
channel or with a goroutine has no result, and is PENDING only between the send and the late mark (`Marking`); what is
left of the batch is PENDING or cancelled; what the boot has left to resume is RUNNING. `Custody` is `SoleCustody` for the
channels of all workers, those that have exited included, since nobody empties them. `Quiet` says that nothing is under
way until HTTP is served, so that the boot's reset and resume meet no goroutine, and `Generations` that a key has no
more further workers than there were key requests. `Moves` sums up what the goroutine of
a task may do to the rest (`TaskMoves`); all other lemmas use that instead of its ten actions. `ResultNeverFlips` follows
from `Rows`: whoever writes a status other than by a cancel or by the late mark holds the task, and the boot takes up
no cancelled row. For the jobs, `JobsBound` keeps one job in reserve for each task that may still be submitted (`Fresh`): the boot makes tasks fresh again and the
restart that came before it has raised the limit by one (`Ended` does so from the stop on); a lost answer raises it when
it makes its goroutine try again.

For the workers, `Fleet`: the lock excludes (`Locks`), and under its read side dispatch's list stays right (`Targets`): a
worker on it can lose tasks and not gain any, since only dispatch sends, and can neither be removed nor told to quit.
`WorkersArePools` then needs of `Send` only that its target had room; every other step of tasks gives slots back, and the
boot fills pools as `Admit` does because it waits for a token. The property speaks of one process: its end
empties all pools at once.

`RunningIsPolled` says whose worker polls, so the rows need more. `Names`: a row names the key of the worker that has its task,
except between the send and the mark, where dispatch still knows it. While a task has its worker, a wrong name can therefore
be there only during the one mark that is under way. `Known`: no row and no worker names a key that was never created, so
a name the boot does not find is a deleted key's. `Polling` is the property for the boot as well: a RUNNING row is polled, still to be resumed, or
excused (`Excused`), the last never while dispatch is marking it, when its goroutine is still there. The rows that lost their
name (`Drifted`) do not include that one and are no more than the ends of processes (`FewDrifted`): a crash just before the
mark adds one to them, raising the limit by one, and nothing else does.

`LocalExecutorProofs` proves, from `TasksAreIds`, `InputsAssumption` and `LimitsAssumption`:

| Theorem | Statement |
|---|---|
| `LocalInvariance` | `Spec => []LInv` |
| `LocalTypeCorrect` | `Spec => []TypeOK` |
| `BatchStaysFresh` | `Spec => []BatchIsFresh` |
| `ExecutorImplementsPool` | `Spec => ExecutorIsPool` |
| `NothingElseStrands` | `Spec => OnlyHaltStrands` |
| `ResultsStay` | `Spec => LocalResultStays` |
| `OwnInputsComplete` | `Spec => []OwnInputsWhole` |

The argument. Every write of the executor is unconditional, so what a row can be is not in any guard: it has to come
from who else may write it. `RowsFit` says it: a task still in the batch is `PENDING` or cancelled, one being processed
is open until its result is written, and final or cancelled at its `End`. That with `BatchIsFresh` (the batch and the
processed tasks are disjoint) makes the mark hit only rows without a result and the result only rows of its own
goroutine. `SlotsExact` counts the tokens: one per processed task and one the loop holds at its mark, which gives the
capacity that `Admit` of `SlotPool` asks for. `DownIsEmpty` keeps the boot's reset from meeting a goroutine, and
`FirstIsLeast`, a minimum by the library's well-founded induction, is needed because the loop takes the oldest task.
All steps of `processTask` but the last are one lemma (`MoveOnInv`): they write their own row and move on.
`OwnInputsWhole` has an invariant of its own on top, task by task and file by file (`OwnFile`): a file nobody else names is
partial only while its task writes it, absent when its task has found it absent, and complete once the task is past it.
It needs that a goroutine starts at its first input and fetches none beyond its last (`Positions`), and that no process
has ended: an end leaves a partial file behind that nobody writes.

`KeyAdminProofs` proves, from `KeysAssumption`, `ConfsAssumption` and `BoundsAssumption`:

| Theorem | Statement |
|---|---|
| `KeyInvariance` | `Spec => []KInv` |
| `KeyTypeCorrect` | `Spec => []TypeOK` |
| `PoolFollowsRows` | `Spec => []PoolMatchesRows` |
| `FormFollowsDialog` | `Spec => []DialogFormMatches` |

The argument, key by key. `PoolMatchesRows` speaks of moments without requests, so it has to be carried through them. A
request that is alone in its handler knows the row, and after `RemoveWorker` that the map is empty (`AloneKnows`); one
that is not has its key in `raced` (`OthersRaced`). `Follows` is the property itself, kept while requests have only
read. For the strays, `Paid`: stray workers, requests in a handler and a worker about to be overwritten are together at
most one more than the overlaps, because every request but the first has begun with an overlap. `AddWorker` turns its
own share and that of the worker it overwrites into one stray. Each handler has its lemma (`InsertRowInv`, ...,
`DeleteRowInv`); the other keys are `Frame`, the page is `OutsideInv`. That the form matches the dialog needs nothing
but itself and the types. The cardinality of the requests a newcomer marks as not alone is bounded by a surjection.

`SettingsProofs` proves, from `FieldsAssumption`, `ValuesAssumption`, `ScriptIsNoPage` and `BoundsAssumption`:

| Theorem | Statement |
|---|---|
| `SettingsInvariance` | `Spec => []SInv` |
| `SettingsTypeCorrect` | `Spec => []TypeOK` |
| `CopiesStayTogether` | `Spec => []CopiesAgree` |
| `RefusalIsWhole` | `Spec => []RefusedSaveChangesNothing` |
| `CleanPagesAreRight` | `Spec => []CleanPageShowsServer` |

The argument, field by field. `CopiesAgree` speaks of moments without a PUT, so it is carried through the handler: past
the setter the configuration has the value (`Applied`), the row follows unless a PUT is about to write it
(`RowFollows`), and the loop's tick, or the one in the channel, follows unless a PUT of the tick has yet to leave
`SetTick` (`TickFollows`). That needs the handler to be alone (`HandlerAlone`, which is what `torn` records).
What a page knows is `Knows`: of a PUT under way the fields it has reached have the values sent, the others those that
count as saved (`Reached`); another writer would have made the page doubtful (`WriterDoubted`). A refusal leaves the page
right because all of its fields but the strategy are in range (`PageFits`), and the strategy is read first: here the
order of the fields in `SaveAllSettings` and the checks in `handleSave` have to fit, and the proof uses both. `Current`
makes a restart a stutter: for a page that is not doubtful a crash finds configuration and table equal, unless the crash
loses that page's own PUT, and then its answer is lost and the page doubtful. `FirstField` is the minimum the handler's
order of fields needs.

`PagesProofs` proves, from `IdsAssumption`, `NamesAssumption`, `SizeAssumption` and `BoundsAssumption`:

| Theorem | Statement |
|---|---|
| `PagesTypeCorrect` | `Spec => []TypeOK` |
| `UnpolledSettles` | `Spec => []UnpolledPageSettles` |

The argument. `TypeOK` is about what a page does with queries, so the invariant (`PTypes`) has the whole type of lists and
requests: answers are those a list handler can give (`AnswerType`), and a request that is heard belongs to the page mounted.
`UnpolledPageSettles` speaks of a page at rest; `NewestIsCurrent` carries it through the requests. Where nothing polls, every
new request makes the others late (`Overtaken`), so only one counts, and it has the query of the page. Its answer, and the
one shown as the newest, is the current one unless an own change has been made and is not heard of yet (`Unheard`); hearing
of it makes the page ask anew. That handlers fetch with the query of the render they were called in does no harm here,
because platform keys have one query only (`OneQuery`). Trying to prove it showed that an earlier form of the property was
too strong: who leaves the platform keys and comes back before the deletion of a key is handled sees the key, and no
answer corrects it. That takes four acts, one more than the run has; `doubt` now records it, and the theorem holds for any
number of acts.

`ConsoleProofs` proves, from `TabsAssumption` and `BoundsAssumption`:

| Theorem | Statement |
|---|---|
| `ConsoleTypeCorrect` | `Spec => []TypeOK` |
| `RefusedStaysDead` | `Spec => []RefusedIsDead` |

The argument. `TypeOK` is inductive: it relates tokens and logins to what has been issued and to what each tab shows.
`RefusedIsDead` is defined there, and no run checks it: a 401 that waits to be heard is about a token that is not valid
any more, since tokens only expire and none is issued twice. So the interceptor is never wrong about the request, only
about the token in the storage, which may be another by then.

Before each proof TLC checked its invariant, as an invariant of the component's runs. Only model-checked is what the
prover cannot reach: the liveness properties (`CapacityReturns`, `ResumeCompletes`, `StopReturns`, `PendingIsDispatched`,
`CustodyEnds`, `StopCompletes`, `KeyRequestEnds`, `PendingLocalIsStarted`, `SaveReturns`, `PolledPageCatchesUp`,
`DeadSessionLeavesConsole`). Every invariant and every action property of the passing runs has its theorem.

## 5. Findings

1. **A cancel can replace a result** (`cancel_race`). Check and write are two statements with a remote call in between.
2. **A submitted task can go back to `DISPATCHED`** (`late_mark`). The mark comes after the send; a crash then
   submits the task a second time.
3. **A local task can run on half a file** (`local_inputs`). The download writes at the final path, where `os.Stat` of
   another task that names the same upload finds it; a failed download removes it from under the other, and the end of
   the process leaves what has been written as if it were cached. `OwnInputsWhole` says how much does hold.

Each trace is short; the run gives it.

What the models contain besides, met while modelling and worth knowing; none of it has a run of its own:

- Updating a key abandons its RUNNING tasks until the next restart, whatever the update changes
  (`scheduler.go:85-90`). `RunningIsPolled` says how far polling goes: such rows are of keys that had a worker
  stopped since the boot.
- A crash between `RUNNING` and the late mark leaves a row that does not name the key of its job: without one, no boot
  resumes it; with the one of an earlier dispatch, the boot polls the job with another key. `RunningIsPolled` allows one
  such row for each end of the process.
- A cancel that comes while its task is in the batch, or with a goroutine past its check, is undone by the next write
  (`scheduler.go:204`, `worker.go:198`, `local_executor.go:92`, 121). `ResultNeverFlips` and `LocalResultStays` say by
  what, and that nothing else does it.
- A deleted key can keep active tasks: the count (`apikey.go:171`) comes before the removal of the worker.
- "All tasks drained" (`worker.go:52`) may be logged with a task running: `run` may prefer a task to `quit` and adds to
  the WaitGroup only then.
- Two key requests that overlap can leave a worker running that no map entry reaches, and a row saved after its
  deletion comes back, active. `PoolMatchesRows` counts the first and heals by the next request alone.
- A key whose row cannot be deleted is active and has no worker (`apikey.go:178-181`).
- The button of the key dialog stays enabled while its request is under way: pressed twice it creates two keys.
- A save that ends late closes the dialog although another key is being edited in it by then.
- A list page beyond the last one, after rows have gone, says that there are no tasks or uploads; only the user turns
  back.
- A platform key deleted on a page that was left before the server handled it is shown when the page is opened again at
  once, until something makes it fetch: the answer goes to the page that is gone (`PlatformKeys.tsx:68-78`).
- A 401 to an old token, or to a wrong password in another tab, removes the token a later login has stored.
- The platform key dialog says a key cannot be seen again (`PlatformKeys.tsx:149`), the back end has `Reveal`.
- A setting whose row cannot be written is in force until the restart and then lost; the page has said "saved".

## 6. Not modelled, and the plan

Not modelled for good: the video app (a sequence of ffmpeg calls; `LocalExecutor` sees its outcome), styled components,
charts, layout and clipboard, the statistics and the request log (read-only queries, one insert), uploads and the
web-app description (I/O), registration, roles and platform keys as credentials (stateless checks over rows), model
declarations and response formatting.

Left out so far: failures of the database while tasks are dispatched and processed (`scheduler.go:204`,
`worker.go:103`), and the job's own fate on RunningHub, which a poll time-out does not know (`worker.go:272`). Both are
hazards without a property in `PROJECT.json`. `SoleCustody` would need a history of the failed marks, and
the faults an instance of their own.

Next, in this order:

1. `Scheduler`: bounded database faults, and what a client sees from one query to the next; the invariants of
   `SchedulerProofs` then tell which of them survive a mark that fails.
2. The steps on which the liveness properties rest, as invariants and action properties with proofs: what a waiting
   resume, a stop or a request for the lock waits for, and that it cannot wait for itself.
3. Pure algorithms against reference definitions: `selectWorker`, the segments of `VideoSplitApp.Execute`.
