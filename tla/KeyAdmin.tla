------------------------------ MODULE KeyAdmin ------------------------------
(***************************************************************************)
(* The administration of RunningHub keys: the page that lists and edits    *)
(* them (src/frontend/src/pages/ApiKeys.tsx), the handlers                 *)
(* (src/backend/handlers/apikey.go), and the map of workers that follows   *)
(* the rows (src/backend/services/scheduler.go).  Scheduler models one key *)
(* request at a time and what it does to tasks; here requests overlap.     *)
(*                                                                         *)
(* The name, the base URL and the concurrency of a key are one value, its  *)
(* conf; the API key itself matters only for whose it is.                  *)
(***************************************************************************)
EXTENDS Integers, FiniteSets

CONSTANTS
  Keys,       \* ids of keys
  InitKeys,   \* the keys there are at first, all active
  Confs,      \* values of name, base URL and concurrency
  BlankConf,  \* what the inputs of an empty form hold
  None,       \* no key; a field that a request leaves out
  MaxActs,    \* bound: the user's acts on the page
  MaxTrouble  \* bound: requests of other clients, failed statements and
              \* broken connections, together

ASSUME KeysAssumption == InitKeys \subseteq Keys /\ IsFiniteSet(Keys) /\ None \notin Keys
ASSUME ConfsAssumption == BlankConf \in Confs /\ None \notin Confs
ASSUME BoundsAssumption == {MaxActs, MaxTrouble} \subseteq Nat

VARIABLES
  row,      \* the table: conf and is_active, or NoRow
  minted,   \* the ids given out
  worker,   \* the conf of the worker in the scheduler's map, or None
  stray,    \* workers that run but are not in the map
  calls,    \* create, update and delete requests
  shown,    \* the page's copy of the table
  lists,    \* its GETs on their way: the answer, None before it is read
  dialog,   \* open, the key edited, and the form
  overlaps, \* history: requests for a key that began during another's
  raced,    \* history: keys whose requests overlapped, or failed half-way, and
            \* that no request has settled since, alone
  used      \* acts and trouble so far

backend == <<row, minted, worker, stray, overlaps, raced>>
page == <<shown, lists, dialog>>
vars == <<backend, calls, page, used>>

NoRow == [conf |-> None, active |-> FALSE]
Rows == [conf : Confs, active : BOOLEAN] \cup {NoRow}
Exists(k) == row[k] # NoRow

BlankForm == [conf |-> BlankConf, apiKey |-> "empty"]
Closed == [open |-> FALSE, editing |-> None, form |-> BlankForm]

Kinds == {"create", "update", "toggle", "delete"}
HandlerPcs == {"save", "count", "remove", "add", "delete"}
Pcs == HandlerPcs \cup {"sent", "ok", "error"}
Requests ==
  [n : Nat, who : {"page", "other"}, kind : Kinds, key : Keys \cup {None},
   conf : Confs \cup {None}, active : BOOLEAN \cup {None},
   pc : Pcs, key_row : Rows, alone : BOOLEAN]
InHandler(k) == {c \in calls : c.key = k /\ c.pc \in HandlerPcs}
Act == used.acts < MaxActs /\ used' = [used EXCEPT !.acts = @ + 1]
Trouble == used.trouble < MaxTrouble /\ used' = [used EXCEPT !.trouble = @ + 1]

TypeOK ==
  /\ row \in [Keys -> Rows]
  /\ minted \subseteq Keys /\ \A k \in Keys : Exists(k) => k \in minted
  /\ worker \in [Keys -> Confs \cup {None}]
  /\ stray \in [Keys -> Nat]
  /\ calls \subseteq Requests
  /\ shown \in [Keys -> Rows]
  /\ lists \subseteq [Keys -> Rows] \cup {None}
  /\ dialog \in [open : BOOLEAN, editing : Keys \cup {None},
                 form : [conf : Confs, apiKey : Keys \cup {"empty", "entered"}]]
  /\ overlaps \in [Keys -> Nat] /\ raced \subseteq Keys
  /\ used \in [acts : 0..MaxActs, trouble : 0..MaxTrouble]

Init ==
  /\ row = [k \in Keys |-> IF k \in InitKeys THEN [conf |-> BlankConf, active |-> TRUE]
                           ELSE NoRow]
  /\ minted = InitKeys
  /\ worker = [k \in Keys |-> row[k].conf]
  /\ stray = [k \in Keys |-> 0]
  /\ calls = {}
  /\ shown = [k \in Keys |-> NoRow]
  /\ lists = {None}
  /\ dialog = Closed
  /\ overlaps = [k \in Keys |-> 0] /\ raced = {}
  /\ used = [acts |-> 0, trouble |-> 0]

-----------------------------------------------------------------------------
(* The page: list, dialog and buttons.                                     *)

\* fetchKeys: the answer that lands last is shown.
FetchKeys == lists' = lists \cup {None}

ReadList ==
  /\ None \in lists
  /\ lists' = (lists \ {None}) \cup {row}
  /\ UNCHANGED <<backend, calls, shown, dialog, used>>

LandList(answer) ==
  /\ answer # None
  /\ shown' = answer
  /\ lists' = lists \ {answer}
  /\ UNCHANGED <<backend, calls, dialog, used>>

LoseList(answer) ==
  /\ Trouble
  /\ lists' = lists \ {answer}
  /\ UNCHANGED <<backend, calls, shown, dialog>>

\* The button above the list only opens the dialog; an open dialog is modal.
OpenAdd ==
  /\ Act
  /\ ~dialog.open
  /\ dialog' = [dialog EXCEPT !.open = TRUE]
  /\ UNCHANGED <<backend, calls, shown, lists>>

\* handleEdit, from the row as it is shown.
Edit(k) ==
  /\ Act
  /\ ~dialog.open /\ shown[k] # NoRow
  /\ dialog' = [open |-> TRUE, editing |-> k,
                form |-> [conf |-> shown[k].conf, apiKey |-> k]]
  /\ UNCHANGED <<backend, calls, shown, lists>>

\* The inputs; the one for the API key is there for a new key only.
Enter(conf) ==
  /\ Act
  /\ dialog.open
  /\ dialog' = [dialog EXCEPT !.form.conf = conf,
                              !.form.apiKey = IF dialog.editing = None THEN "entered" ELSE @]
  /\ UNCHANGED <<backend, calls, shown, lists>>

CloseDialog ==
  /\ dialog.open
  /\ dialog' = Closed
  /\ UNCHANGED <<backend, calls, shown, lists, used>>

Send(who, kind, k, conf, active) ==
  calls' = calls \cup {[n |-> used.acts + used.trouble, who |-> who, kind |-> kind, key |-> k,
                        conf |-> conf, active |-> active, pc |-> "sent", key_row |-> NoRow,
                        alone |-> TRUE]}

\* handleSubmit; the dialog stays open and its button enabled.
Submit ==
  /\ Act
  /\ dialog.open
  /\ IF dialog.editing # None
     THEN Send("page", "update", dialog.editing, dialog.form.conf, None)
     ELSE dialog.form.apiKey # "empty" /\ Send("page", "create", None, dialog.form.conf, None)
  /\ UNCHANGED <<backend, page>>

\* handleToggle: the opposite of what the row shown says.
Toggle(k) ==
  /\ Act
  /\ ~dialog.open /\ shown[k] # NoRow
  /\ Send("page", "toggle", k, None, ~shown[k].active)
  /\ UNCHANGED <<backend, page>>

Delete(k) ==
  /\ Act
  /\ ~dialog.open /\ shown[k] # NoRow
  /\ Send("page", "delete", k, None, None)
  /\ UNCHANGED <<backend, page>>

\* Another page or a script.
Put(kind, k) ==
  /\ Trouble
  /\ Exists(k)
  /\ \/ kind = "delete" /\ Send("other", kind, k, None, None)
     \/ kind = "toggle" /\ Send("other", kind, k, None, ~row[k].active)
  /\ UNCHANGED <<backend, page>>

-----------------------------------------------------------------------------
(* The handlers.  Each takes the scheduler's lock once per change of the   *)
(* map, and none for the whole request.                                    *)

Step(c, d) == calls' = (calls \ {c}) \cup {d}
Goto(c, pc) == Step(c, [c EXCEPT !.pc = pc])
Answer(c, pc) ==
  Step(c, [c EXCEPT !.pc = pc, !.conf = None, !.active = None, !.key_row = NoRow, !.alone = TRUE])
Settled(c) == raced' = IF c.alone THEN raced \ {c.key} ELSE raced

InsertRow(c) ==
  /\ c.pc = "sent" /\ c.kind = "create"
  /\ \/ \E k \in Keys \ minted :
          LET key == [conf |-> c.conf, active |-> TRUE] IN
          /\ row' = [row EXCEPT ![k] = key]
          /\ minted' = minted \cup {k}
          /\ Step(c, [c EXCEPT !.key = k, !.key_row = key, !.pc = "add"])
          /\ UNCHANGED used
     \/ /\ Trouble /\ Answer(c, "error")
        /\ UNCHANGED <<row, minted>>
  /\ UNCHANGED <<worker, stray, overlaps, raced, page>>

\* First: 404 when the row is gone.
ReadRow(c) ==
  /\ c.pc = "sent" /\ c.kind # "create"
  /\ IF ~Exists(c.key)
     THEN Answer(c, "error") /\ UNCHANGED <<overlaps, raced>>
     ELSE LET others == InHandler(c.key)
              d == [c EXCEPT !.key_row = row[c.key], !.alone = others = {},
                             !.pc = IF c.kind = "delete" THEN "count" ELSE "save"]
          IN  /\ calls' = (calls \ ({c} \cup others)) \cup {d}
                            \cup {[o EXCEPT !.alone = FALSE] : o \in others}
              /\ IF others = {} THEN UNCHANGED <<overlaps, raced>>
                 ELSE /\ overlaps' = [overlaps EXCEPT ![c.key] = @ + 1]
                      /\ raced' = raced \cup {c.key}
  /\ UNCHANGED <<row, minted, worker, stray, page, used>>

\* Mutant: a field the request leaves out is blanked.
ChangedBlanking(c) ==
  [conf |-> c.conf,
   active |-> IF ~Exists(c.key) THEN TRUE
              ELSE IF c.active = None THEN c.key_row.active ELSE c.active]

\* The row as read, with the fields of the request; Save writes all of it,
\* and inserts it where it has been deleted, is_active at its default.
Changed(c) ==
  [conf |-> IF c.conf = None THEN c.key_row.conf ELSE c.conf,
   active |-> IF ~Exists(c.key) THEN TRUE
              ELSE IF c.active = None THEN c.key_row.active ELSE c.active]

SaveRow(c) ==
  /\ c.pc = "save"
  /\ \/ /\ row' = [row EXCEPT ![c.key] = Changed(c)]
        /\ Step(c, [c EXCEPT !.key_row = Changed(c), !.pc = "remove"])
        /\ UNCHANGED used
     \/ Trouble /\ Answer(c, "error") /\ UNCHANGED row
  /\ UNCHANGED <<minted, worker, stray, overlaps, raced, page>>

\* A key with DISPATCHED or RUNNING tasks is not deleted.
CountTasks(c) ==
  /\ c.pc = "count"
  /\ Goto(c, "remove") \/ Answer(c, "error")
  /\ UNCHANGED <<backend, page, used>>

AfterRemove(c) ==
  IF c.kind = "delete" THEN Goto(c, "delete") /\ UNCHANGED raced
  ELSE IF c.key_row.active THEN Goto(c, "add") /\ UNCHANGED raced
  ELSE Answer(c, "ok") /\ Settled(c)

\* Mutant: UpdateWorker without RemoveWorker.
RemoveWorkerNot(c) ==
  /\ c.pc = "remove"
  /\ AfterRemove(c)
  /\ UNCHANGED <<row, minted, worker, stray, overlaps, page, used>>

\* RemoveWorker; then UpdateWorker goes on where the row is active.
RemoveWorker(c) ==
  /\ c.pc = "remove"
  /\ worker' = [worker EXCEPT ![c.key] = None]
  /\ AfterRemove(c)
  /\ UNCHANGED <<row, minted, stray, overlaps, page, used>>

\* AddWorker does not look at the entry it overwrites.
AddWorker(c) ==
  /\ c.pc = "add"
  /\ worker' = [worker EXCEPT ![c.key] = c.key_row.conf]
  /\ stray' = IF worker[c.key] = None THEN stray ELSE [stray EXCEPT ![c.key] = @ + 1]
  /\ Answer(c, "ok") /\ Settled(c)
  /\ UNCHANGED <<row, minted, overlaps, page, used>>

\* The worker is already gone when the row cannot be deleted.
DeleteRow(c) ==
  /\ c.pc = "delete"
  /\ \/ /\ row' = [row EXCEPT ![c.key] = NoRow]
        /\ Answer(c, "ok") /\ Settled(c)
        /\ UNCHANGED used
     \/ /\ Trouble /\ Answer(c, "error")
        /\ raced' = raced \cup {c.key}
        /\ UNCHANGED row
  /\ UNCHANGED <<minted, worker, stray, overlaps, page>>

\* A connection that breaks before the answer: a failure to the page.
LoseAnswer(c) ==
  /\ c.pc = "ok" /\ c.who = "page"
  /\ Trouble
  /\ Goto(c, "error")
  /\ UNCHANGED <<backend, page>>

-----------------------------------------------------------------------------
(* Answers.                                                                *)

Handled(c) == c.who = "page" /\ c.pc = "ok"

\* Mutant: a saved dialog keeps its form.
DoneKeepingForm(c) ==
  /\ c.pc \in {"ok", "error"}
  /\ calls' = calls \ {c}
  /\ IF Handled(c) THEN FetchKeys ELSE UNCHANGED lists
  /\ dialog' = IF Handled(c) /\ c.kind \in {"create", "update"}
               THEN [Closed EXCEPT !.form = dialog.form] ELSE dialog
  /\ UNCHANGED <<backend, shown, used>>

\* After a success the dialog is closed, also when another key is being
\* edited in it by then, and the list is asked for; a failure is a toast.
Done(c) ==
  /\ c.pc \in {"ok", "error"}
  /\ calls' = calls \ {c}
  /\ IF Handled(c) THEN FetchKeys ELSE UNCHANGED lists
  /\ dialog' = IF Handled(c) /\ c.kind \in {"create", "update"} THEN Closed ELSE dialog
  /\ UNCHANGED <<backend, shown, used>>

Handle(c) ==
  \/ InsertRow(c) \/ ReadRow(c) \/ SaveRow(c) \/ CountTasks(c)
  \/ RemoveWorker(c) \/ AddWorker(c) \/ DeleteRow(c)

Next ==
  \/ \E l \in lists : LandList(l) \/ LoseList(l)
  \/ ReadList \/ OpenAdd \/ CloseDialog \/ Submit
  \/ \E conf \in Confs : Enter(conf)
  \/ \E k \in Keys :
       \/ Edit(k) \/ Toggle(k) \/ Delete(k)
       \/ \E kind \in {"toggle", "delete"} : Put(kind, k)
  \/ \E c \in calls : Handle(c) \/ LoseAnswer(c) \/ Done(c)

Spec == Init /\ [][Next]_vars

-----------------------------------------------------------------------------
(* Properties.                                                             *)

\* Between requests for a key its worker is in the map exactly when its row
\* is active, and is made of that row; where requests overlapped, which
\* nothing in the handlers prevents, or a deletion failed after the worker
\* was removed, the next request that is alone puts it right.  Each overlap
\* leaves at most one worker running outside the map.
PoolMatchesRows ==
  \A k \in Keys :
    /\ stray[k] <= overlaps[k]
    /\ (k \notin raced /\ InHandler(k) = {}) =>
          worker[k] = IF row[k].active THEN row[k].conf ELSE None

\* What is in the form belongs to the dialog it is in, whichever request
\* ends while another dialog is open: an API key that was filled in from a
\* row is never submitted for a new key, nor one row's values for another.
DialogFormMatches ==
  IF dialog.editing = None THEN dialog.form.apiKey \in {"empty", "entered"}
  ELSE dialog.open /\ dialog.form.apiKey = dialog.editing

=============================================================================
