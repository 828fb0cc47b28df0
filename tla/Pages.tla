-------------------------------- MODULE Pages --------------------------------
(***************************************************************************)
(* One browser tab of the console and its pages that show lists:           *)
(* src/frontend/src/pages/Tasks.tsx, Uploads.tsx, PlatformKeys.tsx and     *)
(* Dashboard.tsx, one mounted at a time (App.tsx, Layout.tsx), with the    *)
(* list handlers that answer them.                                         *)
(*                                                                         *)
(* Tasks and dashboard ask again and again; uploads and platform keys ask  *)
(* when they are mounted, when the query changes and after an own change.  *)
(* Nothing cancels a request or numbers the answers: whatever lands last   *)
(* is shown.                                                               *)
(***************************************************************************)
EXTENDS Integers, Sequences, FiniteSets

CONSTANTS
  Ids,          \* ids of rows, in the order of created_at
  UploadName,   \* UploadName[i]: what a search tells upload i by
  PageSize,     \* pageSize, the same in page and handler
  MaxLists,     \* bound: with so many lists asked for, an interval waits
  MaxActs, MaxChanges, MaxFaults   \* bounds

ASSUME IdsAssumption == Ids \subseteq Nat /\ IsFiniteSet(Ids)
ASSUME NamesAssumption == DOMAIN UploadName = Ids
ASSUME SizeAssumption == PageSize \in Nat \ {0}
ASSUME BoundsAssumption == {MaxLists, MaxActs, MaxChanges, MaxFaults} \subseteq Nat

VARIABLES
  db,        \* db[r]: the rows of a table; "absent" where there is none
  route,     \* the page mounted
  view,      \* its query, the answer it shows, and where nothing polls,
             \* whether that is the answer of the newest request
  dialogs,   \* its open dialogs
  timers,    \* the queries its intervals repeat
  lists,     \* its list requests: query, parts answered, overtaken by another
  requests,  \* cancel, create, delete and reveal requests
  doubt,     \* history, where nothing polls: somebody else changed the table,
             \* or an own change, of an earlier visit too, went unheard of
  used       \* acts of the user, changes by others, failed requests

tab == <<route, view, dialogs, timers>>
vars == <<db, tab, lists, requests, doubt, used>>

Routes == {"dashboard", "tasks", "uploads", "keys"}
Tables == Routes \ {"dashboard"}
Polled == {"dashboard", "tasks"}
Paged == {"tasks", "uploads"}
Cancellable == {"PENDING", "RUNNING"}
Statuses == Cancellable \cup {"SUCCESS", "CANCELLED"}
Labels == [tasks |-> Statuses, uploads |-> {UploadName[i] : i \in Ids}, keys |-> {"key"}]
Tabs == {"all", "PENDING", "RUNNING", "SUCCESS", "CANCELLED"}
Filters == [dashboard |-> {"all"}, tasks |-> Tabs,
            uploads |-> {"all"} \cup Labels.uploads, keys |-> {"all"}]
FirstQuery == [filter |-> "all", page |-> 1]
Query == [filter |-> view.filter, page |-> view.page]
Parts(r) == IF r = "dashboard" THEN {"stats", "charts"} ELSE {"list"}
Spend(what) == used' = [used EXCEPT ![what] = @ + 1]

-----------------------------------------------------------------------------
(* The list handlers.                                                      *)

Present(t) == {i \in Ids : db[t][i] # "absent"}
Row(t, i) == [id |-> i, label |-> db[t][i]]

\* Newest first, one page of the rows that match; platform keys unpaged.
Answer(r, q) ==
  LET t == IF r = "dashboard" THEN "tasks" ELSE r
      hits == {i \in Present(t) : q.filter \in {"all", db[t][i]}}
      newer(i) == Cardinality({j \in hits : j > i})
      onPage(i) == newer(i) \div PageSize = q.page - 1
  IN  [items |-> {Row(t, i) : i \in {j \in hits : r \in Paged => onPage(j)}},
       total |-> Cardinality(hits)]

TypeOK ==
  LET Rows == UNION {[id : Ids, label : Labels[t]] : t \in Tables}
      Answers == [items : SUBSET Rows, total : 0..Cardinality(Ids)]
  IN
  /\ \A t \in Tables : db[t] \in [Ids -> Labels[t] \cup {"absent"}]
  /\ route \in Routes
  /\ view.filter \in Filters[route] /\ view.page \in Nat \ {0}
  /\ DOMAIN view.shown \in {{}, Parts(route)} /\ view.newest \in BOOLEAN
  /\ \A p \in DOMAIN view.shown : view.shown[p] \in Answers
  /\ \A q \in timers : q.filter \in Filters[route]
  /\ \A l \in lists : /\ l.q.filter \in Filters[route] /\ l.late \in BOOLEAN
                      /\ DOMAIN l.ans \subseteq Parts(route)
  /\ \A m \in requests : /\ m.kind \in {"cancel", "create", "delete", "reveal"}
                         /\ m.id \in Ids /\ m.ans \in {"none", "ok", "error"}
  /\ doubt \in BOOLEAN
  /\ used \in [acts : 0..MaxActs, changes : 0..MaxChanges, faults : 0..MaxFaults]

-----------------------------------------------------------------------------
(* Requests for the list.                                                  *)

Nothing == <<>>
NewList(q) == [q |-> q, ans |-> Nothing, late |-> FALSE]

\* fetchTasks, fetchUploads, fetchKeys, fetchAll
Fetch(q) ==
  /\ lists' = {[l EXCEPT !.late = route \notin Polled] : l \in lists} \cup {NewList(q)}
  /\ view' = [view EXCEPT !.newest = FALSE]

Fresh == [filter |-> "all", page |-> 1, shown |-> Nothing, newest |-> FALSE]

\* Mutant: the requests of the page that is left are answered in the next one.
GotoKeepingLists(r) ==
  /\ used.acts < MaxActs
  /\ r # route
  /\ route' = r
  /\ view' = Fresh
  /\ dialogs' = {}
  /\ lists' = lists \cup {NewList(FirstQuery)}
  /\ timers' = IF r \in Polled THEN {FirstQuery} ELSE {}
  /\ requests' = {[m EXCEPT !.live = FALSE] : m \in requests}
  /\ doubt' = FALSE
  /\ Spend("acts")
  /\ UNCHANGED db

\* Requests of another page keep running, but nobody hears their answers.
Goto(r) ==
  /\ used.acts < MaxActs
  /\ r # route
  /\ route' = r
  /\ view' = Fresh
  /\ dialogs' = {}
  /\ lists' = {NewList(FirstQuery)}
  /\ timers' = IF r \in Polled THEN {FirstQuery} ELSE {}
  /\ requests' = {[m EXCEPT !.live = FALSE] : m \in requests}
  /\ doubt' = FALSE
  /\ Spend("acts")
  /\ UNCHANGED db

Init ==
  /\ \E n \in 0..Cardinality(Ids) :
       db = [tasks |-> [i \in Ids |-> IF i <= n THEN "PENDING" ELSE "absent"],
             uploads |-> [i \in Ids |-> IF i <= n THEN UploadName[i] ELSE "absent"],
             keys |-> [i \in Ids |-> IF i <= n THEN "key" ELSE "absent"]]
  /\ route = "dashboard"
  /\ view = Fresh
  /\ dialogs = {}
  /\ lists = {NewList(FirstQuery)}
  /\ timers = {FirstQuery}
  /\ requests = {}
  /\ doubt = FALSE
  /\ used = [acts |-> 0, changes |-> 0, faults |-> 0]

Poll(q) ==
  /\ q \in timers
  /\ Cardinality(lists) < MaxLists
  /\ Fetch(q)
  /\ UNCHANGED <<db, route, dialogs, timers, requests, doubt, used>>

\* One GET is handled; the dashboard's three are handled one by one.
ReadList(l) ==
  /\ \E p \in Parts(route) \ DOMAIN l.ans :
       lists' = (lists \ {l}) \cup
         {[l EXCEPT !.ans = [x \in DOMAIN l.ans \cup {p} |->
                               IF x = p THEN Answer(route, l.q) ELSE l.ans[x]]]}
  /\ UNCHANGED <<db, tab, requests, doubt, used>>

\* The last answer to land is shown, whatever it was asked for; the dashboard
\* waits for all of its answers (Promise.all).
LandList(l) ==
  /\ DOMAIN l.ans = Parts(route)
  /\ lists' = lists \ {l}
  /\ view' = [view EXCEPT !.shown = l.ans, !.newest = ~l.late /\ route \notin Polled]
  /\ UNCHANGED <<db, route, dialogs, timers, requests, doubt, used>>

\* A failed request, or one failed request of the dashboard's: only logged.
LoseList(l) ==
  /\ used.faults < MaxFaults
  /\ lists' = lists \ {l}
  /\ Spend("faults")
  /\ UNCHANGED <<db, tab, requests, doubt>>

-----------------------------------------------------------------------------
(* Tabs, search and pagination.                                            *)

\* Mutant: the effect's dependencies leave out the page.
EffectWithoutPage(filter, page) ==
  /\ IF filter = view.filter
     THEN view' = [view EXCEPT !.page = page] /\ UNCHANGED <<lists, timers>>
     ELSE /\ lists' = {[l EXCEPT !.late = route \notin Polled] : l \in lists}
                        \cup {NewList([filter |-> filter, page |-> page])}
          /\ view' = [view EXCEPT !.filter = filter, !.page = page, !.newest = FALSE]
          /\ timers' = IF route \in Polled THEN {[filter |-> filter, page |-> page]} ELSE {}

\* A changed query runs the effect again: a request, and a new interval in
\* the place of the old one.
Effect(filter, page) ==
  LET q == [filter |-> filter, page |-> page] IN
  /\ q # Query
  /\ lists' = {[l EXCEPT !.late = route \notin Polled] : l \in lists} \cup {NewList(q)}
  /\ view' = [view EXCEPT !.filter = filter, !.page = page, !.newest = FALSE]
  /\ timers' = IF route \in Polled THEN {q} ELSE {}

Act == used.acts < MaxActs /\ dialogs = {} /\ Spend("acts")

\* A tab of the tasks, a search or its removal: back to page 1.
SetFilter(filter) ==
  /\ Act
  /\ route \in Paged /\ filter \in Filters[route]
  /\ Effect(filter, 1)
  /\ UNCHANGED <<db, route, dialogs, requests, doubt>>

TotalPages ==
  IF view.shown = Nothing THEN 0
  ELSE (view.shown["list"].total + PageSize - 1) \div PageSize

\* The pagination is there when the answer shown has more than one page.
Turn(page) ==
  /\ Act
  /\ route \in Paged /\ TotalPages > 1
  /\ \/ page = view.page - 1 /\ view.page > 1
     \/ page = view.page + 1 /\ view.page < TotalPages
  /\ Effect(view.filter, page)
  /\ UNCHANGED <<db, route, dialogs, requests, doubt>>

-----------------------------------------------------------------------------
(* Changes, and the full text of a key.                                    *)

Shown == IF view.shown = Nothing \/ route = "dashboard" THEN {} ELSE view.shown["list"].items

Send(kind, id) ==
  requests' = requests \cup {[kind |-> kind, id |-> id, q |-> Query, live |-> TRUE,
                              ans |-> "none", n |-> used.acts]}

\* The button of a row that the shown answer says can be cancelled.
Cancel(id) ==
  /\ Act
  /\ route = "tasks"
  /\ \E row \in Shown : row.id = id /\ row.label \in Cancellable
  /\ Send("cancel", id)
  /\ UNCHANGED <<db, tab, lists, doubt>>

OpenForm ==
  /\ Act
  /\ route = "keys"
  /\ dialogs' = {<<"form">>}
  /\ UNCHANGED <<db, route, view, timers, lists, requests, doubt>>

\* handleCreate; the id is the server's to choose.  The form stays open, and
\* its button enabled, until the answer is there.
Create(id) ==
  /\ used.acts < MaxActs /\ Spend("acts")
  /\ <<"form">> \in dialogs
  /\ db.keys[id] = "absent" /\ \A m \in requests : m.kind = "create" => m.id # id
  /\ Send("create", id)
  /\ UNCHANGED <<db, tab, lists, doubt>>

Press(kind, id) ==
  /\ Act
  /\ route = "keys" /\ kind \in {"delete", "reveal"}
  /\ \E row \in Shown : row.id = id
  /\ Send(kind, id)
  /\ UNCHANGED <<db, tab, lists, doubt>>

\* The handlers: a cancel is refused once the task is final, a key can be
\* revealed while it exists, deleting one that is gone succeeds.  The page
\* does not hear of what an earlier visit to it asked for.
Handle(m) ==
  LET answer(a) == requests' = (requests \ {m}) \cup {[m EXCEPT !.ans = a]}
  IN
  /\ m.ans = "none"
  /\ \/ /\ m.kind = "cancel"
        /\ IF db.tasks[m.id] \in Cancellable
           THEN db' = [db EXCEPT !.tasks[m.id] = "CANCELLED"] /\ answer("ok")
           ELSE answer("error") /\ UNCHANGED db
     \/ /\ m.kind = "create"
        /\ db' = [db EXCEPT !.keys[m.id] = "key"] /\ answer("ok")
     \/ /\ m.kind = "delete"
        /\ db' = [db EXCEPT !.keys[m.id] = "absent"] /\ answer("ok")
     \/ /\ m.kind = "reveal"
        /\ answer(IF db.keys[m.id] = "key" THEN "ok" ELSE "error")
        /\ UNCHANGED db
  /\ doubt' = (doubt \/ (~m.live /\ route \notin Polled /\ db'[route] # db[route]))
  /\ UNCHANGED <<tab, lists, used>>

\* A dialog shows one key: a later answer takes the place of an earlier one.
OneOf(kind, id) == {d \in dialogs : d[1] # kind} \cup {<<kind, id>>}

\* Mutant: nothing is fetched after a change.
DoneUnfetched(m) ==
  /\ m.ans # "none"
  /\ requests' = requests \ {m}
  /\ IF m.live /\ m.ans = "ok" /\ m.kind = "create"
     THEN dialogs' = OneOf("new", m.id) \ {<<"form">>} ELSE UNCHANGED dialogs
  /\ UNCHANGED <<db, route, view, timers, lists, doubt, used>>

\* After a success the handlers of cancel, create and delete fetch the list,
\* with the query of the render the button was pressed in.
Done(m) ==
  /\ m.ans # "none"
  /\ requests' = requests \ {m}
  /\ IF m.live /\ m.ans = "ok"
     THEN /\ IF m.kind = "reveal" THEN UNCHANGED <<lists, view>> ELSE Fetch(m.q)
          /\ dialogs' = CASE m.kind = "create" -> OneOf("new", m.id) \ {<<"form">>}
                          [] m.kind = "reveal" -> OneOf("revealed", m.id)
                          [] OTHER -> dialogs
     ELSE UNCHANGED <<lists, view, dialogs>>
  /\ UNCHANGED <<db, route, timers, doubt, used>>

\* The connection breaks before or after the handler: a toast, no fetch.
LoseRequest(m) ==
  /\ used.faults < MaxFaults
  /\ requests' = requests \ {m}
  /\ doubt' = (doubt \/ (m.live /\ route \notin Polled))
  /\ Spend("faults")
  /\ UNCHANGED <<db, tab, lists>>

\* A click on a task opens its detail, a copy of the row as it is shown.
OpenTask(row) ==
  /\ Act
  /\ route = "tasks" /\ row \in Shown
  /\ dialogs' = {<<"task", row.id, row.label>>}
  /\ UNCHANGED <<db, route, view, timers, lists, requests, doubt>>

CloseDialog(d) ==
  /\ d \in dialogs
  /\ dialogs' = dialogs \ {d}
  /\ UNCHANGED <<db, route, view, timers, lists, requests, doubt, used>>

-----------------------------------------------------------------------------
(* Everybody else: clients and workers, other admins.                      *)

Change(t, i) ==
  /\ used.changes < MaxChanges
  /\ \E label \in Labels[t] \cup {"absent"} :
       /\ db[t][i] = "absent" => label \in {"PENDING", "key"} \cup Labels.uploads
       /\ t = "uploads" => db[t][i] = "absent" /\ label = UploadName[i]
       /\ t = "tasks" => <<db[t][i], label>> \in
            {<<"absent", "PENDING">>, <<"PENDING", "RUNNING">>, <<"RUNNING", "SUCCESS">>}
       /\ label # db[t][i]
       /\ db' = [db EXCEPT ![t][i] = label]
  /\ doubt' = (doubt \/ (t = route /\ route \notin Polled))
  /\ Spend("changes")
  /\ UNCHANGED <<tab, lists, requests>>

Next ==
  \/ \E r \in Routes : Goto(r)
  \/ \E q \in timers : Poll(q)
  \/ \E l \in lists : ReadList(l) \/ LandList(l) \/ LoseList(l)
  \/ \E f \in Tabs \cup Labels.uploads : SetFilter(f)
  \/ \E page \in {view.page - 1, view.page + 1} : Turn(page)
  \/ \E i \in Ids :
       \/ Cancel(i) \/ Create(i) \/ \E kind \in {"delete", "reveal"} : Press(kind, i)
       \/ \E t \in Tables : Change(t, i)
  \/ \E m \in requests : Handle(m) \/ Done(m) \/ LoseRequest(m)
  \/ \E row \in Shown : OpenTask(row)
  \/ OpenForm
  \/ \E d \in dialogs : CloseDialog(d)

Spec == Init /\ [][Next]_vars

\* Intervals fire, the server answers, answers arrive.  Equal requests are one
\* element of lists, so that fairness is stated for each step of a request.
Fairness ==
  /\ WF_vars(\E q \in timers : Poll(q))
  /\ WF_vars(\E l \in lists : l.ans = Nothing /\ ReadList(l))
  /\ WF_vars(\E l \in lists : l.ans # Nothing /\ ReadList(l))
  /\ WF_vars(\E l \in lists : LandList(l))
  /\ WF_vars(\E m \in requests : Handle(m) \/ Done(m))

FairSpec == Spec /\ Fairness

-----------------------------------------------------------------------------
(* Properties.                                                             *)

Current == [p \in Parts(route) |-> Answer(route, Query)]

\* Tasks and dashboard end up showing what the tables hold for the tab and
\* the page selected, although answers land out of order, requests fail and
\* a cancel fetches with the query of an older render.
PolledPageCatchesUp == <>[](route \in Polled => view.shown = Current)

\* Uploads and platform keys, which do not poll, show what the table holds
\* once their requests are answered, own changes included: unless the answer
\* shown was overtaken, somebody else changed the table, the answer to an own
\* change was lost, or the page was left and opened again before it was made.
UnpolledPageSettles ==
  (route \notin Polled /\ lists = {} /\ requests = {} /\ view.newest /\ ~doubt) =>
    view.shown = Current

=============================================================================
