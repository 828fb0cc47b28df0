----------------------------- MODULE PagesProofs -----------------------------
(***************************************************************************)
(* Proofs about Pages, for every set of rows, all names, every page size   *)
(* and every number of requests, acts, changes and faults: type            *)
(* correctness, and that a page that does not poll shows what its table    *)
(* holds once all is answered.                                             *)
(***************************************************************************)
EXTENDS Pages, FiniteSetTheorems, TLAPS

Rows == UNION {[id : Ids, label : Labels[t]] : t \in Tables}
Answers == [items : SUBSET Rows, total : 0..Cardinality(Ids)]
Queries(r) == [filter : Filters[r], page : Nat \ {0}]
AnyQuery == [filter : UNION {Filters[r] : r \in Routes}, page : Nat \ {0}]
PartAnswers(r) == UNION {[S -> Answers] : S \in SUBSET Parts(r)}
Kinds == {"cancel", "create", "delete", "reveal"}

-----------------------------------------------------------------------------
(* The invariant, in named parts.                                          *)

DbType ==
  /\ db = [t \in Tables |-> db[t]]
  /\ \A t \in Tables : db[t] \in [Ids -> Labels[t] \cup {"absent"}]

ViewType ==
  /\ route \in Routes
  /\ view \in [filter : Filters[route], page : Nat \ {0},
               shown : {Nothing} \cup [Parts(route) -> Answers], newest : BOOLEAN]

TimerType == timers \subseteq Queries(route) /\ (route \notin Polled => timers = {})

ListType == lists \subseteq [q : Queries(route), ans : PartAnswers(route), late : BOOLEAN]

\* The page that hears of a request is the one it was sent from.
RequestType ==
  /\ requests \subseteq [kind : Kinds, id : Ids, q : AnyQuery, live : BOOLEAN,
                         ans : {"none", "ok", "error"}, n : Nat]
  /\ \A m \in requests : m.live =>
       /\ m.q \in Queries(route)
       /\ route = IF m.kind = "cancel" THEN "tasks" ELSE "keys"

RestType ==
  /\ doubt \in BOOLEAN
  /\ used \in [acts : 0..MaxActs, changes : 0..MaxChanges, faults : 0..MaxFaults]

\* Platform keys have one query only.
OneQuery == route = "keys" =>
  /\ view.filter = "all" /\ view.page = 1
  /\ \A m \in requests : m.live => m.q = FirstQuery

\* A change of the page's own that is made and not heard of yet.
Unheard == \E m \in requests : m.live /\ m.ans = "ok" /\ m.kind \in {"create", "delete"}

(***************************************************************************)
(* Where nothing polls and there is no doubt: a request that no other has  *)
(* overtaken has the query of the page; and unless an own change is to be  *)
(* heard of, after which all that was asked for counts as late, its        *)
(* answer, and the answer shown as the newest, is the current one.         *)
(***************************************************************************)
NewestIsCurrent ==
  route \notin Polled =>
    /\ \A l \in lists : ~l.late => l.q = Query
    /\ ~doubt /\ ~Unheard =>
         /\ \A l \in lists : ~l.late /\ l.ans # Nothing => l.ans = Current
         /\ view.newest => view.shown = Current

\* The form is a dialog of the platform keys.
FormShown == <<"form">> \in dialogs => route = "keys"

PTypes == DbType /\ ViewType /\ TimerType /\ ListType /\ RequestType /\ RestType
PInv == PTypes /\ OneQuery /\ NewestIsCurrent

-----------------------------------------------------------------------------
(* Operators.                                                              *)

LEMMA NothingType == DOMAIN Nothing = {} /\ \A A : Nothing \in [{} -> A]
BY DEF Nothing

LEMMA PartsKnown ==
  /\ \A r \in Routes : Parts(r) # {}
  /\ \A r \in Routes \ Polled : Parts(r) = {"list"}
BY DEF Parts, Routes, Polled

LEMMA FiltersKnown ==
  /\ \A r \in Routes : "all" \in Filters[r]
  /\ \A r \in Routes : FirstQuery \in Queries(r)
  /\ \A r \in Routes : Queries(r) \subseteq AnyQuery
  /\ Filters["keys"] = {"all"}
<1>1. \A r \in Routes : "all" \in Filters[r]
  BY DEF Routes, Filters, Tabs
<1>2. \A r \in Routes : Filters[r] \subseteq UNION {Filters[u] : u \in Routes}
  OBVIOUS
<1>3. Filters["keys"] = {"all"}
  BY DEF Filters
<1> QED
  BY <1>1, <1>2, <1>3 DEF Queries, FirstQuery, AnyQuery

\* What a list handler answers.
LEMMA AnswerType ==
  ASSUME DbType, NEW r \in Routes, NEW q
  PROVE  Answer(r, q) \in Answers
<1> DEFINE t == IF r = "dashboard" THEN "tasks" ELSE r
           hits == {i \in Present(t) : q.filter \in {"all", db[t][i]}}
           newer(i) == Cardinality({j \in hits : j > i})
           some == {j \in hits : r \in Paged => newer(j) \div PageSize = q.page - 1}
<1>1. t \in Tables
  BY DEF Tables, Routes
<1>2. hits \subseteq Ids
  BY DEF Present
<1>3. Cardinality(hits) \in 0..Cardinality(Ids)
  <2>1. IsFiniteSet(hits) /\ Cardinality(hits) <= Cardinality(Ids)
    BY <1>2, IdsAssumption, FS_Subset
  <2> QED
    BY <2>1, IdsAssumption, FS_CardinalityType
<1>4. ASSUME NEW i \in some PROVE Row(t, i) \in [id : Ids, label : Labels[t]]
  <2>1. i \in Ids /\ db[t][i] # "absent"
    BY DEF Present
  <2>2. db[t][i] \in Labels[t]
    BY <1>1, <2>1 DEF DbType
  <2> QED
    BY <2>1, <2>2 DEF Row
<1>5. Answer(r, q) = [items |-> {Row(t, i) : i \in some}, total |-> Cardinality(hits)]
  BY DEF Answer
<1> HIDE DEF t, hits, some
<1>6. {Row(t, i) : i \in some} \subseteq Rows
  BY <1>1, <1>4 DEF Rows
<1> QED
  BY <1>3, <1>5, <1>6 DEF Answers

\* The answer depends on one table.
LEMMA AnswerSame ==
  ASSUME NEW r \in Routes \ Polled, NEW q, db'[r] = db[r]
  PROVE  Answer(r, q)' = Answer(r, q)
<1>1. r # "dashboard"
  BY DEF Polled
<1>2. PICK c : c = db[r] /\ c = db'[r]
  OBVIOUS
<1> QED
  BY <1>1, <1>2 DEF Answer, Present, Row

-----------------------------------------------------------------------------
(* What leaves a part of the invariant alone.                              *)

LEMMA StillDb == DbType /\ UNCHANGED db => DbType'
BY DEF DbType

LEMMA StillView == ViewType /\ UNCHANGED <<route, view>> => ViewType'
BY DEF ViewType

LEMMA StillTimers == TimerType /\ UNCHANGED <<route, timers>> => TimerType'
BY DEF TimerType

LEMMA StillLists == ListType /\ UNCHANGED <<route, lists>> => ListType'
BY DEF ListType

LEMMA StillRequests == RequestType /\ UNCHANGED <<route, requests>> => RequestType'
BY DEF RequestType

LEMMA StillOne == OneQuery /\ UNCHANGED <<route, view, requests>> => OneQuery'
BY DEF OneQuery

LEMMA StillNewest ==
  NewestIsCurrent /\ UNCHANGED <<db, route, view, lists, requests, doubt>> => NewestIsCurrent'
<1> SUFFICES ASSUME NewestIsCurrent, UNCHANGED <<db, route, view, lists, requests, doubt>>
             PROVE  NewestIsCurrent'
  OBVIOUS
<1>1. Current' = Current /\ Query' = Query /\ Unheard' = Unheard
  BY DEF Current, Answer, Present, Row, Query, Unheard
<1> QED
  BY <1>1 DEF NewestIsCurrent

LEMMA SpendRest ==
  ASSUME RestType, doubt' \in BOOLEAN,
         \/ used.acts < MaxActs /\ Spend("acts")
         \/ used.changes < MaxChanges /\ Spend("changes")
         \/ used.faults < MaxFaults /\ Spend("faults")
         \/ UNCHANGED used
  PROVE  RestType'
BY BoundsAssumption DEF RestType, Spend

-----------------------------------------------------------------------------
(* Requests for the list.                                                  *)

\* Where nothing polls, a new request overtakes all there are.
LEMMA Overtaken ==
  ASSUME ListType, NEW q \in Queries(route), UNCHANGED route,
         lists' = {[l EXCEPT !.late = route \notin Polled] : l \in lists} \cup {NewList(q)}
  PROVE  /\ ListType'
         /\ route \notin Polled => \A l \in lists' : l.late \/ l = NewList(q)
<1>1. NewList(q) \in [q : Queries(route), ans : PartAnswers(route), late : BOOLEAN]
  <2>1. Nothing \in PartAnswers(route)
    BY NothingType DEF PartAnswers
  <2> QED
    BY <2>1 DEF NewList
<1>2. \A l \in lists :
        /\ [l EXCEPT !.late = route \notin Polled] \in
             [q : Queries(route), ans : PartAnswers(route), late : BOOLEAN]
        /\ [l EXCEPT !.late = route \notin Polled].late = (route \notin Polled)
  BY DEF ListType
<1> QED
  BY <1>1, <1>2 DEF ListType

\* So nothing that was asked for before counts, once it is made for the query
\* of the page.
LEMMA AskedAnew ==
  ASSUME ListType, NEW q \in Queries(route), UNCHANGED route, Query' = q, ~view'.newest,
         lists' = {[l EXCEPT !.late = route \notin Polled] : l \in lists} \cup {NewList(q)}
  PROVE  NewestIsCurrent'
BY Overtaken DEF NewestIsCurrent, NewList

LEMMA FreshType ==
  ASSUME NEW r \in Routes
  PROVE  Fresh \in [filter : Filters[r], page : Nat \ {0},
                    shown : {Nothing} \cup [Parts(r) -> Answers], newest : BOOLEAN]
BY FiltersKnown DEF Fresh

LEMMA NewListType ==
  ASSUME NEW r, NEW q \in Queries(r)
  PROVE  NewList(q) \in [q : Queries(r), ans : PartAnswers(r), late : BOOLEAN]
<1>1. Nothing \in PartAnswers(r)
  BY NothingType DEF PartAnswers
<1> QED
  BY <1>1 DEF NewList

LEMMA InitInv == Init => PInv
<1> SUFFICES ASSUME Init PROVE PInv
  OBVIOUS
<1>1. DbType
  <2>1. PICK n \in 0..Cardinality(Ids) :
          db = [tasks |-> [i \in Ids |-> IF i <= n THEN "PENDING" ELSE "absent"],
                uploads |-> [i \in Ids |-> IF i <= n THEN UploadName[i] ELSE "absent"],
                keys |-> [i \in Ids |-> IF i <= n THEN "key" ELSE "absent"]]
    BY DEF Init
  <2>2. Tables = {"tasks", "uploads", "keys"}
    BY DEF Tables, Routes
  <2>3. /\ db["tasks"] \in [Ids -> {"PENDING", "absent"}]
        /\ db["keys"] \in [Ids -> {"key", "absent"}]
        /\ db["uploads"] \in [Ids -> {UploadName[i] : i \in Ids} \cup {"absent"}]
    BY <2>1
  <2>4. /\ "PENDING" \in Labels["tasks"] /\ "key" \in Labels["keys"]
        /\ Labels["uploads"] = {UploadName[i] : i \in Ids}
    BY DEF Labels, Statuses, Cancellable
  <2>5. \A t \in Tables : db[t] \in [Ids -> Labels[t] \cup {"absent"}]
    BY <2>2, <2>3, <2>4
  <2>6. db = [t \in Tables |-> db[t]]
    BY <2>1, <2>2
  <2> QED
    BY <2>5, <2>6 DEF DbType
<1>2. ViewType
  BY FreshType DEF Init, ViewType, Routes
<1>3. FirstQuery \in Queries(route) /\ route \in Polled
  BY FiltersKnown DEF Init, Routes, Polled
<1>4. TimerType /\ ListType
  BY <1>3, NewListType DEF Init, TimerType, ListType
<1>5. RequestType /\ OneQuery
  BY DEF Init, RequestType, OneQuery
<1>6. RestType
  <2>1. doubt = FALSE /\ used = [acts |-> 0, changes |-> 0, faults |-> 0]
    BY DEF Init
  <2>2. 0 \in 0..MaxActs /\ 0 \in 0..MaxChanges /\ 0 \in 0..MaxFaults
    BY BoundsAssumption
  <2> QED
    BY <2>1, <2>2 DEF RestType
<1>7. NewestIsCurrent
  BY <1>3 DEF NewestIsCurrent
<1> QED
  BY <1>1, <1>2, <1>4, <1>5, <1>6, <1>7 DEF PInv, PTypes

\* A page is mounted: what the page before asked for is not its own.
LEMMA GotoInv ==
  ASSUME PInv, NEW r \in Routes, Goto(r)
  PROVE  PInv'
<1> USE DEF PInv, PTypes
<1>1. /\ route' = r /\ view' = Fresh /\ lists' = {NewList(FirstQuery)}
      /\ timers' = IF r \in Polled THEN {FirstQuery} ELSE {}
      /\ requests' = {[m EXCEPT !.live = FALSE] : m \in requests}
      /\ doubt' = FALSE /\ UNCHANGED db
  BY DEF Goto
<1>2. FirstQuery \in Queries(r)
  BY FiltersKnown
<1>3. DbType'
  BY <1>1, StillDb
<1>4. ViewType'
  BY <1>1, FreshType DEF ViewType
<1>5. TimerType'
  BY <1>1, <1>2 DEF TimerType
<1>6. ListType'
  BY <1>1, <1>2, NewListType DEF ListType
<1>7. RequestType' /\ \A m \in requests' : ~m.live
  BY <1>1 DEF RequestType
<1>8. RestType'
  BY <1>1, SpendRest DEF Goto
<1>9. OneQuery'
  BY <1>1, <1>7 DEF OneQuery, Fresh
<1>10. NewestIsCurrent'
  BY <1>1 DEF NewestIsCurrent, Fresh, NewList, Query, FirstQuery
<1> QED
  BY <1>3, <1>4, <1>5, <1>6, <1>7, <1>8, <1>9, <1>10

LEMMA FetchInv ==
  ASSUME PInv, NEW q \in Queries(route), Fetch(q), route \notin Polled => q = Query,
         UNCHANGED <<db, route, timers>>, requests' \subseteq requests, RestType'
  PROVE  PInv'
<1> USE DEF PInv, PTypes
<1>1. /\ lists' = {[l EXCEPT !.late = route \notin Polled] : l \in lists} \cup {NewList(q)}
      /\ view' = [view EXCEPT !.newest = FALSE]
  BY DEF Fetch
<1>2. /\ view'.filter = view.filter /\ view'.page = view.page /\ ~view'.newest
      /\ ViewType'
  BY <1>1 DEF ViewType
<1>3. DbType' /\ TimerType'
  BY StillDb, StillTimers
<1>4. ListType'
  BY <1>1, Overtaken
<1>5. RequestType'
  BY DEF RequestType
<1>6. OneQuery'
  BY <1>2 DEF OneQuery
<1>7. Query' = Query
  BY <1>2 DEF Query
<1>8. NewestIsCurrent'
  <2>1. CASE route \in Polled
    BY <2>1 DEF NewestIsCurrent
  <2>2. CASE route \notin Polled
    BY <1>1, <1>2, <1>7, <2>2, AskedAnew
  <2> QED
    BY <2>1, <2>2
<1> QED
  BY <1>2, <1>3, <1>4, <1>5, <1>6, <1>8

LEMMA PollInv == ASSUME PInv, NEW q \in timers, Poll(q) PROVE PInv'
<1>1. q \in Queries(route) /\ route \in Polled /\ RestType'
  BY DEF PInv, PTypes, TimerType, RestType, Poll
<1> QED
  BY <1>1, FetchInv DEF Poll

\* The handler answers with what the table holds now.
LEMMA ReadInv == ASSUME PInv, NEW l \in lists, ReadList(l) PROVE PInv'
<1> USE DEF PInv, PTypes
<1>1. PICK p \in Parts(route) \ DOMAIN l.ans :
        lists' = (lists \ {l}) \cup
          {[l EXCEPT !.ans = [x \in DOMAIN l.ans \cup {p} |->
                                IF x = p THEN Answer(route, l.q) ELSE l.ans[x]]]}
  BY DEF ReadList
<1> DEFINE f == [x \in DOMAIN l.ans \cup {p} |->
                   IF x = p THEN Answer(route, l.q) ELSE l.ans[x]]
<1>2. UNCHANGED <<db, route, view, timers, requests, doubt, used>>
  BY DEF ReadList, tab
<1>3. l \in [q : Queries(route), ans : PartAnswers(route), late : BOOLEAN] /\ route \in Routes
  BY DEF ListType, ViewType
<1>4. f \in PartAnswers(route)
  <2>1. PICK S \in SUBSET Parts(route) : l.ans \in [S -> Answers]
    BY <1>3 DEF PartAnswers
  <2>2. Answer(route, l.q) \in Answers
    BY <1>3, AnswerType
  <2>3. f \in [S \cup {p} -> Answers]
    BY <2>1, <2>2
  <2>4. S \cup {p} \in SUBSET Parts(route)
    OBVIOUS
  <2> HIDE DEF f
  <2> QED
    BY <2>3, <2>4 DEF PartAnswers
<1>5. (route \notin Polled /\ l.q = Query) => f = Current
  <2> SUFFICES ASSUME route \notin Polled, l.q = Query PROVE f = Current
    OBVIOUS
  <2>1. Parts(route) = {"list"} /\ p = "list"
    BY <1>3, PartsKnown
  <2>2. DOMAIN l.ans \subseteq Parts(route)
    BY <1>3 DEF PartAnswers
  <2>3. f = [x \in {"list"} |-> Answer(route, l.q)]
    BY <2>1, <2>2
  <2> QED
    BY <2>1, <2>3 DEF Current
<1> DEFINE new == [l EXCEPT !.ans = f]
<1>6. new.q = l.q /\ new.late = l.late /\ new.ans = f
      /\ new \in [q : Queries(route), ans : PartAnswers(route), late : BOOLEAN]
  <2> HIDE DEF f
  <2> QED
    BY <1>3, <1>4
<1>7. lists' = (lists \ {l}) \cup {new}
  BY <1>1
<1> HIDE DEF new, f
<1>8. ListType'
  BY <1>2, <1>6, <1>7 DEF ListType
<1>9. DbType' /\ ViewType' /\ TimerType' /\ RequestType' /\ OneQuery' /\ RestType'
  BY <1>2, StillDb, StillView, StillTimers, StillRequests, StillOne DEF RestType
<1>10. NewestIsCurrent'
  <2>1. Current' = Current /\ Query' = Query /\ Unheard' = Unheard
    BY <1>2 DEF Current, Answer, Present, Row, Query, Unheard
  <2> QED
    BY <1>2, <1>5, <1>6, <1>7, <2>1 DEF NewestIsCurrent
<1> QED
  BY <1>8, <1>9, <1>10

\* What is asked for, shown or lost has no part in what there is to show.
LEMMA KeepsCurrent ==
  UNCHANGED <<db, route, requests>> /\ view'.filter = view.filter /\ view'.page = view.page =>
    UNCHANGED <<Query, Current, Unheard>>
BY DEF Current, Answer, Present, Row, Query, Unheard

LEMMA LandInv == ASSUME PInv, NEW l \in lists, LandList(l) PROVE PInv'
<1> USE DEF PInv, PTypes
<1>1. /\ DOMAIN l.ans = Parts(route) /\ lists' = lists \ {l}
      /\ view' = [view EXCEPT !.shown = l.ans, !.newest = ~l.late /\ route \notin Polled]
      /\ UNCHANGED <<db, route, dialogs, timers, requests, doubt, used>>
  BY DEF LandList
<1>2. l \in [q : Queries(route), ans : PartAnswers(route), late : BOOLEAN] /\ route \in Routes
  BY DEF ListType, ViewType
<1>3. l.ans \in [Parts(route) -> Answers]
  BY <1>1, <1>2 DEF PartAnswers
<1>4. l.ans # Nothing
  BY <1>1, <1>2, NothingType, PartsKnown
<1>5. /\ ViewType' /\ view'.filter = view.filter /\ view'.page = view.page
      /\ view'.shown = l.ans /\ view'.newest = (~l.late /\ route \notin Polled)
  BY <1>1, <1>2, <1>3 DEF ViewType
<1>6. DbType' /\ TimerType' /\ RequestType' /\ RestType'
  BY <1>1, StillDb, StillTimers, StillRequests DEF RestType
<1>7. ListType' /\ OneQuery'
  BY <1>1, <1>5 DEF ListType, OneQuery
<1>8. NewestIsCurrent'
  BY <1>1, <1>4, <1>5, KeepsCurrent DEF NewestIsCurrent
<1> QED
  BY <1>5, <1>6, <1>7, <1>8

LEMMA LoseListInv == ASSUME PInv, NEW l \in lists, LoseList(l) PROVE PInv'
<1> USE DEF PInv, PTypes
<1>1. lists' = lists \ {l} /\ UNCHANGED <<db, route, view, timers, requests, doubt>>
  BY DEF LoseList, tab
<1>2. DbType' /\ ViewType' /\ TimerType' /\ RequestType' /\ OneQuery'
  BY <1>1, StillDb, StillView, StillTimers, StillRequests, StillOne
<1>3. ListType' /\ RestType'
  BY <1>1, SpendRest DEF LoseList, ListType, RestType
<1>4. NewestIsCurrent'
  BY <1>1, KeepsCurrent DEF NewestIsCurrent
<1> QED
  BY <1>2, <1>3, <1>4

-----------------------------------------------------------------------------
(* Tabs, search and pagination.                                            *)

\* A new query of a page that has several.
LEMMA EffectInv ==
  ASSUME PInv, NEW filter \in Filters[route], NEW page \in Nat \ {0},
         Effect(filter, page), route \in Paged, UNCHANGED <<db, route, requests, doubt>>,
         RestType'
  PROVE  PInv'
<1> USE DEF PInv, PTypes
<1> DEFINE q == [filter |-> filter, page |-> page]
<1>1. /\ lists' = {[l EXCEPT !.late = route \notin Polled] : l \in lists} \cup {NewList(q)}
      /\ view' = [view EXCEPT !.filter = filter, !.page = page, !.newest = FALSE]
      /\ timers' = IF route \in Polled THEN {q} ELSE {}
  BY DEF Effect
<1>2. q \in Queries(route)
  BY DEF Queries
<1>3. view'.filter = filter /\ view'.page = page /\ ~view'.newest /\ ViewType'
  BY <1>1 DEF ViewType
<1>4. Query' = q
  BY <1>3 DEF Query
<1> HIDE DEF q
<1>5. DbType' /\ RequestType'
  BY StillDb, StillRequests
<1>6. TimerType'
  BY <1>1, <1>2 DEF TimerType
<1>7. ListType'
  BY <1>1, <1>2, Overtaken
<1>8. OneQuery'
  BY DEF OneQuery, Paged
<1>9. NewestIsCurrent'
  BY <1>1, <1>2, <1>3, <1>4, AskedAnew
<1> QED
  BY <1>3, <1>5, <1>6, <1>7, <1>8, <1>9

LEMMA ActSpends == RestType /\ Act /\ UNCHANGED doubt => RestType'
BY SpendRest DEF Act, RestType

LEMMA SetFilterInv == ASSUME PInv, NEW filter, SetFilter(filter) PROVE PInv'
<1>1. /\ filter \in Filters[route] /\ Effect(filter, 1) /\ route \in Paged
      /\ UNCHANGED <<db, route, requests, doubt>> /\ RestType'
  BY ActSpends DEF SetFilter, PInv, PTypes
<1> QED
  BY <1>1, EffectInv

LEMMA TurnInv == ASSUME PInv, NEW page, Turn(page) PROVE PInv'
<1>1. /\ Effect(view.filter, page) /\ route \in Paged
      /\ UNCHANGED <<db, route, requests, doubt>> /\ RestType'
  BY ActSpends DEF Turn, PInv, PTypes
<1>2. view.filter \in Filters[route] /\ view.page \in Nat \ {0}
  BY DEF PInv, PTypes, ViewType
<1>3. page \in Nat \ {0}
  BY <1>2 DEF Turn
<1> QED
  BY <1>1, <1>2, <1>3, EffectInv

-----------------------------------------------------------------------------
(* Changes, and the full text of a key.                                    *)

\* A request may leave or change, or the history, if no own change is
\* forgotten.
LEMMA RequestsInv ==
  ASSUME PInv, UNCHANGED <<db, route, view, timers, lists>>,
         RequestType', RestType', OneQuery',
         route \notin Polled /\ ~doubt' /\ ~Unheard' => ~doubt /\ ~Unheard
  PROVE  PInv'
<1> USE DEF PInv, PTypes
<1>1. DbType' /\ ViewType' /\ TimerType' /\ ListType'
  BY StillDb, StillView, StillTimers, StillLists
<1>2. Current' = Current /\ Query' = Query
  BY DEF Current, Answer, Present, Row, Query
<1>3. NewestIsCurrent'
  BY <1>2 DEF NewestIsCurrent
<1> QED
  BY <1>1, <1>3

LEMMA SendInv ==
  ASSUME PInv, NEW kind \in Kinds, NEW id \in Ids, Send(kind, id),
         route = IF kind = "cancel" THEN "tasks" ELSE "keys",
         UNCHANGED <<db, route, view, timers, lists, doubt>>, RestType'
  PROVE  PInv'
<1> USE DEF PInv, PTypes
<1> DEFINE m == [kind |-> kind, id |-> id, q |-> Query, live |-> TRUE,
                 ans |-> "none", n |-> used.acts]
<1>1. requests' = requests \cup {m}
  BY DEF Send
<1>2. Query \in Queries(route) /\ Queries(route) \subseteq AnyQuery
  BY FiltersKnown DEF ViewType, Queries, Query
<1>3. used.acts \in Nat
  BY DEF RestType
<1>4. m \in [kind : Kinds, id : Ids, q : AnyQuery, live : BOOLEAN,
             ans : {"none", "ok", "error"}, n : Nat]
  BY <1>2, <1>3
<1>5. m.q = Query /\ m.kind = kind /\ m.ans = "none"
  OBVIOUS
<1>6. route = "keys" => Query = FirstQuery
  BY DEF OneQuery, Query, FirstQuery
<1> HIDE DEF m
<1>7. RequestType'
  BY <1>1, <1>2, <1>4, <1>5 DEF RequestType
<1>8. OneQuery'
  BY <1>1, <1>5, <1>6 DEF OneQuery
<1>9. Unheard' <=> Unheard
  BY <1>1, <1>5 DEF Unheard
<1> QED
  BY <1>7, <1>8, <1>9, RequestsInv

LEMMA PressesInv ==
  ASSUME PInv, FormShown, NEW id \in Ids,
         Cancel(id) \/ Create(id) \/ \E kind \in {"delete", "reveal"} : Press(kind, id)
  PROVE  PInv'
<1>1. UNCHANGED <<db, route, view, timers, lists, doubt>>
  BY DEF Cancel, Create, Press, tab
<1>2. RestType'
  BY <1>1, SpendRest DEF Cancel, Create, Press, Act, PInv, PTypes, RestType
<1>3. CASE Cancel(id)
  BY <1>1, <1>2, <1>3, SendInv DEF Cancel, Kinds
<1>4. CASE \E kind \in {"delete", "reveal"} : Press(kind, id)
  BY <1>1, <1>2, <1>4, SendInv DEF Press, Kinds
<1>5. CASE Create(id)
  BY <1>1, <1>2, <1>5, SendInv DEF Create, Kinds, FormShown
<1> QED
  BY <1>3, <1>4, <1>5

\* One row of one table is written.
LEMMA WriteRow ==
  ASSUME DbType, NEW t \in Tables, NEW i \in Ids, NEW label \in Labels[t] \cup {"absent"},
         db' = [db EXCEPT ![t][i] = label]
  PROVE  DbType' /\ \A u \in Tables \ {t} : db'[u] = db[u]
<1>1. /\ db = [u \in Tables |-> db[u]]
      /\ \A u \in Tables : db[u] \in [Ids -> Labels[u] \cup {"absent"}]
  BY DEF DbType
<1>2. db'[t] = [db[t] EXCEPT ![i] = label] /\ \A u \in Tables \ {t} : db'[u] = db[u]
  BY <1>1
<1>3. db' = [u \in Tables |-> db'[u]]
  BY <1>1
<1>4. db'[t] \in [Ids -> Labels[t] \cup {"absent"}]
  BY <1>1, <1>2
<1> QED
  BY <1>1, <1>2, <1>3, <1>4 DEF DbType

\* The part of the answer where the table shown is left alone.
LEMMA OtherTable ==
  ASSUME PInv, UNCHANGED <<route, view, lists>>,
         route \notin Polled /\ ~doubt' /\ ~Unheard' =>
           ~doubt /\ ~Unheard /\ db'[route] = db[route]
  PROVE  NewestIsCurrent'
<1>1. CASE route \in Polled
  BY <1>1 DEF NewestIsCurrent
<1>2. CASE route \notin Polled
  <2>1. route \in Routes \ Polled
    BY <1>2 DEF PInv, PTypes, ViewType
  <2>2. Query' = Query
    BY DEF Query
  <2>3. db'[route] = db[route] => Current' = Current
    <3> SUFFICES ASSUME db'[route] = db[route] PROVE Current' = Current
      OBVIOUS
    <3>1. PICK r \in Routes \ Polled : r = route /\ r = route'
      BY <2>1
    <3>2. PICK q : q = Query /\ q = Query'
      BY <2>2
    <3>3. Answer(r, q)' = Answer(r, q)
      BY <3>1, AnswerSame
    <3>4. Current = [p \in Parts(r) |-> Answer(r, q)]
      BY <3>1, <3>2 DEF Current
    <3>5. Current' = [p \in Parts(r) |-> Answer(r, q)']
      BY <3>1, <3>2 DEF Current
    <3> QED
      BY <3>3, <3>4, <3>5
  <2> QED
    BY <2>2, <2>3 DEF PInv, NewestIsCurrent
<1> QED
  BY <1>1, <1>2

\* An own change of the table shown is one to be heard of, or there is doubt.
LEMMA HandleInv == ASSUME PInv, NEW m \in requests, Handle(m) PROVE PInv'
<1> USE DEF PInv, PTypes
<1>1. /\ m \in [kind : Kinds, id : Ids, q : AnyQuery, live : BOOLEAN,
                 ans : {"none", "ok", "error"}, n : Nat]
      /\ m.live => m.q \in Queries(route)
      /\ m.live => route = IF m.kind = "cancel" THEN "tasks" ELSE "keys"
  BY DEF RequestType
<1>2. /\ UNCHANGED <<route, view, timers, lists, used>> /\ m.ans = "none"
      /\ doubt' = (doubt \/ (~m.live /\ route \notin Polled /\ db'[route] # db[route]))
  BY DEF Handle, tab
<1>3. PICK a \in {"ok", "error"} :
        /\ requests' = (requests \ {m}) \cup {[m EXCEPT !.ans = a]}
        /\ \/ UNCHANGED db
           \/ m.kind = "cancel" /\ db' = [db EXCEPT !.tasks[m.id] = "CANCELLED"]
           \/ /\ m.kind \in {"create", "delete"} /\ a = "ok"
              /\ \E label \in {"key", "absent"} : db' = [db EXCEPT !.keys[m.id] = label]
  BY DEF Handle
<1> DEFINE new == [m EXCEPT !.ans = a]
<1>4. /\ new \in [kind : Kinds, id : Ids, q : AnyQuery, live : BOOLEAN,
                   ans : {"none", "ok", "error"}, n : Nat]
      /\ new.live = m.live /\ new.q = m.q /\ new.kind = m.kind /\ new.ans = a
  BY <1>1
<1>5. requests' = (requests \ {m}) \cup {new}
  BY <1>3
<1> HIDE DEF new
<1>6. RequestType'
  BY <1>1, <1>2, <1>4, <1>5 DEF RequestType
<1>7. OneQuery'
  BY <1>2, <1>4, <1>5 DEF OneQuery
<1>8. ViewType' /\ TimerType' /\ ListType'
  BY <1>2, StillView, StillTimers, StillLists
<1>9. RestType'
  BY <1>2 DEF RestType
<1>10. /\ "tasks" \in Tables /\ "CANCELLED" \in Labels["tasks"]
       /\ "keys" \in Tables /\ "key" \in Labels["keys"]
  BY DEF Tables, Routes, Labels, Statuses
<1>11. Unheard => Unheard'
  BY <1>2, <1>5 DEF Unheard
<1>12. CASE UNCHANGED db
  <2>1. NewestIsCurrent'
    BY <1>2, <1>11, <1>12, OtherTable
  <2> QED
    BY <1>6, <1>7, <1>8, <1>9, <1>12, <2>1, StillDb
<1>13. CASE m.kind = "cancel" /\ db' = [db EXCEPT !.tasks[m.id] = "CANCELLED"]
  <2>1. DbType' /\ \A u \in Tables \ {"tasks"} : db'[u] = db[u]
    BY <1>1, <1>10, <1>13, WriteRow
  <2>2. route \notin Polled => route \in Tables \ {"tasks"}
    BY DEF Polled, Tables, ViewType
  <2>3. NewestIsCurrent'
    BY <1>2, <1>11, <2>1, <2>2, OtherTable
  <2> QED
    BY <1>6, <1>7, <1>8, <1>9, <2>1, <2>3
<1>14. CASE /\ m.kind \in {"create", "delete"} /\ a = "ok"
            /\ \E label \in {"key", "absent"} : db' = [db EXCEPT !.keys[m.id] = label]
  <2>1. DbType' /\ \A u \in Tables \ {"keys"} : db'[u] = db[u]
    BY <1>1, <1>10, <1>14, WriteRow
  <2>2. m.live => Unheard'
    BY <1>4, <1>5, <1>14 DEF Unheard
  <2>3. NewestIsCurrent'
    BY <1>2, <1>11, <2>2, OtherTable
  <2> QED
    BY <1>6, <1>7, <1>8, <1>9, <2>1, <2>3
<1> QED
  BY <1>3, <1>12, <1>13, <1>14

\* Heard of, an own change makes the page ask anew.
LEMMA DoneInv == ASSUME PInv, NEW m \in requests, Done(m) PROVE PInv'
<1>1. /\ requests' = requests \ {m}
      /\ UNCHANGED <<db, route, timers, doubt, used>>
  BY DEF Done
<1>2. RestType'
  BY <1>1 DEF PInv, PTypes, RestType
<1>3. /\ m.live => m.q \in Queries(route)
      /\ m.live => route = IF m.kind = "cancel" THEN "tasks" ELSE "keys"
      /\ route = "keys" /\ m.live => m.q = Query
  BY DEF PInv, PTypes, RequestType, OneQuery, Query, FirstQuery
<1>4. CASE m.live /\ m.ans = "ok" /\ m.kind # "reveal"
  <2>1. Fetch(m.q)
    BY <1>4 DEF Done
  <2>2. route \notin Polled => m.q = Query
    BY <1>3, <1>4 DEF Polled
  <2> QED
    BY <1>1, <1>2, <1>3, <1>4, <2>1, <2>2, FetchInv
<1>5. CASE ~(m.live /\ m.ans = "ok" /\ m.kind # "reveal")
  <2>1. UNCHANGED <<lists, view>>
    BY <1>5 DEF Done
  <2>2. Unheard => Unheard'
    BY <1>1, <1>5 DEF Unheard
  <2>3. RequestType' /\ OneQuery'
    BY <1>1, <2>1 DEF PInv, PTypes, RequestType, OneQuery
  <2> QED
    BY <1>1, <1>2, <2>1, <2>2, <2>3, RequestsInv
<1> QED
  BY <1>4, <1>5

LEMMA LoseRequestInv == ASSUME PInv, NEW m \in requests, LoseRequest(m) PROVE PInv'
<1>1. /\ requests' = requests \ {m}
      /\ doubt' = (doubt \/ (m.live /\ route \notin Polled))
      /\ UNCHANGED <<db, route, view, timers, lists>>
  BY DEF LoseRequest, tab
<1>2. RestType'
  <2>1. doubt' \in BOOLEAN
    BY <1>1 DEF PInv, PTypes, RestType
  <2> QED
    BY <2>1, SpendRest DEF LoseRequest, PInv, PTypes
<1>3. RequestType' /\ OneQuery'
  BY <1>1 DEF PInv, PTypes, RequestType, OneQuery
<1>4. ~m.live => (Unheard => Unheard')
  BY <1>1 DEF Unheard
<1> QED
  BY <1>1, <1>2, <1>3, <1>4, RequestsInv

\* Dialogs are no part of the list.
LEMMA DialogInv ==
  ASSUME PInv, OpenForm \/ (\E row \in Shown : OpenTask(row))
               \/ \E d \in dialogs : CloseDialog(d)
  PROVE  PInv'
<1>1. UNCHANGED <<db, route, view, timers, lists, requests, doubt>>
  BY DEF OpenForm, OpenTask, CloseDialog
<1>2. RestType'
  BY <1>1, SpendRest DEF OpenForm, OpenTask, CloseDialog, Act, PInv, PTypes, RestType
<1>3. RequestType' /\ OneQuery' /\ (Unheard' <=> Unheard)
  BY <1>1, StillRequests, StillOne DEF PInv, PTypes, Unheard
<1> QED
  BY <1>1, <1>2, <1>3, RequestsInv

\* Others change the table shown, and there is doubt, or another one.
LEMMA ChangeInv ==
  ASSUME PInv, NEW t \in Tables, NEW i \in Ids, Change(t, i)
  PROVE  PInv'
<1> USE DEF PInv, PTypes
<1>1. PICK label \in Labels[t] \cup {"absent"} : db' = [db EXCEPT ![t][i] = label]
  BY DEF Change
<1>2. /\ doubt' = (doubt \/ (t = route /\ route \notin Polled))
      /\ UNCHANGED <<route, view, timers, lists, requests>>
  BY DEF Change, tab
<1>3. DbType' /\ \A u \in Tables \ {t} : db'[u] = db[u]
  BY <1>1, WriteRow
<1>4. RestType'
  <2>1. doubt' \in BOOLEAN
    BY <1>2 DEF RestType
  <2> QED
    BY <2>1, SpendRest DEF Change
<1>5. ViewType' /\ TimerType' /\ ListType' /\ RequestType' /\ OneQuery'
  BY <1>2, StillView, StillTimers, StillLists, StillRequests, StillOne
<1>6. Unheard' <=> Unheard
  BY <1>2 DEF Unheard
<1>7. route \notin Polled => route \in Tables
  BY DEF ViewType, Polled, Tables
<1>8. NewestIsCurrent'
  BY <1>2, <1>3, <1>6, <1>7, OtherTable
<1> QED
  BY <1>3, <1>4, <1>5, <1>8

-----------------------------------------------------------------------------

LEMMA StepForm == ViewType /\ FormShown /\ [Next]_vars => FormShown'
<1> SUFFICES ASSUME FormShown, [Next]_vars, <<"form">> \in dialogs' PROVE route' = "keys"
  BY DEF FormShown
<1>1. CASE <<"form">> \in dialogs /\ UNCHANGED route
  BY <1>1 DEF FormShown
<1>2. ASSUME NEW r \in Routes, Goto(r) PROVE FALSE
  BY <1>2 DEF Goto
<1>3. ASSUME NEW m \in requests, Done(m) PROVE <<"form">> \in dialogs /\ UNCHANGED route
  BY <1>3 DEF Done, OneOf
<1>4. ASSUME NEW row, OpenTask(row) PROVE FALSE
  BY <1>4 DEF OpenTask
<1>5. CASE OpenForm
  BY <1>5 DEF OpenForm
<1>6. ASSUME NEW d \in dialogs, CloseDialog(d)
      PROVE  <<"form">> \in dialogs /\ UNCHANGED route
  BY <1>6 DEF CloseDialog
<1>7. CASE UNCHANGED <<route, dialogs>>
  BY <1>1, <1>7
<1>8. \/ \E r \in Routes : Goto(r)
      \/ \E m \in requests : Done(m)
      \/ \E row \in Shown : OpenTask(row)
      \/ OpenForm
      \/ \E d \in dialogs : CloseDialog(d)
      \/ UNCHANGED <<route, dialogs>>
  BY DEF Next, vars, tab, Poll, ReadList, LandList, LoseList, SetFilter, Turn, Cancel, Create,
         Press, Change, Handle, LoseRequest
<1> QED
  BY <1>1, <1>2, <1>3, <1>4, <1>5, <1>6, <1>7, <1>8

LEMMA StepInv == PInv /\ FormShown /\ [Next]_vars => PInv'
<1> SUFFICES ASSUME PInv, FormShown, [Next]_vars PROVE PInv'
  OBVIOUS
<1>1. CASE UNCHANGED vars
  <2>1. UNCHANGED <<db, route, view, timers, lists, requests, doubt, used>>
    BY <1>1 DEF vars, tab
  <2>2. RequestType' /\ OneQuery' /\ RestType' /\ (Unheard' <=> Unheard)
    BY <2>1, StillRequests, StillOne DEF PInv, PTypes, Unheard, RestType
  <2> QED
    BY <2>1, <2>2, RequestsInv
<1>2. CASE \/ \E r \in Routes : Goto(r)
           \/ \E q \in timers : Poll(q)
           \/ \E l \in lists : ReadList(l) \/ LandList(l) \/ LoseList(l)
  BY <1>2, GotoInv, PollInv, ReadInv, LandInv, LoseListInv
<1>3. CASE \/ \E f \in Tabs \cup Labels.uploads : SetFilter(f)
           \/ \E page \in {view.page - 1, view.page + 1} : Turn(page)
  BY <1>3, SetFilterInv, TurnInv
<1>4. CASE \E i \in Ids :
             \/ Cancel(i) \/ Create(i) \/ \E kind \in {"delete", "reveal"} : Press(kind, i)
             \/ \E t \in Tables : Change(t, i)
  BY <1>4, PressesInv, ChangeInv
<1>5. CASE \E m \in requests : Handle(m) \/ Done(m) \/ LoseRequest(m)
  BY <1>5, HandleInv, DoneInv, LoseRequestInv
<1>6. CASE \/ OpenForm \/ (\E row \in Shown : OpenTask(row))
           \/ \E d \in dialogs : CloseDialog(d)
  BY <1>6, DialogInv
<1> QED
  BY <1>1, <1>2, <1>3, <1>4, <1>5, <1>6 DEF Next

LEMMA PagesInvariance == Spec => [](PInv /\ FormShown)
<1>1. Init => FormShown
  BY DEF Init, FormShown
<1>2. PInv => ViewType
  BY DEF PInv, PTypes
<1> QED
  BY <1>1, <1>2, InitInv, StepInv, StepForm, PTL DEF Spec

(***************************************************************************)
(* The page mounted, its intervals and the requests it hears of keep to    *)
(* the queries of that page, and what it shows is an answer a list handler *)
(* can give.                                                               *)
(***************************************************************************)
THEOREM PagesTypeCorrect == Spec => []TypeOK
<1>1. PInv => TypeOK
  <2> SUFFICES ASSUME PInv PROVE TypeOK
    OBVIOUS
  <2> USE DEF PInv, PTypes
  <2>1. \A t \in Tables : db[t] \in [Ids -> Labels[t] \cup {"absent"}]
    BY DEF DbType
  <2>2. /\ route \in Routes
        /\ view.filter \in Filters[route] /\ view.page \in Nat \ {0}
        /\ DOMAIN view.shown \in {{}, Parts(route)} /\ view.newest \in BOOLEAN
        /\ \A p \in DOMAIN view.shown : view.shown[p] \in Answers
    BY NothingType DEF ViewType
  <2>3. \A q \in timers : q.filter \in Filters[route]
    BY DEF TimerType, Queries
  <2>4. \A l \in lists : /\ l.q.filter \in Filters[route] /\ l.late \in BOOLEAN
                         /\ DOMAIN l.ans \subseteq Parts(route)
    BY DEF ListType, Queries, PartAnswers
  <2>5. \A m \in requests : /\ m.kind \in {"cancel", "create", "delete", "reveal"}
                            /\ m.id \in Ids /\ m.ans \in {"none", "ok", "error"}
    BY DEF RequestType, Kinds
  <2> QED
    BY <2>1, <2>2, <2>3, <2>4, <2>5 DEF TypeOK, RestType, Answers, Rows
<1> QED
  BY <1>1, PagesInvariance, PTL

(***************************************************************************)
(* With nothing under way and nothing in doubt, a page that does not poll  *)
(* shows what its table holds, although answers land in any order.         *)
(***************************************************************************)
THEOREM UnpolledSettles == Spec => []UnpolledPageSettles
<1>1. PInv => UnpolledPageSettles
  <2>1. requests = {} => ~Unheard
    BY DEF Unheard
  <2> QED
    BY <2>1 DEF PInv, NewestIsCurrent, UnpolledPageSettles
<1> QED
  BY <1>1, PagesInvariance, PTL

=============================================================================
