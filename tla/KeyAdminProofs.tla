--------------------------- MODULE KeyAdminProofs ---------------------------
(***************************************************************************)
(* Proofs about KeyAdmin, for every finite set of keys, all confs and all  *)
(* bounds.  The invariant KInv says, key by key, what the requests inside  *)
(* a handler know of the row and the worker when they are alone, and who   *)
(* pays for a worker that falls out of the map when they are not.          *)
(***************************************************************************)
EXTENDS KeyAdmin, FiniteSetTheorems, TLAPS

\* What the requests carry: a creation its conf until the insert, every other
\* kind the id of a key; a handler past its read has a row that was stored.
CallFits(c) ==
  /\ c.pc = "sent" => c.alone
  /\ c.kind = "create" /\ c.pc = "sent" => c.conf \in Confs
  /\ c.kind # "create" => c.key \in Keys
  /\ c.pc \in HandlerPcs => c.key \in minted /\ c.key_row \in [conf : Confs, active : BOOLEAN]

\* What a request for k that is alone knows of the row and the worker.
Knows(c, k) ==
  /\ c.pc # "delete" => c.key_row = row[k]
  /\ c.pc = "add" => c.key_row.active
  /\ c.pc \in {"add", "delete"} => worker[k] = None

AloneKnows(k) ==
  \A c \in InHandler(k) : c.alone => InHandler(k) = {c} /\ Knows(c, k)

OthersRaced(k) == \A c \in InHandler(k) : ~c.alone => k \in raced

\* PoolMatchesRows, carried over the steps that change nothing yet.
Follows(k) ==
  (k \notin raced /\ \A c \in InHandler(k) : c.pc \in {"save", "count"}) =>
     worker[k] = IF row[k].active THEN row[k].conf ELSE None

Unminted(k) == k \notin minted => worker[k] = None

\* A worker in the map that a request is about to overwrite.
Debt(k) == IF worker[k] # None /\ \E c \in InHandler(k) : c.pc = "add" THEN 1 ELSE 0

\* Each request but the first has paid, with its overlap, for the worker it
\* may overwrite.
Paid(k) ==
  /\ stray[k] <= overlaps[k]
  /\ InHandler(k) # {} => stray[k] + Cardinality(InHandler(k)) + Debt(k) <= overlaps[k] + 1

KeyInv(k) == AloneKnows(k) /\ OthersRaced(k) /\ Follows(k) /\ Unminted(k) /\ Paid(k)

Typed == TypeOK /\ IsFiniteSet(calls) /\ \A c \in calls : CallFits(c)

KInv == Typed /\ DialogFormMatches /\ \A k \in Keys : KeyInv(k)

-----------------------------------------------------------------------------
(* What a step of one request does to the sets of requests.                *)

LEMMA InHandlerFinite ==
  ASSUME Typed, NEW k
  PROVE  IsFiniteSet(InHandler(k)) /\ Cardinality(InHandler(k)) \in Nat
<1>1. InHandler(k) \in SUBSET calls
  BY DEF InHandler
<1> QED
  BY <1>1, FS_Subset, FS_CardinalityType DEF Typed

\* The requests after c has become d.
LEMMA StepCalls ==
  ASSUME Typed, NEW c \in calls, NEW d \in Requests, Step(c, d),
         minted \subseteq minted', CallFits(d)'
  PROVE  /\ calls' \subseteq Requests /\ IsFiniteSet(calls')
         /\ \A e \in calls' : CallFits(e)'
<1>1. calls' = (calls \ {c}) \cup {d}
  BY DEF Step
<1>2. IsFiniteSet(calls')
  BY <1>1, FS_RemoveElement, FS_AddElement DEF Typed
<1>3. \A e \in calls : CallFits(e)'
  BY DEF Typed, CallFits
<1> QED
  BY <1>1, <1>2, <1>3 DEF Typed, TypeOK

\* A request that stays in its handler, one that leaves it, one that is none
\* of k's.
LEMMA StepHandlers ==
  ASSUME NEW c \in calls, NEW d, Step(c, d), NEW k
  PROVE  /\ d.key = k /\ d.pc \in HandlerPcs => InHandler(k)' = (InHandler(k) \ {c}) \cup {d}
         /\ d.pc \notin HandlerPcs => InHandler(k)' = InHandler(k) \ {c}
         /\ c \notin InHandler(k) /\ d.key # k => InHandler(k)' = InHandler(k)
<1>1. calls' = (calls \ {c}) \cup {d}
  BY DEF Step
<1> QED
  BY <1>1 DEF InHandler

\* A key none of whose parts change keeps its invariant.
LEMMA Frame ==
  ASSUME NEW k \in Keys, KeyInv(k), InHandler(k)' = InHandler(k),
         row'[k] = row[k], worker'[k] = worker[k], stray'[k] = stray[k],
         overlaps'[k] = overlaps[k],
         k \in raced' <=> k \in raced, k \in minted <=> k \in minted'
  PROVE  KeyInv(k)'
<1>1. Debt(k)' = Debt(k)
  BY DEF Debt
<1>2. Paid(k)'
  BY <1>1 DEF KeyInv, Paid
<1>3. AloneKnows(k)' /\ OthersRaced(k)' /\ Follows(k)' /\ Unminted(k)'
  BY DEF KeyInv, AloneKnows, Knows, OthersRaced, Follows, Unminted
<1> QED
  BY <1>2, <1>3 DEF KeyInv

-----------------------------------------------------------------------------
(* A request inside its handler takes a step.                              *)

LEMMA MovesOn ==
  ASSUME NEW k \in Keys, KeyInv(k), NEW c \in InHandler(k), NEW d,
         InHandler(k)' = (InHandler(k) \ {c}) \cup {d},
         d.alone = c.alone, c.alone => Knows(d, k)',
         k \in raced => k \in raced'
  PROVE  AloneKnows(k)' /\ OthersRaced(k)'
<1>1. CASE c.alone
  <2>1. InHandler(k)' = {d}
    BY <1>1 DEF KeyInv, AloneKnows
  <2> QED
    BY <1>1, <2>1 DEF AloneKnows, OthersRaced
<1>2. CASE ~c.alone
  <2>1. \A e \in InHandler(k) : ~e.alone
    BY <1>2 DEF KeyInv, AloneKnows
  <2>2. k \in raced'
    BY <1>2 DEF KeyInv, OthersRaced
  <2> QED
    BY <1>2, <2>1, <2>2 DEF AloneKnows, OthersRaced
<1> QED
  BY <1>1, <1>2

LEMMA Leaves ==
  ASSUME NEW k \in Keys, KeyInv(k), NEW c \in InHandler(k),
         InHandler(k)' = InHandler(k) \ {c},
         ~c.alone /\ k \in raced => k \in raced'
  PROVE  AloneKnows(k)' /\ OthersRaced(k)'
<1>1. CASE c.alone
  <2>1. InHandler(k)' = {}
    BY <1>1 DEF KeyInv, AloneKnows
  <2> QED
    BY <2>1 DEF AloneKnows, OthersRaced
<1>2. CASE ~c.alone
  <2>1. \A e \in InHandler(k) : ~e.alone
    BY <1>2 DEF KeyInv, AloneKnows
  <2>2. k \in raced'
    BY <1>2 DEF KeyInv, OthersRaced
  <2> QED
    BY <2>1, <2>2 DEF AloneKnows, OthersRaced
<1> QED
  BY <1>1, <1>2

\* A step that overwrites no worker costs nothing.
LEMMA StaysPaid ==
  ASSUME Typed, NEW k \in Keys, KeyInv(k), NEW c \in InHandler(k),
         \/ InHandler(k)' = InHandler(k) \ {c}
         \/ \E d : InHandler(k)' = (InHandler(k) \ {c}) \cup {d},
         stray'[k] = stray[k], overlaps'[k] = overlaps[k],
         Debt(k)' <= Debt(k)
  PROVE  Paid(k)'
<1>1. IsFiniteSet(InHandler(k)) /\ Cardinality(InHandler(k)) \in Nat
  BY InHandlerFinite
<1>2. Cardinality(InHandler(k)') \in Nat /\ Cardinality(InHandler(k)') <= Cardinality(InHandler(k))
  <2> DEFINE Rest == InHandler(k) \ {c}
  <2>1. IsFiniteSet(Rest) /\ Cardinality(Rest) = Cardinality(InHandler(k)) - 1
    BY <1>1, FS_RemoveElement
  <2>2. Cardinality(Rest) \in Nat
    BY <2>1, FS_CardinalityType
  <2> HIDE DEF Rest
  <2>3. ASSUME NEW d
        PROVE  /\ Cardinality(Rest \cup {d}) \in Nat
               /\ Cardinality(Rest \cup {d}) <= Cardinality(InHandler(k))
    <3>1. Cardinality(Rest \cup {d}) =
            IF d \in Rest THEN Cardinality(Rest) ELSE Cardinality(Rest) + 1
      BY <2>1, FS_AddElement
    <3> QED
      BY <1>1, <2>1, <2>2, <3>1
  <2>4. Cardinality(Rest) <= Cardinality(InHandler(k))
    BY <1>1, <2>1, <2>2
  <2>5. InHandler(k)' = Rest \/ \E d : InHandler(k)' = Rest \cup {d}
    BY DEF Rest
  <2> QED
    BY <2>2, <2>3, <2>4, <2>5, Zenon
<1>3. stray[k] \in Nat /\ overlaps[k] \in Nat
  BY DEF Typed, TypeOK
<1>4. Debt(k) \in 0..1 /\ Debt(k)' \in 0..1
  BY DEF Debt
<1>5. /\ stray[k] <= overlaps[k]
      /\ stray[k] + Cardinality(InHandler(k)) + Debt(k) <= overlaps[k] + 1
  BY DEF KeyInv, Paid
<1> QED
  BY <1>1, <1>2, <1>3, <1>4, <1>5 DEF Paid

-----------------------------------------------------------------------------
(* Answers and moves of a request, with all they do to the requests.       *)

\* What Typed says of the requests.
RequestsFit == calls \subseteq Requests /\ IsFiniteSet(calls) /\ \A c \in calls : CallFits(c)

LEMMA AnswerCalls ==
  ASSUME Typed, NEW c \in calls, NEW pc \in {"ok", "error"}, Answer(c, pc),
         minted \subseteq minted'
  PROVE  RequestsFit' /\ \A k : InHandler(k)' = InHandler(k) \ {c}
<1>1. c \in Requests /\ CallFits(c)
  BY DEF Typed, TypeOK
<1>2. PICK d : d = [c EXCEPT !.pc = pc, !.conf = None, !.active = None, !.key_row = NoRow,
                             !.alone = TRUE]
  OBVIOUS
<1>3. d \in Requests /\ d.pc = pc /\ d.key = c.key /\ d.kind = c.kind
  BY <1>1, <1>2 DEF Requests, Pcs, Rows
<1>4. CallFits(d)'
  BY <1>1, <1>3 DEF CallFits, HandlerPcs
<1>5. Step(c, d)
  BY <1>2 DEF Answer
<1>6. RequestsFit'
  BY <1>3, <1>4, <1>5, StepCalls DEF RequestsFit
<1>7. d.pc \notin HandlerPcs
  BY <1>3 DEF HandlerPcs
<1> QED
  BY <1>5, <1>6, <1>7, StepHandlers

LEMMA MoveCalls ==
  ASSUME Typed, NEW c \in calls, c.pc \in HandlerPcs, NEW d \in Requests, Step(c, d),
         d.key = c.key, d.kind = c.kind, d.pc \in HandlerPcs,
         d.key_row \in [conf : Confs, active : BOOLEAN],
         minted \subseteq minted'
  PROVE  /\ RequestsFit'
         /\ c.key \in Keys /\ c.key \in minted /\ c \in InHandler(c.key)
         /\ InHandler(c.key)' = (InHandler(c.key) \ {c}) \cup {d}
         /\ \A k : k # c.key => InHandler(k)' = InHandler(k)
<1>1. c \in Requests /\ CallFits(c) /\ minted \subseteq Keys
  BY DEF Typed, TypeOK
<1>2. c.key \in minted /\ c.key \in Keys
  BY <1>1 DEF CallFits
<1>3. CallFits(d)'
  BY <1>1, <1>2 DEF CallFits, HandlerPcs
<1>4. RequestsFit'
  BY <1>3, StepCalls DEF RequestsFit
<1>5. c \in InHandler(c.key) /\ \A k : k # c.key => c \notin InHandler(k)
  BY DEF InHandler
<1> QED
  BY <1>2, <1>4, <1>5, StepHandlers

\* The key of a request in its handler.
LEMMA HandledKey ==
  ASSUME Typed, NEW c \in calls, c.pc \in HandlerPcs
  PROVE  /\ c \in Requests /\ c.key \in Keys /\ c.key \in minted /\ c \in InHandler(c.key)
         /\ c.key_row \in [conf : Confs, active : BOOLEAN]
         /\ \A k : k # c.key => InHandler(k) \ {c} = InHandler(k)
<1> QED
  BY DEF Typed, TypeOK, CallFits, InHandler

-----------------------------------------------------------------------------
(* The handlers, one by one.                                               *)

\* A statement that fails, and a key that is busy: the request gives up.
LEMMA GiveUpInv ==
  ASSUME Typed, NEW c \in calls, c.pc \in {"save", "count"}, Answer(c, "error"),
         UNCHANGED backend, NEW k \in Keys, KeyInv(k)
  PROVE  RequestsFit' /\ KeyInv(k)'
<1>1. RequestsFit' /\ \A j : InHandler(j)' = InHandler(j) \ {c}
  BY AnswerCalls DEF backend
<1>2. c.pc \in HandlerPcs
  BY DEF HandlerPcs
<1>3. CASE k # c.key
  <2>1. InHandler(k)' = InHandler(k)
    BY <1>1, <1>2, <1>3, HandledKey
  <2> QED
    BY <1>1, <2>1, Frame DEF backend
<1>4. CASE k = c.key
  <2>1. c \in InHandler(k)
    BY <1>2, <1>4, HandledKey
  <2>2. AloneKnows(k)' /\ OthersRaced(k)'
    BY <1>1, <2>1, Leaves DEF backend
  <2>3. Debt(k)' <= Debt(k)
    BY <1>1 DEF Debt, backend
  <2>4. Paid(k)'
    BY <1>1, <2>1, <2>3, StaysPaid DEF backend
  <2>5. Follows(k)' /\ Unminted(k)'
    BY <1>1 DEF backend, KeyInv, Follows, Unminted
  <2> QED
    BY <1>1, <2>2, <2>4, <2>5 DEF KeyInv
<1> QED
  BY <1>3, <1>4

LEMMA SaveRowInv ==
  ASSUME Typed, NEW c \in calls, SaveRow(c), NEW k \in Keys, KeyInv(k)
  PROVE  RequestsFit' /\ KeyInv(k)'
<1>1. c.pc = "save" /\ UNCHANGED <<minted, worker, stray, overlaps, raced>>
  BY DEF SaveRow
<1>2. c.pc \in HandlerPcs
  BY <1>1 DEF HandlerPcs
<1>3. CASE Answer(c, "error") /\ UNCHANGED row
  BY <1>1, <1>3, GiveUpInv DEF backend
<1>4. CASE /\ row' = [row EXCEPT ![c.key] = Changed(c)]
           /\ Step(c, [c EXCEPT !.key_row = Changed(c), !.pc = "remove"])
  <2>1. /\ c \in Requests /\ c.key \in Keys /\ c \in InHandler(c.key)
        /\ c.key_row \in [conf : Confs, active : BOOLEAN]
    BY <1>2, HandledKey
  <2>2. Changed(c) \in [conf : Confs, active : BOOLEAN]
    BY <2>1 DEF Changed, Requests
  <2>3. PICK d : d = [c EXCEPT !.key_row = Changed(c), !.pc = "remove"]
    OBVIOUS
  <2>4. /\ d \in Requests /\ d.key = c.key /\ d.kind = c.kind /\ d.alone = c.alone
        /\ d.pc = "remove" /\ d.key_row = Changed(c)
    BY <2>1, <2>2, <2>3 DEF Requests, Pcs, HandlerPcs, Rows
  <2>5. Step(c, d)
    BY <1>4, <2>3
  <2>6. /\ RequestsFit'
        /\ InHandler(c.key)' = (InHandler(c.key) \ {c}) \cup {d}
        /\ \A j : j # c.key => InHandler(j)' = InHandler(j)
    BY <1>1, <1>2, <2>2, <2>4, <2>5, MoveCalls DEF HandlerPcs
  <2>7. row \in [Keys -> Rows]
    BY DEF Typed, TypeOK
  <2>8. CASE k # c.key
    BY <1>1, <1>4, <2>1, <2>6, <2>7, <2>8, Frame
  <2>9. CASE k = c.key
    <3>1. row'[k] = d.key_row
      BY <1>4, <2>1, <2>4, <2>7, <2>9
    <3>2. AloneKnows(k)' /\ OthersRaced(k)'
      <4>1. Knows(d, k)'
        BY <2>4, <3>1 DEF Knows
      <4> QED
        BY <1>1, <2>1, <2>4, <2>6, <2>9, <4>1, MovesOn
    <3>3. Debt(k)' <= Debt(k)
      BY <1>1, <2>4, <2>6, <2>9 DEF Debt
    <3>4. Paid(k)'
      BY <1>1, <2>1, <2>6, <2>9, <3>3, StaysPaid
    <3>5. Follows(k)' /\ Unminted(k)'
      BY <1>1, <2>4, <2>6, <2>9 DEF KeyInv, Follows, Unminted
    <3> QED
      BY <2>6, <3>2, <3>4, <3>5 DEF KeyInv
  <2> QED
    BY <2>8, <2>9
<1> QED
  BY <1>3, <1>4 DEF SaveRow

LEMMA CountTasksInv ==
  ASSUME Typed, NEW c \in calls, CountTasks(c), NEW k \in Keys, KeyInv(k)
  PROVE  RequestsFit' /\ KeyInv(k)'
<1>1. c.pc = "count" /\ UNCHANGED backend
  BY DEF CountTasks
<1>2. c.pc \in HandlerPcs
  BY <1>1 DEF HandlerPcs
<1>3. CASE Answer(c, "error")
  BY <1>1, <1>3, GiveUpInv
<1>4. CASE Goto(c, "remove")
  <2>1. /\ c \in Requests /\ c.key \in Keys /\ c \in InHandler(c.key)
        /\ c.key_row \in [conf : Confs, active : BOOLEAN]
    BY <1>2, HandledKey
  <2>2. PICK d : d = [c EXCEPT !.pc = "remove"]
    OBVIOUS
  <2>3. /\ d \in Requests /\ d.key = c.key /\ d.kind = c.kind /\ d.alone = c.alone
        /\ d.pc = "remove" /\ d.key_row = c.key_row
    BY <2>1, <2>2 DEF Requests, Pcs, HandlerPcs
  <2>4. Step(c, d)
    BY <1>4, <2>2 DEF Goto
  <2>5. /\ RequestsFit'
        /\ InHandler(c.key)' = (InHandler(c.key) \ {c}) \cup {d}
        /\ \A j : j # c.key => InHandler(j)' = InHandler(j)
    BY <1>1, <1>2, <2>1, <2>3, <2>4, MoveCalls DEF HandlerPcs, backend
  <2>6. CASE k # c.key
    BY <1>1, <2>5, <2>6, Frame DEF backend
  <2>7. CASE k = c.key
    <3>1. AloneKnows(k)' /\ OthersRaced(k)'
      <4>1. c.alone => Knows(d, k)'
        BY <1>1, <2>1, <2>3, <2>7 DEF KeyInv, AloneKnows, Knows, backend
      <4> QED
        BY <1>1, <2>1, <2>3, <2>5, <2>7, <4>1, MovesOn DEF backend
    <3>2. Debt(k)' <= Debt(k)
      BY <1>1, <2>3, <2>5, <2>7 DEF Debt, backend
    <3>3. Paid(k)'
      BY <1>1, <2>1, <2>5, <2>7, <3>2, StaysPaid DEF backend
    <3>4. Follows(k)' /\ Unminted(k)'
      BY <1>1, <2>3, <2>5, <2>7 DEF KeyInv, Follows, Unminted, backend
    <3> QED
      BY <2>5, <3>1, <3>3, <3>4 DEF KeyInv
  <2> QED
    BY <2>6, <2>7
<1> QED
  BY <1>3, <1>4 DEF CountTasks

\* The worker leaves the map; the request ends here where the row is inactive.
LEMMA RemoveWorkerInv ==
  ASSUME Typed, NEW c \in calls, RemoveWorker(c), NEW k \in Keys, KeyInv(k)
  PROVE  RequestsFit' /\ KeyInv(k)'
<1>1. /\ c.pc = "remove" /\ UNCHANGED <<row, minted, stray, overlaps>>
      /\ worker' = [worker EXCEPT ![c.key] = None] /\ AfterRemove(c)
  BY DEF RemoveWorker
<1>2. c.pc \in HandlerPcs
  BY <1>1 DEF HandlerPcs
<1>3. /\ c \in Requests /\ c.key \in Keys /\ c \in InHandler(c.key)
      /\ c.key_row \in [conf : Confs, active : BOOLEAN]
      /\ \A j : j # c.key => InHandler(j) \ {c} = InHandler(j)
  BY <1>2, HandledKey
<1>4. /\ worker'[c.key] = None
      /\ \A j \in Keys : j # c.key => worker'[j] = worker[j]
  BY <1>1, <1>3 DEF Typed, TypeOK
<1>5. Debt(c.key)' <= Debt(c.key)
  BY <1>4 DEF Debt
<1>6. ASSUME NEW pc \in {"add", "delete"}, Goto(c, pc), UNCHANGED raced,
             pc = "add" => c.key_row.active
      PROVE  RequestsFit' /\ KeyInv(k)'
  <2>1. PICK d : d = [c EXCEPT !.pc = pc]
    OBVIOUS
  <2>2. /\ d \in Requests /\ d.key = c.key /\ d.kind = c.kind /\ d.alone = c.alone
        /\ d.pc = pc /\ d.key_row = c.key_row
    BY <1>3, <2>1 DEF Requests, Pcs, HandlerPcs
  <2>3. Step(c, d)
    BY <1>6, <2>1 DEF Goto
  <2>4. /\ RequestsFit'
        /\ InHandler(c.key)' = (InHandler(c.key) \ {c}) \cup {d}
        /\ \A j : j # c.key => InHandler(j)' = InHandler(j)
    BY <1>1, <1>2, <1>3, <2>2, <2>3, MoveCalls DEF HandlerPcs
  <2>5. CASE k # c.key
    BY <1>1, <1>4, <1>6, <2>4, <2>5, Frame
  <2>6. CASE k = c.key
    <3>1. AloneKnows(k)' /\ OthersRaced(k)'
      <4>1. c.alone => Knows(d, k)'
        BY <1>1, <1>3, <1>4, <1>6, <2>2, <2>6 DEF KeyInv, AloneKnows, Knows
      <4> QED
        BY <1>3, <1>6, <2>2, <2>4, <2>6, <4>1, MovesOn
    <3>2. Paid(k)'
      BY <1>1, <1>3, <1>5, <2>4, <2>6, StaysPaid
    <3>3. Follows(k)' /\ Unminted(k)'
      BY <1>4, <2>2, <2>4, <2>6 DEF Follows, Unminted
    <3> QED
      BY <2>4, <3>1, <3>2, <3>3 DEF KeyInv
  <2> QED
    BY <2>4, <2>5, <2>6
<1>7. CASE Answer(c, "ok") /\ Settled(c) /\ ~c.key_row.active
  <2>1. RequestsFit' /\ \A j : InHandler(j)' = InHandler(j) \ {c}
    BY <1>1, <1>7, AnswerCalls
  <2>2. raced' = IF c.alone THEN raced \ {c.key} ELSE raced
    BY <1>7 DEF Settled
  <2>3. CASE k # c.key
    BY <1>1, <1>3, <1>4, <2>1, <2>2, <2>3, Frame
  <2>4. CASE k = c.key
    <3>1. AloneKnows(k)' /\ OthersRaced(k)'
      BY <1>3, <2>1, <2>2, <2>4, Leaves
    <3>2. Paid(k)'
      BY <1>1, <1>3, <1>5, <2>1, <2>4, StaysPaid
    <3>3. Follows(k)'
      <4>1. CASE c.alone
        <5>1. ~row[k].active
          BY <1>1, <1>3, <1>7, <2>4, <4>1 DEF KeyInv, AloneKnows, Knows
        <5> QED
          BY <1>1, <1>4, <2>4, <5>1 DEF Follows
      <4>2. CASE ~c.alone
        <5>1. k \in raced'
          BY <1>3, <2>2, <2>4, <4>2 DEF KeyInv, OthersRaced
        <5> QED
          BY <5>1 DEF Follows
      <4> QED
        BY <4>1, <4>2
    <3>4. Unminted(k)'
      BY <1>4, <2>4 DEF Unminted
    <3> QED
      BY <2>1, <3>1, <3>2, <3>3, <3>4 DEF KeyInv
  <2> QED
    BY <2>1, <2>3, <2>4
<1> QED
  BY <1>1, <1>6, <1>7 DEF AfterRemove

LEMMA AddWorkerInv ==
  ASSUME Typed, NEW c \in calls, AddWorker(c), NEW k \in Keys, KeyInv(k)
  PROVE  RequestsFit' /\ KeyInv(k)'
<1>1. /\ c.pc = "add" /\ UNCHANGED <<row, minted, overlaps>>
      /\ worker' = [worker EXCEPT ![c.key] = c.key_row.conf]
      /\ stray' = IF worker[c.key] = None THEN stray ELSE [stray EXCEPT ![c.key] = @ + 1]
      /\ raced' = IF c.alone THEN raced \ {c.key} ELSE raced
      /\ Answer(c, "ok")
  BY DEF AddWorker, Settled
<1>2. c.pc \in HandlerPcs
  BY <1>1 DEF HandlerPcs
<1>3. /\ c \in Requests /\ c.key \in Keys /\ c.key \in minted /\ c \in InHandler(c.key)
      /\ \A j : j # c.key => InHandler(j) \ {c} = InHandler(j)
  BY <1>2, HandledKey
<1>4. RequestsFit' /\ \A j : InHandler(j)' = InHandler(j) \ {c}
  BY <1>1, AnswerCalls
<1>5. /\ worker \in [Keys -> Confs \cup {None}]
      /\ stray \in [Keys -> Nat] /\ overlaps \in [Keys -> Nat]
  BY DEF Typed, TypeOK
<1>6. /\ worker'[c.key] = c.key_row.conf
      /\ \A j \in Keys : j # c.key => worker'[j] = worker[j] /\ stray'[j] = stray[j]
      /\ stray'[c.key] = IF worker[c.key] = None THEN stray[c.key] ELSE stray[c.key] + 1
  BY <1>1, <1>3, <1>5
<1>7. CASE k # c.key
  BY <1>1, <1>3, <1>4, <1>6, <1>7, Frame
<1>8. CASE k = c.key
  <2>1. AloneKnows(k)' /\ OthersRaced(k)'
    BY <1>1, <1>3, <1>4, <1>8, Leaves
  <2>2. Follows(k)'
    <3>1. CASE c.alone
      <4>1. c.key_row = row[k] /\ row[k].active
        BY <1>1, <1>3, <1>8, <3>1 DEF KeyInv, AloneKnows, Knows
      <4> QED
        BY <1>1, <1>6, <1>8, <4>1 DEF Follows
    <3>2. CASE ~c.alone
      <4>1. k \in raced'
        BY <1>1, <1>3, <1>8, <3>2 DEF KeyInv, OthersRaced
      <4> QED
        BY <4>1 DEF Follows
    <3> QED
      BY <3>1, <3>2
  <2>3. Unminted(k)'
    BY <1>1, <1>3, <1>8 DEF Unminted
  <2>4. Paid(k)'
    <3> DEFINE n == Cardinality(InHandler(k))
               m == Cardinality(InHandler(k)')
    <3>1. /\ IsFiniteSet(InHandler(k)) /\ n \in Nat
      BY InHandlerFinite
    <3>2. IsFiniteSet(InHandler(k) \ {c}) /\ Cardinality(InHandler(k) \ {c}) = n - 1
      BY <1>3, <1>8, <3>1, FS_RemoveElement
    <3>3. n - 1 \in Nat
      BY <3>2, FS_CardinalityType
    <3>4. m = n - 1
      BY <1>4, <3>2, Zenon
    <3>5. Debt(k) = IF worker[k] = None THEN 0 ELSE 1
      BY <1>1, <1>3, <1>8 DEF Debt
    <3>6. Debt(k)' \in 0..1
      BY DEF Debt
    <3>7. stray[k] <= overlaps[k] /\ stray[k] + n + Debt(k) <= overlaps[k] + 1
      BY <1>3, <1>8 DEF KeyInv, Paid
    <3>8. stray[k] \in Nat /\ overlaps[k] \in Nat /\ overlaps'[k] = overlaps[k]
      BY <1>1, <1>5
    <3>9. stray'[k] <= overlaps[k] /\ stray'[k] + m + Debt(k)' <= overlaps[k] + 1
      <4> HIDE DEF n, m
      <4> QED
        BY <1>6, <1>8, <3>1, <3>3, <3>4, <3>5, <3>6, <3>7, <3>8
    <3> QED
      BY <3>8, <3>9 DEF Paid
  <2> QED
    BY <1>4, <2>1, <2>2, <2>3, <2>4 DEF KeyInv
<1> QED
  BY <1>4, <1>7, <1>8

LEMMA DeleteRowInv ==
  ASSUME Typed, NEW c \in calls, DeleteRow(c), NEW k \in Keys, KeyInv(k)
  PROVE  RequestsFit' /\ KeyInv(k)'
<1>1. c.pc = "delete" /\ UNCHANGED <<minted, worker, stray, overlaps>>
  BY DEF DeleteRow
<1>2. c.pc \in HandlerPcs
  BY <1>1 DEF HandlerPcs
<1>3. /\ c \in Requests /\ c.key \in Keys /\ c \in InHandler(c.key)
      /\ \A j : j # c.key => InHandler(j) \ {c} = InHandler(j)
  BY <1>2, HandledKey
<1>4. \/ /\ row' = [row EXCEPT ![c.key] = NoRow] /\ Answer(c, "ok")
         /\ raced' = IF c.alone THEN raced \ {c.key} ELSE raced
      \/ UNCHANGED row /\ raced' = raced \cup {c.key} /\ Answer(c, "error")
  BY DEF DeleteRow, Settled
<1>5. RequestsFit' /\ \A j : InHandler(j)' = InHandler(j) \ {c}
  BY <1>1, <1>4, AnswerCalls
<1>6. row \in [Keys -> Rows]
  BY DEF Typed, TypeOK
<1>7. CASE k # c.key
  <2>1. row'[k] = row[k] /\ (k \in raced' <=> k \in raced)
    BY <1>3, <1>4, <1>6, <1>7
  <2> QED
    BY <1>1, <1>3, <1>5, <1>7, <2>1, Frame
<1>8. CASE k = c.key
  <2>1. AloneKnows(k)' /\ OthersRaced(k)'
    BY <1>3, <1>4, <1>5, <1>8, Leaves
  <2>2. Debt(k)' <= Debt(k)
    BY <1>1, <1>5 DEF Debt
  <2>3. Paid(k)'
    BY <1>1, <1>3, <1>5, <1>8, <2>2, StaysPaid
  <2>4. Unminted(k)'
    BY <1>1 DEF KeyInv, Unminted
  <2>5. Follows(k)'
    <3>1. CASE k \in raced'
      BY <3>1 DEF Follows
    <3>2. CASE k \notin raced'
      <4>1. c.alone
        BY <1>3, <1>4, <1>8, <3>2 DEF KeyInv, OthersRaced
      <4>2. worker[k] = None
        BY <1>1, <1>3, <1>8, <4>1 DEF KeyInv, AloneKnows, Knows
      <4>3. row'[k] = NoRow
        BY <1>3, <1>4, <1>6, <1>8, <3>2
      <4> QED
        BY <1>1, <4>2, <4>3 DEF Follows, NoRow
    <3> QED
      BY <3>1, <3>2
  <2> QED
    BY <1>5, <2>1, <2>3, <2>4, <2>5 DEF KeyInv
<1> QED
  BY <1>5, <1>7, <1>8

\* A new row has no request and no worker yet.
LEMMA InsertRowInv ==
  ASSUME Typed, NEW c \in calls, InsertRow(c), \A j \in Keys : KeyInv(j)
  PROVE  RequestsFit' /\ \A k \in Keys : KeyInv(k)'
<1>1. /\ c.pc = "sent" /\ c.kind = "create"
      /\ UNCHANGED <<worker, stray, overlaps, raced>>
      /\ c \in Requests /\ CallFits(c)
  BY DEF InsertRow, Typed, TypeOK
<1>2. \A j : c \notin InHandler(j)
  BY <1>1 DEF InHandler, HandlerPcs
<1>3. CASE Answer(c, "error") /\ UNCHANGED <<row, minted>>
  <2>1. RequestsFit' /\ \A j : InHandler(j)' = InHandler(j) \ {c}
    BY <1>3, AnswerCalls
  <2>2. \A j : InHandler(j)' = InHandler(j)
    BY <1>2, <2>1
  <2> QED
    BY <1>1, <1>3, <2>1, <2>2, Frame
<1>4. ASSUME NEW j \in Keys \ minted,
             row' = [row EXCEPT ![j] = [conf |-> c.conf, active |-> TRUE]],
             minted' = minted \cup {j},
             Step(c, [c EXCEPT !.key = j, !.key_row = [conf |-> c.conf, active |-> TRUE],
                               !.pc = "add"])
      PROVE  RequestsFit' /\ \A k \in Keys : KeyInv(k)'
  <2>1. PICK d : d = [c EXCEPT !.key = j, !.key_row = [conf |-> c.conf, active |-> TRUE],
                               !.pc = "add"]
    OBVIOUS
  <2>2. c.conf \in Confs
    BY <1>1 DEF CallFits
  <2>3. /\ d \in Requests /\ d.key = j /\ d.kind = "create" /\ d.alone = c.alone
        /\ d.pc = "add" /\ d.key_row = [conf |-> c.conf, active |-> TRUE]
    BY <1>1, <2>1, <2>2 DEF Requests, Pcs, HandlerPcs, Rows
  <2>4. Step(c, d)
    BY <1>4, <2>1
  <2>5. CallFits(d)'
    BY <1>4, <2>2, <2>3 DEF CallFits, HandlerPcs
  <2>6. RequestsFit'
    BY <1>4, <2>3, <2>4, <2>5, StepCalls DEF RequestsFit
  <2>7. row \in [Keys -> Rows]
    BY DEF Typed, TypeOK
  <2>8. ASSUME NEW k \in Keys, k # j PROVE KeyInv(k)'
    <3>1. InHandler(k)' = InHandler(k)
      BY <1>2, <2>3, <2>4, <2>8, StepHandlers
    <3>2. row'[k] = row[k] /\ (k \in minted <=> k \in minted')
      BY <1>4, <2>7, <2>8
    <3> QED
      BY <1>1, <3>1, <3>2, Frame
  <2>9. ASSUME NEW k \in Keys, k = j PROVE KeyInv(k)'
    <3>1. InHandler(k) = {}
      BY <1>4, <2>9 DEF InHandler, Typed, CallFits
    <3>2. InHandler(k)' = {d}
      <4>1. InHandler(k)' = (InHandler(k) \ {c}) \cup {d}
        BY <2>3, <2>4, <2>9, StepHandlers DEF HandlerPcs
      <4> QED
        BY <3>1, <4>1
    <3>3. worker[k] = None /\ worker'[k] = None
      BY <1>1, <1>4, <2>9 DEF KeyInv, Unminted
    <3>4. row'[k] = d.key_row /\ d.key_row.active
      BY <1>4, <2>3, <2>7, <2>9
    <3>5. AloneKnows(k)'
      BY <2>3, <3>2, <3>3, <3>4 DEF AloneKnows, Knows
    <3>6. OthersRaced(k)'
      BY <1>1, <2>3, <3>2 DEF OthersRaced, CallFits
    <3>7. Follows(k)' /\ Unminted(k)'
      BY <2>3, <3>2, <3>3 DEF Follows, Unminted
    <3>8. Paid(k)'
      <4>1. Cardinality(InHandler(k)') = 1
        BY <3>2, FS_Singleton, Zenon
      <4>2. Debt(k)' = 0
        BY <3>3 DEF Debt
      <4>3. stray'[k] = stray[k] /\ overlaps'[k] = overlaps[k]
        BY <1>1
      <4>4. stray[k] <= overlaps[k] /\ stray[k] \in Nat /\ overlaps[k] \in Nat
        BY DEF KeyInv, Paid, Typed, TypeOK
      <4> QED
        BY <4>1, <4>2, <4>3, <4>4 DEF Paid
    <3> QED
      BY <3>5, <3>6, <3>7, <3>8 DEF KeyInv
  <2> QED
    BY <2>6, <2>8, <2>9
<1> QED
  BY <1>1, <1>3, <1>4 DEF InsertRow

\* A request that reads its row makes the others of its key known.
LEMMA ReadRowInv ==
  ASSUME Typed, NEW c \in calls, ReadRow(c), \A j \in Keys : KeyInv(j), NEW k \in Keys
  PROVE  RequestsFit' /\ KeyInv(k)'
<1>1. /\ c.pc = "sent" /\ c.kind # "create"
      /\ UNCHANGED <<row, minted, worker, stray>>
      /\ c \in Requests /\ CallFits(c) /\ c.key \in Keys
  BY DEF ReadRow, Typed, TypeOK, CallFits
<1>2. \A j : c \notin InHandler(j)
  BY <1>1 DEF InHandler, HandlerPcs
<1>3. CASE ~Exists(c.key)
  <2>1. Answer(c, "error") /\ UNCHANGED <<overlaps, raced>>
    BY <1>3 DEF ReadRow
  <2>2. RequestsFit' /\ \A j : InHandler(j)' = InHandler(j) \ {c}
    BY <1>1, <2>1, AnswerCalls
  <2>3. InHandler(k)' = InHandler(k)
    BY <1>2, <2>2
  <2> QED
    BY <1>1, <2>1, <2>2, <2>3, Frame
<1>4. CASE Exists(c.key)
  <2> DEFINE others == InHandler(c.key)
             told == {[o EXCEPT !.alone = FALSE] : o \in others}
  <2>1. PICK d : d = [c EXCEPT !.key_row = row[c.key], !.alone = others = {},
                               !.pc = IF c.kind = "delete" THEN "count" ELSE "save"]
    OBVIOUS
  <2>2. /\ calls' = (calls \ ({c} \cup others)) \cup {d} \cup told
        /\ IF others = {} THEN UNCHANGED <<overlaps, raced>>
           ELSE /\ overlaps' = [overlaps EXCEPT ![c.key] = @ + 1]
                /\ raced' = raced \cup {c.key}
    BY <1>4, <2>1 DEF ReadRow
  <2>3. row[c.key] \in [conf : Confs, active : BOOLEAN] /\ c.key \in minted
    BY <1>1, <1>4 DEF Exists, Typed, TypeOK, Rows
  <2>4. /\ d \in Requests /\ d.key = c.key /\ d.kind = c.kind
        /\ d.alone = (others = {}) /\ d.pc \in {"save", "count"} /\ d.key_row = row[c.key]
    <3>1. PICK b \in BOOLEAN : b = (others = {})
      OBVIOUS
    <3>2. PICK p \in {"save", "count"} : p = IF c.kind = "delete" THEN "count" ELSE "save"
      OBVIOUS
    <3>3. d = [c EXCEPT !.key_row = row[c.key], !.alone = b, !.pc = p]
      BY <2>1, <3>1, <3>2
    <3>4. c \in Requests /\ row[c.key] \in Rows /\ p \in Pcs
      BY <1>1, <2>3, <3>2 DEF Rows, Pcs, HandlerPcs
    <3> QED
      BY <3>1, <3>3, <3>4 DEF Requests
  <2>5. CallFits(d)'
    BY <1>1, <2>3, <2>4 DEF CallFits, HandlerPcs
  <2>6. ASSUME NEW o \in others
        PROVE  LET e == [o EXCEPT !.alone = FALSE] IN
               /\ e \in Requests /\ e.key = c.key /\ e.pc = o.pc /\ e.pc \in HandlerPcs
               /\ ~e.alone /\ CallFits(e)'
    <3>1. o \in Requests /\ CallFits(o) /\ o.key = c.key /\ o.pc \in HandlerPcs
      BY DEF InHandler, Typed, TypeOK
    <3>2. PICK e : e = [o EXCEPT !.alone = FALSE]
      OBVIOUS
    <3>3. /\ e \in Requests /\ e.key = o.key /\ e.pc = o.pc /\ ~e.alone
          /\ e.key_row = o.key_row /\ e.kind = o.kind
      BY <3>1, <3>2 DEF Requests
    <3>4. CallFits(e)'
      BY <1>1, <3>1, <3>3 DEF CallFits, HandlerPcs
    <3> QED
      BY <3>1, <3>2, <3>3, <3>4
  <2>7. IsFiniteSet(told) /\ Cardinality(told) \in Nat /\ Cardinality(told) <= Cardinality(others)
    <3> DEFINE f == [o \in others |-> [o EXCEPT !.alone = FALSE]]
    <3>1. f \in Surjection(others, told)
      BY DEF Surjection
    <3>2. IsFiniteSet(others)
      BY InHandlerFinite
    <3> HIDE DEF f, told, others
    <3> QED
      BY <3>1, <3>2, FS_Surjection, FS_CardinalityType
  <2>8. \A e \in told : e \in Requests /\ e.key = c.key /\ e.pc \in HandlerPcs /\ ~e.alone
                        /\ CallFits(e)' /\ \E o \in others : e.pc = o.pc
    BY <2>6
  <2>9. RequestsFit'
    <3> DEFINE rest == calls \ ({c} \cup others)
    <3>1. IsFiniteSet(rest)
      BY FS_Subset DEF Typed
    <3>2. IsFiniteSet((rest \cup {d}) \cup told)
      <4> HIDE DEF rest, told
      <4> QED
        BY <3>1, <2>7, FS_AddElement, FS_Union
    <3>3. \A e \in rest : e \in Requests /\ CallFits(e)'
      BY <1>1 DEF Typed, TypeOK, CallFits
    <3>4. calls' = (rest \cup {d}) \cup told
      BY <2>2
    <3> HIDE DEF rest, told
    <3> QED
      BY <2>4, <2>5, <2>8, <3>2, <3>3, <3>4 DEF RequestsFit
  <2>10. InHandler(c.key)' = told \cup {d}
    <3> HIDE DEF told
    <3> QED
      BY <1>1, <2>2, <2>4, <2>8 DEF InHandler, HandlerPcs
  <2>11. CASE k # c.key
    <3>1. InHandler(k)' = InHandler(k)
      <4> HIDE DEF told
      <4> QED
        BY <1>2, <2>2, <2>4, <2>8, <2>11 DEF InHandler
    <3>2. overlaps'[k] = overlaps[k] /\ (k \in raced' <=> k \in raced)
      BY <1>1, <2>2, <2>11 DEF Typed, TypeOK
    <3> QED
      BY <1>1, <2>9, <3>1, <3>2, Frame
  <2>12. CASE k = c.key /\ others = {}
    <3>1. InHandler(k)' = {d}
      BY <2>10, <2>12
    <3>2. /\ UNCHANGED <<overlaps, raced>> /\ d.alone
      BY <2>2, <2>4, <2>12
    <3>3. AloneKnows(k)' /\ OthersRaced(k)'
      BY <1>1, <2>4, <2>12, <3>1, <3>2 DEF AloneKnows, OthersRaced, Knows
    <3>4. Follows(k)' /\ Unminted(k)'
      BY <1>1, <2>12, <3>2 DEF KeyInv, Follows, Unminted
    <3>5. Paid(k)'
      <4>1. Cardinality(InHandler(k)') = 1
        BY <3>1, FS_Singleton, Zenon
      <4>2. Debt(k)' = 0
        BY <2>4, <3>1 DEF Debt
      <4>3. stray'[k] = stray[k] /\ overlaps'[k] = overlaps[k]
        BY <1>1, <3>2
      <4>4. stray[k] <= overlaps[k] /\ stray[k] \in Nat /\ overlaps[k] \in Nat
        BY DEF KeyInv, Paid, Typed, TypeOK
      <4> QED
        BY <4>1, <4>2, <4>3, <4>4 DEF Paid
    <3> QED
      BY <2>9, <3>3, <3>4, <3>5 DEF KeyInv
  <2>13. CASE k = c.key /\ others # {}
    <3>1. overlaps'[k] = overlaps[k] + 1 /\ k \in raced' /\ ~d.alone
      BY <1>1, <2>2, <2>4, <2>13 DEF Typed, TypeOK
    <3>2. \A e \in InHandler(k)' : ~e.alone
      <4> HIDE DEF told
      <4> QED
        BY <2>8, <2>10, <2>13, <3>1
    <3>3. AloneKnows(k)' /\ OthersRaced(k)' /\ Follows(k)'
      BY <3>1, <3>2 DEF AloneKnows, OthersRaced, Follows
    <3>4. Unminted(k)'
      BY <1>1 DEF KeyInv, Unminted
    <3>5. Paid(k)'
      <4> DEFINE n == Cardinality(others)
                 m == Cardinality(told)
                 s == Cardinality(told \cup {d})
      <4>1. s = m \/ s = m + 1
        <5> HIDE DEF told
        <5> QED
          BY <2>7, FS_AddElement
      <4>2. Debt(k)' <= Debt(k) /\ Debt(k) \in 0..1 /\ Debt(k)' \in 0..1
        <5> HIDE DEF told
        <5> QED
          BY <1>1, <2>4, <2>8, <2>10, <2>13 DEF Debt
      <4>3. stray[k] <= overlaps[k] /\ stray[k] + n + Debt(k) <= overlaps[k] + 1
        BY <2>13 DEF KeyInv, Paid
      <4>4. stray[k] \in Nat /\ overlaps[k] \in Nat /\ n \in Nat
        BY InHandlerFinite DEF Typed, TypeOK
      <4>5. m \in Nat /\ m <= n
        BY <2>7
      <4>6. stray[k] + s + Debt(k)' <= (overlaps[k] + 1) + 1
        <5> HIDE DEF n, m, s
        <5> QED
          BY <4>1, <4>2, <4>3, <4>4, <4>5
      <4>7. Cardinality(InHandler(k)') = s
        BY <2>10, <2>13, Zenon
      <4>8. stray'[k] = stray[k]
        BY <1>1
      <4> HIDE DEF n, m, s
      <4> QED
        BY <3>1, <4>3, <4>4, <4>6, <4>7, <4>8 DEF Paid
    <3> QED
      BY <2>9, <3>3, <3>4, <3>5 DEF KeyInv
  <2> QED
    BY <2>11, <2>12, <2>13
<1> QED
  BY <1>3, <1>4

-----------------------------------------------------------------------------
(* The steps outside the handlers.                                         *)

LEMMA QuietInv ==
  ASSUME Typed, UNCHANGED backend, \A j : InHandler(j)' = InHandler(j),
         \A j \in Keys : KeyInv(j)
  PROVE  \A k \in Keys : KeyInv(k)'
<1> QED
  BY Frame DEF backend

LEMMA SendInv ==
  ASSUME Typed, NEW who \in {"page", "other"}, NEW kind \in Kinds,
         NEW j \in Keys \cup {None}, NEW conf \in Confs \cup {None},
         NEW active \in BOOLEAN \cup {None},
         kind = "create" => conf \in Confs, kind # "create" => j \in Keys,
         Send(who, kind, j, conf, active), UNCHANGED minted
  PROVE  RequestsFit' /\ \A k : InHandler(k)' = InHandler(k)
<1> DEFINE n == used.acts + used.trouble
<1>1. n \in Nat
  BY BoundsAssumption DEF Typed, TypeOK
<1>2. PICK d : d = [n |-> n, who |-> who, kind |-> kind, key |-> j, conf |-> conf,
                    active |-> active, pc |-> "sent", key_row |-> NoRow, alone |-> TRUE]
  OBVIOUS
<1>3. calls' = calls \cup {d}
  BY <1>2 DEF Send
<1> HIDE DEF n
<1>4. d \in Requests /\ d.kind = kind /\ d.conf = conf /\ d.key = j /\ d.pc = "sent" /\ d.alone
  BY <1>1, <1>2 DEF Requests, Pcs, Rows
<1>5. CallFits(d)'
  BY <1>4 DEF CallFits, HandlerPcs
<1>6. \A c \in calls : CallFits(c)'
  BY DEF Typed, CallFits
<1>7. IsFiniteSet(calls')
  BY <1>3, FS_AddElement DEF Typed
<1>8. RequestsFit'
  BY <1>3, <1>4, <1>5, <1>6, <1>7 DEF RequestsFit, Typed, TypeOK
<1> QED
  BY <1>3, <1>4, <1>8 DEF InHandler, HandlerPcs

LEMMA HandleInv ==
  ASSUME Typed, \A j \in Keys : KeyInv(j), NEW c \in calls, Handle(c)
  PROVE  RequestsFit' /\ \A k \in Keys : KeyInv(k)'
<1>1. CASE InsertRow(c)
  BY <1>1, InsertRowInv
<1>2. CASE ~InsertRow(c)
  <2>1. c.key \in Keys
    <3>1. c.kind # "create" \/ c.pc \in HandlerPcs
      BY <1>2
      DEF Handle, ReadRow, SaveRow, CountTasks, RemoveWorker, AddWorker, DeleteRow, HandlerPcs
    <3> QED
      BY <3>1, HandledKey DEF Typed, CallFits
  <2>2. ASSUME NEW k \in Keys PROVE RequestsFit' /\ KeyInv(k)'
    BY <1>2, ReadRowInv, SaveRowInv, CountTasksInv, RemoveWorkerInv, AddWorkerInv,
       DeleteRowInv DEF Handle
  <2> QED
    BY <2>1, <2>2
<1> QED
  BY <1>1, <1>2

\* Everything but the handlers leaves them and what they have written alone.
LEMMA OutsideInv ==
  ASSUME Typed, DialogFormMatches,
         \/ \E l \in lists : LandList(l) \/ LoseList(l)
         \/ ReadList \/ OpenAdd \/ CloseDialog \/ Submit
         \/ \E conf \in Confs : Enter(conf)
         \/ \E k \in Keys :
              \/ Edit(k) \/ Toggle(k) \/ Delete(k)
              \/ \E kind \in {"toggle", "delete"} : Put(kind, k)
         \/ \E c \in calls : LoseAnswer(c) \/ Done(c)
         \/ UNCHANGED vars
  PROVE  RequestsFit' /\ UNCHANGED backend /\ \A k : InHandler(k)' = InHandler(k)
<1>1. CASE \/ \E l \in lists : LandList(l) \/ LoseList(l)
           \/ ReadList \/ OpenAdd \/ CloseDialog
           \/ \E conf \in Confs : Enter(conf)
           \/ \E k \in Keys : Edit(k)
           \/ UNCHANGED vars
  <2>1. UNCHANGED <<backend, calls>>
    BY <1>1 DEF LandList, LoseList, ReadList, OpenAdd, CloseDialog, Enter, Edit, vars
  <2> QED
    BY <2>1 DEF backend, InHandler, RequestsFit, CallFits, Typed, TypeOK
<1>2. CASE Submit
  <2>1. UNCHANGED backend /\ dialog.form.conf \in Confs
    BY <1>2 DEF Submit, Typed, TypeOK
  <2>2. \/ /\ Send("page", "update", dialog.editing, dialog.form.conf, None)
           /\ dialog.editing \in Keys
        \/ Send("page", "create", None, dialog.form.conf, None)
    BY <1>2 DEF Submit, Typed, TypeOK
  <2>3. {"update", "create"} \subseteq Kinds
    BY DEF Kinds
  <2> QED
    BY <2>1, <2>2, <2>3, SendInv DEF backend
<1>3. ASSUME NEW k \in Keys,
             \/ Toggle(k) \/ Delete(k)
             \/ \E kind \in {"toggle", "delete"} : Put(kind, k)
      PROVE  RequestsFit' /\ UNCHANGED backend /\ \A j : InHandler(j)' = InHandler(j)
  <2>1. UNCHANGED backend
    BY <1>3 DEF Toggle, Delete, Put
  <2>2. PICK who \in {"page", "other"}, kind \in {"toggle", "delete"},
             active \in BOOLEAN \cup {None} : Send(who, kind, k, None, active)
    <3>1. (~shown[k].active) \in BOOLEAN /\ (~row[k].active) \in BOOLEAN
      OBVIOUS
    <3> QED
      BY <1>3, <3>1 DEF Toggle, Delete, Put
  <2>3. kind \in Kinds /\ kind # "create"
    BY DEF Kinds
  <2> QED
    BY <2>1, <2>2, <2>3, SendInv DEF backend
<1>4. ASSUME NEW c \in calls, LoseAnswer(c)
      PROVE  RequestsFit' /\ UNCHANGED backend /\ \A k : InHandler(k)' = InHandler(k)
  <2>1. /\ c \in Requests /\ CallFits(c) /\ c.pc = "ok" /\ Goto(c, "error") /\ UNCHANGED backend
    BY <1>4 DEF LoseAnswer, Typed, TypeOK
  <2>2. PICK d : d = [c EXCEPT !.pc = "error"]
    OBVIOUS
  <2>3. d \in Requests /\ d.pc = "error" /\ d.kind = c.kind /\ d.key = c.key
    BY <2>1, <2>2 DEF Requests, Pcs
  <2>4. CallFits(d)'
    BY <2>1, <2>3 DEF CallFits, HandlerPcs
  <2>5. Step(c, d)
    BY <2>1, <2>2 DEF Goto
  <2>6. \A k : InHandler(k)' = InHandler(k) \ {c}
    BY <2>3, <2>5, StepHandlers DEF HandlerPcs
  <2>7. \A k : c \notin InHandler(k)
    BY <2>1 DEF InHandler, HandlerPcs
  <2> QED
    BY <2>1, <2>3, <2>4, <2>5, <2>6, <2>7, StepCalls DEF RequestsFit, backend
<1>5. ASSUME NEW c \in calls, Done(c)
      PROVE  RequestsFit' /\ UNCHANGED backend /\ \A k : InHandler(k)' = InHandler(k)
  <2>1. c.pc \in {"ok", "error"} /\ calls' = calls \ {c} /\ UNCHANGED backend
    BY <1>5 DEF Done
  <2>2. \A k : InHandler(k)' = InHandler(k)
    BY <2>1 DEF InHandler, HandlerPcs
  <2>3. IsFiniteSet(calls')
    BY <2>1, FS_RemoveElement DEF Typed
  <2> QED
    BY <2>1, <2>2, <2>3 DEF RequestsFit, CallFits, Typed, TypeOK, backend
<1> QED
  BY <1>1, <1>2, <1>3, <1>4, <1>5

-----------------------------------------------------------------------------
(* Types and the dialog.                                                   *)

\* The part of TypeOK that the handlers write.
BackendTyped ==
  /\ row \in [Keys -> Rows]
  /\ minted \subseteq Keys /\ \A k \in Keys : Exists(k) => k \in minted
  /\ worker \in [Keys -> Confs \cup {None}]
  /\ stray \in [Keys -> Nat]
  /\ overlaps \in [Keys -> Nat] /\ raced \subseteq Keys

DialogTyped ==
  dialog \in [open : BOOLEAN, editing : Keys \cup {None},
              form : [conf : Confs, apiKey : Keys \cup {"empty", "entered"}]]

UsedTyped == used \in [acts : 0..MaxActs, trouble : 0..MaxTrouble]

LEMMA HandleTyped ==
  ASSUME Typed, NEW c \in calls, Handle(c)
  PROVE  BackendTyped' /\ UNCHANGED page
<1> USE DEF BackendTyped
<1>1. c \in Requests /\ CallFits(c) /\ BackendTyped
  BY DEF Typed, TypeOK
<1>2. ASSUME c.pc \in HandlerPcs
      PROVE  c.key \in minted /\ c.key \in Keys /\ c.key_row \in [conf : Confs, active : BOOLEAN]
  BY <1>1, <1>2 DEF CallFits
<1>3. CASE InsertRow(c)
  <2>1. c.conf \in Confs
    BY <1>1, <1>3 DEF InsertRow, CallFits
  <2>2. UNCHANGED <<worker, stray, overlaps, raced, page>>
    BY <1>3 DEF InsertRow
  <2>3. \/ UNCHANGED <<row, minted>>
        \/ \E k \in Keys : /\ row' = [row EXCEPT ![k] = [conf |-> c.conf, active |-> TRUE]]
                           /\ minted' = minted \cup {k}
    BY <1>3 DEF InsertRow
  <2>4. CASE UNCHANGED <<row, minted>>
    BY <1>1, <2>2, <2>4 DEF Exists, page
  <2>5. ASSUME NEW k \in Keys, row' = [row EXCEPT ![k] = [conf |-> c.conf, active |-> TRUE]],
               minted' = minted \cup {k}
        PROVE  BackendTyped' /\ UNCHANGED page
    <3>1. [conf |-> c.conf, active |-> TRUE] \in Rows
      BY <2>1 DEF Rows
    <3>2. row' \in [Keys -> Rows]
      BY <1>1, <2>5, <3>1
    <3>3. \A j \in Keys : Exists(j)' => j \in minted'
      BY <1>1, <2>5 DEF Exists
    <3> QED
      BY <1>1, <2>2, <2>5, <3>2, <3>3 DEF page
  <2> QED
    BY <2>3, <2>4, <2>5
<1>4. CASE ReadRow(c)
  <2>1. c.key \in Keys
    BY <1>1, <1>4 DEF ReadRow, CallFits
  <2>2. UNCHANGED <<row, minted, worker, stray, page>>
    BY <1>4 DEF ReadRow
  <2>3. \/ UNCHANGED <<overlaps, raced>>
        \/ /\ overlaps' = [overlaps EXCEPT ![c.key] = @ + 1]
           /\ raced' = raced \cup {c.key}
    BY <1>4 DEF ReadRow
  <2> QED
    BY <1>1, <2>1, <2>2, <2>3 DEF Exists, page
<1>5. CASE SaveRow(c)
  <2>1. c.key \in minted /\ c.key \in Keys /\ c.key_row \in [conf : Confs, active : BOOLEAN]
    BY <1>2, <1>5 DEF SaveRow, HandlerPcs
  <2>2. Changed(c) \in Rows
    BY <1>1, <2>1 DEF Changed, Requests, Rows
  <2> QED
    BY <1>1, <1>5, <2>1, <2>2 DEF SaveRow, Exists, page
<1>6. CASE CountTasks(c)
  BY <1>1, <1>6 DEF CountTasks, backend, Exists, page
<1>7. CASE RemoveWorker(c) \/ AddWorker(c)
  <2>1. c.key \in Keys /\ c.key_row \in [conf : Confs, active : BOOLEAN]
    BY <1>2, <1>7 DEF RemoveWorker, AddWorker, HandlerPcs
  <2> QED
    BY <1>1, <1>7, <2>1 DEF RemoveWorker, AfterRemove, AddWorker, Settled, Exists, page
<1>8. CASE DeleteRow(c)
  <2>1. c.key \in Keys
    BY <1>2, <1>8 DEF DeleteRow, HandlerPcs
  <2> QED
    BY <1>1, <1>8, <2>1 DEF DeleteRow, Settled, Exists, Rows, page
<1> QED
  BY <1>3, <1>4, <1>5, <1>6, <1>7, <1>8 DEF Handle

LEMMA TypedInv ==
  ASSUME KInv, [Next]_vars, RequestsFit'
  PROVE  Typed'
<1>1. Typed /\ row \in [Keys -> Rows]
  BY DEF KInv, Typed, TypeOK
<1>2. UsedTyped'
  <2> USE DEF UsedTyped
  <2>1. UsedTyped /\ MaxActs \in Nat /\ MaxTrouble \in Nat
    BY <1>1, BoundsAssumption DEF Typed, TypeOK
  <2>2. ASSUME Act PROVE UsedTyped'
    BY <2>1, <2>2 DEF Act
  <2>3. ASSUME Trouble PROVE UsedTyped'
    BY <2>1, <2>3 DEF Trouble
  <2>4. ASSUME NEW c \in calls, Handle(c) PROVE Trouble \/ UNCHANGED used
    BY <2>4
    DEF Handle, InsertRow, ReadRow, SaveRow, CountTasks, RemoveWorker, AddWorker, DeleteRow
  <2>5. \/ Act \/ Trouble \/ UNCHANGED used
        \/ \E c \in calls : Handle(c)
    BY DEF Next, vars, LandList, LoseList, ReadList, OpenAdd, CloseDialog, Submit, Enter, Edit,
           Toggle, Delete, Put, LoseAnswer, Done
  <2> QED
    BY <2>1, <2>2, <2>3, <2>4, <2>5
<1>3. CASE \E c \in calls : Handle(c)
  <2>1. BackendTyped' /\ UNCHANGED page
    BY <1>1, <1>3, HandleTyped
  <2> QED
    BY <1>1, <1>2, <2>1 DEF BackendTyped, UsedTyped, RequestsFit, Typed, TypeOK, page
<1>4. CASE ~\E c \in calls : Handle(c)
  <2>1. UNCHANGED backend
    BY <1>1, <1>4, OutsideInv DEF Next, KInv
  <2>2. BackendTyped'
    BY <1>1, <2>1 DEF backend, BackendTyped, Exists, Typed, TypeOK
  <2>3. shown' \in [Keys -> Rows] /\ lists' \subseteq [Keys -> Rows] \cup {None}
    BY <1>1, <1>4
    DEF Next, vars, page, LandList, LoseList, ReadList, OpenAdd, CloseDialog, Submit, Enter, Edit,
        Toggle, Delete, Put, LoseAnswer, Done, FetchKeys, Typed, TypeOK
  <2>4. DialogTyped'
    <3> USE DEF DialogTyped
    <3>1. CASE OpenAdd
      BY <1>1, <3>1 DEF OpenAdd, Typed, TypeOK
    <3>2. ASSUME NEW conf \in Confs, Enter(conf) PROVE DialogTyped'
      BY <1>1, <3>2 DEF Enter, Typed, TypeOK
    <3>3. ASSUME NEW k \in Keys, Edit(k) PROVE DialogTyped'
      <4>1. shown[k].conf \in Confs
        BY <1>1, <3>3 DEF Edit, Typed, TypeOK, Rows
      <4> QED
        BY <3>3, <4>1 DEF Edit
    <3>4. CASE dialog' = Closed
      BY <3>4, ConfsAssumption DEF Closed, BlankForm
    <3>5. CASE UNCHANGED dialog
      BY <1>1, <3>5 DEF Typed, TypeOK
    <3>6. \/ OpenAdd \/ (\E conf \in Confs : Enter(conf)) \/ (\E k \in Keys : Edit(k))
          \/ dialog' = Closed \/ UNCHANGED dialog
      BY <1>4 DEF Next, vars, page, LandList, LoseList, ReadList, CloseDialog, Submit, Toggle,
              Delete, Put, LoseAnswer, Done
    <3> QED
      BY <3>1, <3>2, <3>3, <3>4, <3>5, <3>6
  <2> QED
    BY <1>2, <2>2, <2>3, <2>4 DEF DialogTyped, BackendTyped, UsedTyped, RequestsFit, Typed, TypeOK
<1> QED
  BY <1>3, <1>4

LEMMA DialogInv ==
  ASSUME KInv, [Next]_vars
  PROVE  DialogFormMatches'
<1>1. Typed /\ DialogFormMatches
  BY DEF KInv
<1>2. CASE UNCHANGED dialog \/ dialog' = Closed
  BY <1>1, <1>2 DEF DialogFormMatches, Closed, BlankForm
<1>3. CASE OpenAdd
  BY <1>1, <1>3 DEF OpenAdd, DialogFormMatches, Typed, TypeOK
<1>4. ASSUME NEW conf \in Confs, Enter(conf) PROVE DialogFormMatches'
  BY <1>1, <1>4 DEF Enter, DialogFormMatches, Typed, TypeOK
<1>5. ASSUME NEW k \in Keys, Edit(k) PROVE DialogFormMatches'
  BY <1>1, <1>5, KeysAssumption DEF Edit, DialogFormMatches
<1> QED
  BY <1>2, <1>3, <1>4, <1>5
  DEF Next, vars, page, LandList, LoseList, ReadList, CloseDialog, Submit, Toggle, Delete, Put,
      Handle, InsertRow, ReadRow, SaveRow, CountTasks, RemoveWorker, AddWorker, DeleteRow,
      LoseAnswer, Done

-----------------------------------------------------------------------------
(* The invariant and what it implies.                                      *)

LEMMA InitKInv == Init => KInv
<1> SUFFICES ASSUME Init PROVE KInv
  OBVIOUS
<1>1. Typed
  <2>1. TypeOK
    BY KeysAssumption, ConfsAssumption, BoundsAssumption
    DEF Init, TypeOK, Rows, NoRow, Exists, Closed, BlankForm
  <2> QED
    BY <2>1, FS_EmptySet DEF Init, Typed
<1>2. DialogFormMatches
  BY DEF Init, DialogFormMatches, Closed, BlankForm
<1>3. ASSUME NEW k \in Keys PROVE KeyInv(k)
  <2>1. InHandler(k) = {}
    BY DEF Init, InHandler
  <2>2. worker[k] = IF row[k].active THEN row[k].conf ELSE None
    BY <1>3 DEF Init, NoRow
  <2>3. k \notin minted => worker[k] = None
    BY <1>3 DEF Init, NoRow
  <2>4. stray[k] <= overlaps[k]
    BY <1>3 DEF Init
  <2> QED
    BY <2>1, <2>2, <2>3, <2>4
    DEF KeyInv, AloneKnows, OthersRaced, Follows, Unminted, Paid
<1> QED
  BY <1>1, <1>2, <1>3 DEF KInv

(***************************************************************************)
(* KInv is an invariant: what each request in its handler knows, and that  *)
(* every worker that may fall out of the map is paid for by an overlap.    *)
(***************************************************************************)
THEOREM KeyInvariance == Spec => []KInv
<1>1. Init => KInv
  BY InitKInv
<1>2. KInv /\ [Next]_vars => KInv'
  <2> SUFFICES ASSUME KInv, [Next]_vars PROVE KInv'
    OBVIOUS
  <2>1. RequestsFit' /\ \A k \in Keys : KeyInv(k)'
    <3>1. CASE \E c \in calls : Handle(c)
      BY <3>1, HandleInv DEF KInv
    <3>2. CASE ~\E c \in calls : Handle(c)
      <4>1. RequestsFit' /\ UNCHANGED backend /\ \A k : InHandler(k)' = InHandler(k)
        BY <3>2, OutsideInv DEF Next, KInv
      <4> QED
        BY <4>1, QuietInv DEF KInv
    <3> QED
      BY <3>1, <3>2
  <2>2. Typed' /\ DialogFormMatches'
    BY <2>1, TypedInv, DialogInv
  <2> QED
    BY <2>1, <2>2 DEF KInv
<1> QED
  BY <1>1, <1>2, PTL DEF Spec

(***************************************************************************)
(* Every variable of KeyAdmin stays in its type.                           *)
(***************************************************************************)
THEOREM KeyTypeCorrect == Spec => []TypeOK
<1>1. KInv => TypeOK
  BY DEF KInv, Typed
<1> QED
  BY <1>1, KeyInvariance, PTL

(***************************************************************************)
(* However many requests overlap for however many keys: between requests a *)
(* worker follows its row unless they raced, and no more workers run       *)
(* outside the map than requests overlapped.                               *)
(***************************************************************************)
THEOREM PoolFollowsRows == Spec => []PoolMatchesRows
<1>1. KInv => PoolMatchesRows
  BY DEF KInv, KeyInv, Follows, Paid, PoolMatchesRows
<1> QED
  BY <1>1, KeyInvariance, PTL

(***************************************************************************)
(* The form of the key dialog is that of the key it edits, or of a new one *)
(* whose API key was typed in, whichever request ends meanwhile.           *)
(***************************************************************************)
THEOREM FormFollowsDialog == Spec => []DialogFormMatches
<1>1. KInv => DialogFormMatches
  BY DEF KInv
<1> QED
  BY <1>1, KeyInvariance, PTL

=============================================================================
