--------------------------- MODULE SettingsProofs ---------------------------
(***************************************************************************)
(* Proofs about Settings, for any number of pages and of fields, all       *)
(* ranges, defaults, texts and bounds.  The invariant SInv follows a value *)
(* through the handler, field by field: what of the configuration, of its  *)
(* row and of the loop's tick a PUT has set already, and what the page     *)
(* that sent it may conclude from each stage.                              *)
(***************************************************************************)
EXTENDS Settings, FiniteSetTheorems, WellFoundedInduction, TLAPS

CallRecs == [pc : Pcs, i : 1..Len(Order), body : [Fields -> Nat \cup {Absent}]]
Wrote == {"persist", "offer", "drain", "send"}

\* The PUTs: a field of the body is being handled; past its range check its
\* value is in range, and only the tick goes on to SetTick.
Fits(r) ==
  /\ r.pc \in HandlerPcs => r.i \in Sent(r.body)
  /\ r.pc \in Wrote => InRange(Order[r.i], ParseInt(r.body[Order[r.i]]))
  /\ r.pc \in {"offer", "drain", "send"} => Order[r.i] = Tick

\* Those of a page: every field is sent, all but the strategy are in range,
\* so that only the first can be refused.
PageFits(r) ==
  /\ r.pc # "idle" => /\ r.body \in [Fields -> Nat]
                      /\ \A f \in Fields \ {Strategy} : InRange(f, ParseInt(r.body[f]))
  /\ r.pc = "refused" => r.i = 1

CallsFit == (\A c \in Callers : Fits(call[c])) /\ (\A a \in Admins : PageFits(call[a]))

\* Nothing is under way where there is no process.
DownIsQuiet == ~up => pending = <<>> /\ \A c \in Callers : ~InHandler(c)

HandlerAlone ==
  ~torn => \A c, d \in Callers : InHandler(c) /\ InHandler(d) => c = d

\* Who has written has made the other pages doubtful.
WriterDoubted ==
  \A c \in Callers : call[c].pc \in Wrote => Admins \ {c} \subseteq doubt

\* The copies, field by field: in the configuration, then in the table, then
\* with the loop.
Applied(c) == call[c].pc \in Wrote => config[Field(c)] = Value(c)

RowFollows(f) ==
  (\A c \in Callers : ~(call[c].pc = "persist" /\ Field(c) = f)) => config[f] = Restored[f]

NextTick == IF pending = <<>> THEN loop ELSE pending[1]
TickFollows ==
  (\A c \in Callers : ~(call[c].pc \in Wrote /\ Field(c) = Tick)) => config[Tick] = NextTick

Copies ==
  (\A c \in Callers : Applied(c)) /\ (\A f \in Fields : RowFollows(f)) /\ TickFollows
CopiesFollow == up /\ ~torn => Copies

\* The values in force, or about to be when the process is up again.
Current == IF up THEN config ELSE Restored

\* How far the request r of a page has come with the j-th field.
Reached(r, j) == j < r.i \/ (j = r.i /\ r.pc # "apply")

\* What the page knows of the values v in force.
Knows(r, ld, ans, sv, v) ==
  /\ ld \in {"asked", "read"} => r.pc = "idle"
  /\ ld = "read" => ans = v
  /\ ld = "done" =>
       /\ r.pc \in {"idle", "refused"} => \A f \in Fields : ParseInt(sv[f]) = v[f]
       /\ r.pc = "ok" => \A f \in Fields : ParseInt(r.body[f]) = v[f]
       /\ r.pc \in HandlerPcs =>
            \A j \in 1..Len(Order) :
              v[Order[j]] = ParseInt(IF Reached(r, j) THEN r.body[Order[j]] ELSE sv[Order[j]])

PageKnows(a) == Knows(call[a], load[a], got[a], saved[a], Current)
PagesKnow == ~torn => \A a \in Admins \ doubt : PageKnows(a)

Control == DownIsQuiet /\ HandlerAlone /\ WriterDoubted
SInv == TypeOK /\ CallsFit /\ Control /\ CopiesFollow /\ PagesKnow

-----------------------------------------------------------------------------
(* Texts, fields and the order they are read in.                           *)

LEMMA Parsing ==
  /\ \A n \in Nat : ParseInt(n) \in Nat
  /\ \A v \in Nat : StringOf(v) \in Nat /\ ParseInt(StringOf(v)) = v
<1>1. \A n \in Nat : n \div 10 \in Nat
  OBVIOUS
<1>2. \A v \in Nat : 10 * v \in Nat /\ (10 * v) \div 10 = v
  OBVIOUS
<1> QED
  BY <1>1, <1>2 DEF ParseInt, StringOf

LEMMA OrderFacts ==
  /\ Len(Order) \in Nat \ {0} /\ 1 \in 1..Len(Order)
  /\ \A i \in 1..Len(Order) : Order[i] \in Fields
  /\ \A f \in Fields : \E i \in 1..Len(Order) : Order[i] = f
  /\ Strategy \in Fields /\ Tick \in Fields /\ Order[1] = Strategy
  /\ \A i, j \in 1..Len(Order) : Order[i] = Order[j] => i = j
<1>1. Len(Order) \in Nat \ {0} /\ 1 \in 1..Len(Order)
  BY FieldsAssumption
<1>2. /\ Strategy \in Fields /\ Tick \in Fields /\ Order[1] = Strategy
      /\ \A i, j \in 1..Len(Order) : Order[i] = Order[j] => i = j
  BY FieldsAssumption
<1>3. /\ \A i \in 1..Len(Order) : Order[i] \in Fields
      /\ \A f \in Fields : \E i \in 1..Len(Order) : Order[i] = f
  BY DEF Fields
<1> QED
  BY <1>1, <1>2, <1>3

\* A set of positions has a first one, and CHOOSE finds it.
LEMMA FirstField ==
  ASSUME NEW S \in SUBSET (1..Len(Order)), S # {},
         NEW m, m = CHOOSE i \in S : \A j \in S : i <= j
  PROVE  m \in S /\ \A j \in S : m <= j
<1> DEFINE Upto(x) == {y \in S : y <= x}
           T == {Upto(x) : x \in S}
<1>1. IsFiniteSet(S) /\ S \subseteq Nat
  <2>1. IsFiniteSet(1..Len(Order)) /\ 1..Len(Order) \subseteq Nat
    BY OrderFacts, FS_Interval
  <2> QED
    BY <2>1, FS_Subset
<1>2. IsWellFoundedOn(StrictSubsetOrdering(S), SUBSET S)
  BY <1>1, FS_StrictSubsetOrderingWellFounded, FS_FiniteSubsetsOfFinite
<1>3. T \subseteq SUBSET S /\ T # {}
  OBVIOUS
<1>4. PICK D \in T : \A E \in T : <<E, D>> \notin StrictSubsetOrdering(S)
  <2> HIDE DEF T
  <2> QED
    BY <1>2, <1>3, WFMin
<1>5. PICK x \in S : D = Upto(x)
  BY <1>4
<1>6. ASSUME NEW y \in S, y < x PROVE FALSE
  <2>1. Upto(y) \subseteq Upto(x)
    <3> SUFFICES ASSUME NEW z \in S, z <= y PROVE z <= x
      OBVIOUS
    <3>1. x \in Nat /\ y \in Nat /\ z \in Nat
      BY <1>1
    <3> QED
      BY <1>6, <3>1
  <2>2. x \in Upto(x) /\ x \notin Upto(y)
    BY <1>1, <1>6
  <2>3. Upto(y) \in T /\ Upto(y) \in SUBSET S /\ Upto(x) \in SUBSET S
    OBVIOUS
  <2>4. <<Upto(y), Upto(x)>> \in StrictSubsetOrdering(S)
    <3> HIDE DEF Upto
    <3> QED
      BY <2>1, <2>2, <2>3 DEF StrictSubsetOrdering
  <2> QED
    BY <1>4, <1>5, <2>3, <2>4
<1>7. \A j \in S : x <= j
  BY <1>1, <1>6
<1> QED
  BY <1>7

\* A page sends every field.
LEMMA PageSends ==
  ASSUME NEW body \in [Fields -> Nat]
  PROVE  Sent(body) = 1..Len(Order)
BY OrderFacts DEF Sent, Absent

-----------------------------------------------------------------------------
(* What the steps do to the requests.                                      *)

Moves(c, r) == call' = [call EXCEPT ![c] = r]

LEMMA OneCall ==
  ASSUME TypeOK, NEW c \in Callers, NEW r, Moves(c, r)
  PROVE  /\ call'[c] = r
         /\ \A d \in Callers : d # c => call'[d] = call[d]
BY DEF TypeOK, Moves

LEMMA MovesFit ==
  ASSUME TypeOK, CallsFit, NEW c \in Callers, NEW r \in CallRecs, Moves(c, r),
         Fits(r), c \in Admins => PageFits(r)
  PROVE  CallsFit' /\ call' \in [Callers -> CallRecs]
<1>1. /\ call'[c] = r
      /\ \A d \in Callers : d # c => call'[d] = call[d]
  BY OneCall
<1>2. call' \in [Callers -> CallRecs]
  BY DEF TypeOK, Moves, CallRecs
<1>3. \A d \in Callers : Fits(call'[d])
  BY <1>1 DEF CallsFit
<1>4. \A a \in Admins : PageFits(call'[a])
  BY <1>1 DEF CallsFit, Callers
<1> QED
  BY <1>2, <1>3, <1>4 DEF CallsFit, Fits, PageFits

LEMMA Typed == ASSUME TypeOK, NEW c \in Callers PROVE call[c] \in CallRecs
BY DEF TypeOK, CallRecs

\* Goto moves only the program counter.
LEMMA GotoMoves ==
  ASSUME TypeOK, NEW c \in Callers, NEW pc \in Pcs, Goto(c, pc)
  PROVE  \E r \in CallRecs : /\ Moves(c, r)
                             /\ r.pc = pc /\ r.i = call[c].i /\ r.body = call[c].body
<1> DEFINE r == [call[c] EXCEPT !.pc = pc]
<1>1. r \in CallRecs /\ r.pc = pc /\ r.i = call[c].i /\ r.body = call[c].body
  BY Typed DEF CallRecs
<1>2. Moves(c, r)
  BY DEF Goto, Moves
<1> QED
  BY <1>1, <1>2

\* The next field of the body, if there is one, is the first after this one.
LEMMA NextFieldMoves ==
  ASSUME TypeOK, NEW c \in Callers, NextField(c)
  PROVE  \E r \in CallRecs :
           /\ Moves(c, r) /\ r.body = call[c].body
           /\ \/ /\ r.pc = "ok" /\ r.i = call[c].i
                 /\ \A j \in Sent(r.body) : ~(j > r.i)
              \/ /\ r.pc = "apply" /\ r.i \in Sent(r.body) /\ r.i > call[c].i
                 /\ \A j \in Sent(r.body) : j > call[c].i => r.i <= j
<1> DEFINE rest == {i \in Sent(call[c].body) : i > call[c].i}
           m == CHOOSE i \in rest : \A j \in rest : i <= j
           s == [call[c] EXCEPT !.pc = "apply", !.i = m]
<1>1. CASE rest = {}
  <2>1. Goto(c, "ok")
    BY <1>1 DEF NextField
  <2>2. PICK r \in CallRecs : /\ Moves(c, r)
                              /\ r.pc = "ok" /\ r.i = call[c].i /\ r.body = call[c].body
    BY <2>1, GotoMoves DEF Pcs
  <2> QED
    BY <1>1, <2>2
<1>2. CASE rest # {}
  <2>1. rest \in SUBSET (1..Len(Order))
    BY DEF Sent
  <2>2. m \in rest /\ \A j \in rest : m <= j
    <3> HIDE DEF rest
    <3> QED
      BY <1>2, <2>1, FirstField
  <2>3. s \in CallRecs /\ s.pc = "apply" /\ s.i = m /\ s.body = call[c].body
    <3> HIDE DEF m
    <3>1. m \in 1..Len(Order)
      BY <2>1, <2>2
    <3> QED
      BY <3>1, Typed DEF CallRecs, Pcs, HandlerPcs
  <2>4. Moves(c, s)
    BY <1>2 DEF NextField, Moves
  <2> HIDE DEF m, s
  <2> QED
    BY <2>2, <2>3, <2>4
<1> QED
  BY <1>1, <1>2

\* A PUT starts with the first field of its body.
LEMMA StartMoves ==
  ASSUME TypeOK, NEW c \in Callers, NEW body \in [Fields -> Nat \cup {Absent}],
         Sent(body) # {}, Start(c, body)
  PROVE  \E r \in CallRecs : /\ Moves(c, r) /\ r.pc = "apply" /\ r.body = body
                             /\ r.i \in Sent(body) /\ \A j \in Sent(body) : r.i <= j
<1> DEFINE m == CHOOSE i \in Sent(body) : \A j \in Sent(body) : i <= j
           r == [pc |-> "apply", body |-> body, i |-> m]
<1>1. Sent(body) \in SUBSET (1..Len(Order))
  BY DEF Sent
<1>2. m \in Sent(body) /\ \A j \in Sent(body) : m <= j
  BY <1>1, FirstField
<1>3. Moves(c, r)
  BY DEF Start, Moves
<1> HIDE DEF m
<1>4. r \in CallRecs
  BY <1>1, <1>2 DEF CallRecs, Pcs, HandlerPcs
<1> QED
  BY <1>2, <1>3, <1>4

-----------------------------------------------------------------------------
(* What a step that leaves a part alone preserves.                         *)

UsedRecs == [edits : 0..MaxEdits, saves : 0..MaxSaves,
             faults : 0..MaxFaults, restarts : 0..MaxRestarts]
HistoryTyped == torn \in BOOLEAN /\ doubt \subseteq Admins /\ used \in UsedRecs

LEMMA SpendFits ==
  ASSUME TypeOK
  PROVE  /\ used.edits < MaxEdits /\ Spend("edits") => used' \in UsedRecs
         /\ used.saves < MaxSaves /\ Spend("saves") => used' \in UsedRecs
         /\ used.faults < MaxFaults /\ Spend("faults") => used' \in UsedRecs
         /\ used.restarts < MaxRestarts /\ Spend("restarts") => used' \in UsedRecs
<1>1. /\ MaxEdits \in Nat /\ MaxSaves \in Nat /\ MaxFaults \in Nat /\ MaxRestarts \in Nat
      /\ used \in UsedRecs
  BY BoundsAssumption DEF TypeOK, UsedRecs
<1>2. ASSUME used.edits < MaxEdits, Spend("edits") PROVE used' \in UsedRecs
  BY <1>1, <1>2 DEF UsedRecs, Spend
<1>3. ASSUME used.saves < MaxSaves, Spend("saves") PROVE used' \in UsedRecs
  BY <1>1, <1>3 DEF UsedRecs, Spend
<1>4. ASSUME used.faults < MaxFaults, Spend("faults") PROVE used' \in UsedRecs
  BY <1>1, <1>4 DEF UsedRecs, Spend
<1>5. ASSUME used.restarts < MaxRestarts, Spend("restarts") PROVE used' \in UsedRecs
  BY <1>1, <1>5 DEF UsedRecs, Spend
<1> QED
  BY <1>2, <1>3, <1>4, <1>5

LEMMA TypeParts ==
  ASSUME TypeOK, call' \in [Callers -> CallRecs], HistoryTyped',
         \/ UNCHANGED server
         \/ /\ config' \in [Fields -> Nat] /\ row' \in [Fields -> Nat \cup {Absent}]
            /\ loop' \in Nat /\ pending' \in Seq(Nat) /\ Len(pending') <= 1 /\ up' \in BOOLEAN,
         \/ UNCHANGED page
         \/ /\ load' \in [Admins -> {"asked", "read", "done", "failed"}]
            /\ got' \in [Admins -> [Fields -> Nat]]
            /\ form' \in [Admins -> [Fields -> Nat]] /\ saved' \in [Admins -> [Fields -> Nat]]
  PROVE  TypeOK'
BY DEF TypeOK, CallRecs, HistoryTyped, UsedRecs, server, page

LEMMA CurrentFrame ==
  ASSUME UNCHANGED <<config, row, up>>
  PROVE  Current' = Current
BY DEF Current, Restored

LEMMA PageFrame ==
  ASSUME NEW a, PageKnows(a), call'[a] = call[a], load'[a] = load[a], got'[a] = got[a],
         saved'[a] = saved[a], Current' = Current
  PROVE  PageKnows(a)'
<1>1. Knows(call'[a], load'[a], got'[a], saved'[a], Current')
  BY Zenon DEF PageKnows
<1> QED
  BY <1>1 DEF PageKnows

LEMMA CopiesFrame ==
  ASSUME CopiesFollow, UNCHANGED server, ~torn' => ~torn,
         \A c \in Callers : \/ call'[c] = call[c]
                            \/ call[c].pc \notin Wrote /\ call'[c].pc \notin Wrote
  PROVE  CopiesFollow'
<1> SUFFICES ASSUME up', ~torn' PROVE Copies'
  BY DEF CopiesFollow
<1>1. Copies
  BY DEF CopiesFollow, server
<1>2. ASSUME NEW c \in Callers PROVE Applied(c)'
  BY <1>1, <1>2 DEF Copies, Applied, Field, Value, server
<1>3. ASSUME NEW f \in Fields PROVE RowFollows(f)'
  <2>1. Restored' = Restored /\ config' = config
    BY DEF Restored, server
  <2>2. \A c \in Callers : (call'[c].pc = "persist" /\ Field(c)' = f) <=>
                           (call[c].pc = "persist" /\ Field(c) = f)
    BY DEF Field, Wrote
  <2> QED
    BY <1>1, <1>3, <2>1, <2>2 DEF Copies, RowFollows
<1>4. TickFollows'
  <2>1. NextTick' = NextTick /\ config' = config
    BY DEF NextTick, server
  <2>2. \A c \in Callers : (call'[c].pc \in Wrote /\ Field(c)' = Tick) <=>
                           (call[c].pc \in Wrote /\ Field(c) = Tick)
    BY DEF Field
  <2> QED
    BY <1>1, <2>1, <2>2 DEF Copies, TickFollows
<1> QED
  BY <1>2, <1>3, <1>4 DEF Copies

\* Steps of a page or of the loop that leave the PUTs alone.
LEMMA QuietControl ==
  ASSUME CallsFit, Control, UNCHANGED <<call, torn>>, doubt \subseteq doubt',
         ~up' => ~up /\ UNCHANGED pending
  PROVE  CallsFit' /\ Control'
<1>1. CallsFit'
  BY DEF CallsFit, Fits, PageFits
<1>2. DownIsQuiet' /\ HandlerAlone' /\ WriterDoubted'
  BY DEF Control, DownIsQuiet, HandlerAlone, WriterDoubted, InHandler
<1> QED
  BY <1>1, <1>2 DEF Control

\* One PUT moves, within its handler or outside it.
LEMMA MovesControl ==
  ASSUME TypeOK, Control, NEW c \in Callers, NEW r, Moves(c, r), torn => torn',
         doubt \subseteq doubt', UNCHANGED up, ~up => UNCHANGED pending,
         r.pc \in HandlerPcs => up /\ (InHandler(c) \/ torn' \/ \A d \in Callers \ {c} : ~InHandler(d)),
         r.pc \in Wrote => Admins \ {c} \subseteq doubt'
  PROVE  Control'
<1>1. /\ call'[c] = r
      /\ \A d \in Callers : d # c => call'[d] = call[d]
  BY OneCall
<1>2. \A d \in Callers : d # c => (InHandler(d)' <=> InHandler(d))
  BY <1>1 DEF InHandler
<1>3. InHandler(c)' => r.pc \in HandlerPcs
  BY <1>1 DEF InHandler
<1>4. DownIsQuiet'
  BY <1>2, <1>3 DEF Control, DownIsQuiet
<1>5. HandlerAlone'
  BY <1>2, <1>3 DEF Control, HandlerAlone
<1>6. WriterDoubted'
  BY <1>1 DEF Control, WriterDoubted
<1> QED
  BY <1>4, <1>5, <1>6 DEF Control

-----------------------------------------------------------------------------
(* The page's GET and its inputs.                                          *)

LEMMA PageStepInv ==
  ASSUME SInv, TypeOK', UNCHANGED <<server, call, torn, doubt>>,
         \A a \in Admins : PageKnows(a) => PageKnows(a)'
  PROVE  SInv'
<1>1. CallsFit' /\ Control'
  BY QuietControl DEF SInv, server
<1>2. CopiesFollow'
  BY CopiesFrame DEF SInv
<1>3. PagesKnow'
  BY DEF SInv, PagesKnow
<1> QED
  BY <1>1, <1>2, <1>3 DEF SInv

LEMMA PageStepTyped ==
  ASSUME TypeOK, call' = call, UNCHANGED <<torn, doubt>>, used' = used \/ used' \in UsedRecs
  PROVE  call' \in [Callers -> CallRecs] /\ HistoryTyped'
BY DEF TypeOK, CallRecs, HistoryTyped, UsedRecs

LEMMA ReadSettingsInv == ASSUME SInv, NEW a \in Admins, ReadSettings(a) PROVE SInv'
<1>1. TypeOK /\ UNCHANGED <<server, call, form, saved, torn, doubt, used>>
  BY DEF SInv, ReadSettings
<1>2. load' = [load EXCEPT ![a] = "read"] /\ got' = [got EXCEPT ![a] = config]
  BY DEF ReadSettings
<1>3. TypeOK'
  <2>1. load' \in [Admins -> {"asked", "read", "done", "failed"}] /\ got' \in [Admins -> [Fields -> Nat]]
    BY <1>1, <1>2 DEF TypeOK
  <2>2. form' \in [Admins -> [Fields -> Nat]] /\ saved' \in [Admins -> [Fields -> Nat]]
    BY <1>1 DEF TypeOK
  <2> QED
    BY <1>1, <2>1, <2>2, PageStepTyped, TypeParts
<1>4. Current' = Current /\ Current = config
  BY <1>1, CurrentFrame DEF ReadSettings, Current, server
<1>5. ASSUME NEW b \in Admins, PageKnows(b) PROVE PageKnows(b)'
  <2>1. CASE b # a
    BY <1>1, <1>2, <1>4, <1>5, <2>1, PageFrame DEF TypeOK
  <2>2. CASE b = a
    <3>1. load[a] = "asked" /\ load'[a] = "read" /\ got'[a] = config /\ call'[a] = call[a]
      BY <1>1, <1>2 DEF ReadSettings, TypeOK
    <3> QED
      BY <1>4, <1>5, <2>2, <3>1 DEF PageKnows, Knows
  <2> QED
    BY <2>1, <2>2
<1> QED
  BY <1>1, <1>3, <1>5, PageStepInv

LEMMA ShowSettingsInv == ASSUME SInv, NEW a \in Admins, ShowSettings(a) PROVE SInv'
<1>1. TypeOK /\ UNCHANGED <<server, call, torn, doubt, used>>
  BY DEF SInv, ShowSettings
<1> DEFINE texts == [f \in Fields |-> StringOf(got[a][f])]
<1>2. /\ load' = [load EXCEPT ![a] = "done"] /\ got' = [got EXCEPT ![a] = Blank]
      /\ form' = [form EXCEPT ![a] = texts] /\ load[a] = "read"
  BY DEF ShowSettings
<1>3. texts \in [Fields -> Nat] /\ \A f \in Fields : ParseInt(texts[f]) = got[a][f]
  <2>1. \A f \in Fields : got[a][f] \in Nat
    BY <1>1 DEF TypeOK
  <2>2. \A f \in Fields : texts[f] = StringOf(got[a][f])
    OBVIOUS
  <2>3. \A f \in Fields : texts[f] \in Nat /\ ParseInt(texts[f]) = got[a][f]
    BY <2>1, <2>2, Parsing
  <2> QED
    BY <2>3
<1> HIDE DEF texts
<1>4. saved' = [saved EXCEPT ![a] = texts]
  <2>1. form'[a] = texts
    BY <1>1, <1>2 DEF TypeOK
  <2> QED
    BY <2>1 DEF ShowSettings
<1>5. TypeOK'
  <2>1. /\ load' \in [Admins -> {"asked", "read", "done", "failed"}]
        /\ got' \in [Admins -> [Fields -> Nat]]
    BY <1>1, <1>2 DEF TypeOK, Blank
  <2>2. form' \in [Admins -> [Fields -> Nat]] /\ saved' \in [Admins -> [Fields -> Nat]]
    BY <1>1, <1>2, <1>3, <1>4 DEF TypeOK
  <2> QED
    BY <1>1, <2>1, <2>2, PageStepTyped, TypeParts
<1>6. Current' = Current
  BY <1>1, CurrentFrame DEF server
<1>7. ASSUME NEW b \in Admins, PageKnows(b) PROVE PageKnows(b)'
  <2>1. CASE b # a
    BY <1>1, <1>2, <1>4, <1>6, <1>7, <2>1, PageFrame DEF TypeOK
  <2>2. CASE b = a
    <3>1. load'[a] = "done" /\ saved'[a] = texts /\ call'[a] = call[a]
      BY <1>1, <1>2, <1>4 DEF TypeOK
    <3>2. call[a].pc = "idle" /\ got[a] = Current
      BY <1>2, <1>7, <2>2 DEF PageKnows, Knows
    <3> QED
      BY <1>3, <1>6, <2>2, <3>1, <3>2 DEF PageKnows, Knows, HandlerPcs
  <2> QED
    BY <2>1, <2>2
<1> QED
  BY <1>1, <1>5, <1>7, PageStepInv

LEMMA LoadFailsInv == ASSUME SInv, NEW a \in Admins, LoadFails(a) PROVE SInv'
<1>1. TypeOK /\ UNCHANGED <<server, call, form, saved, torn, doubt>> /\ used' \in UsedRecs
  BY SpendFits DEF SInv, LoadFails
<1>2. load' = [load EXCEPT ![a] = "failed"] /\ got' = [got EXCEPT ![a] = Blank]
  BY DEF LoadFails
<1>3. TypeOK'
  <2>1. load' \in [Admins -> {"asked", "read", "done", "failed"}] /\ got' \in [Admins -> [Fields -> Nat]]
    BY <1>1, <1>2 DEF TypeOK, Blank
  <2>2. form' \in [Admins -> [Fields -> Nat]] /\ saved' \in [Admins -> [Fields -> Nat]]
    BY <1>1 DEF TypeOK
  <2> QED
    BY <1>1, <2>1, <2>2, PageStepTyped, TypeParts
<1>4. Current' = Current
  BY <1>1, CurrentFrame DEF server
<1>5. ASSUME NEW b \in Admins, PageKnows(b) PROVE PageKnows(b)'
  <2>1. CASE b # a
    BY <1>1, <1>2, <1>4, <1>5, <2>1, PageFrame DEF TypeOK
  <2>2. CASE b = a
    <3>1. load'[a] = "failed"
      BY <1>1, <1>2 DEF TypeOK
    <3> QED
      BY <2>2, <3>1 DEF PageKnows, Knows
  <2> QED
    BY <2>1, <2>2
<1> QED
  BY <1>1, <1>3, <1>5, PageStepInv

LEMMA EditInv ==
  ASSUME SInv, NEW a \in Admins, NEW f \in Fields, NEW text \in Texts[f], Edit(a, f, text)
  PROVE  SInv'
<1>1. TypeOK /\ UNCHANGED <<server, call, load, got, saved, torn, doubt>> /\ used' \in UsedRecs
  BY SpendFits DEF SInv, Edit
<1>2. TypeOK'
  <2>1. text \in Nat
    BY ValuesAssumption
  <2>2. form' \in [Admins -> [Fields -> Nat]]
    BY <1>1, <2>1 DEF Edit, TypeOK
  <2>3. /\ load' \in [Admins -> {"asked", "read", "done", "failed"}]
        /\ got' \in [Admins -> [Fields -> Nat]] /\ saved' \in [Admins -> [Fields -> Nat]]
    BY <1>1 DEF TypeOK
  <2> QED
    BY <1>1, <2>2, <2>3, PageStepTyped, TypeParts
<1>3. Current' = Current
  BY <1>1, CurrentFrame DEF server
<1>4. \A b \in Admins : PageKnows(b) => PageKnows(b)'
  BY <1>1, <1>3, PageFrame
<1> QED
  BY <1>1, <1>2, <1>4, PageStepInv

-----------------------------------------------------------------------------
(* A PUT is sent, and its answer comes back or does not.                   *)

\* A request outside the handler, before the step and unless it starts after
\* it, changes nothing of the copies.
LEMMA OutsideInv ==
  ASSUME SInv, NEW c \in Callers, NEW r \in CallRecs, Moves(c, r),
         Fits(r), c \in Admins => PageFits(r), HistoryTyped',
         UNCHANGED <<server, load, got, form>>,
         saved' \in [Admins -> [Fields -> Nat]],
         \A b \in Admins \ {c} : saved'[b] = saved[b],
         torn => torn', doubt \subseteq doubt',
         call[c].pc \notin HandlerPcs, r.pc \notin Wrote,
         r.pc = "apply" => up /\ (torn' \/ \A d \in Callers \ {c} : ~InHandler(d)),
         c \in Admins \ doubt' /\ ~torn' /\ PageKnows(c) => PageKnows(c)'
  PROVE  SInv'
<1>1. TypeOK /\ UNCHANGED <<config, row, loop, pending, up>>
  BY DEF SInv, server
<1>2. CallsFit' /\ call' \in [Callers -> CallRecs]
  BY MovesFit DEF SInv
<1>3. TypeOK'
  BY <1>1, <1>2, TypeParts DEF TypeOK
<1>4. Control'
  <2>1. r.pc \in HandlerPcs => r.pc = "apply"
    BY DEF HandlerPcs, Wrote
  <2> QED
    BY <1>1, <2>1, MovesControl DEF SInv
<1>5. /\ call'[c] = r
      /\ \A d \in Callers : d # c => call'[d] = call[d]
  BY <1>1, OneCall
<1>6. CopiesFollow'
  <2>1. call[c].pc \notin Wrote
    BY DEF Wrote, HandlerPcs
  <2> QED
    BY <1>5, <2>1, CopiesFrame DEF SInv
<1>7. Current' = Current
  BY <1>1, CurrentFrame
<1>8. ASSUME NEW b \in Admins \ doubt', ~torn' PROVE PageKnows(b)'
  <2>1. PageKnows(b)
    BY <1>8 DEF SInv, PagesKnow
  <2>2. CASE b = c
    BY <1>8, <2>1, <2>2
  <2>3. CASE b # c
    <3>1. call'[b] = call[b] /\ load'[b] = load[b] /\ got'[b] = got[b] /\ saved'[b] = saved[b]
      BY <1>5, <2>3 DEF Callers
    <3> QED
      BY <1>7, <2>1, <3>1, PageFrame
  <2> QED
    BY <2>2, <2>3
<1> QED
  BY <1>2, <1>3, <1>4, <1>6, <1>8 DEF SInv, PagesKnow

LEMMA SaveInv == ASSUME SInv, NEW a \in Admins, Save(a) PROVE SInv'
<1>1. /\ TypeOK /\ a \in Callers /\ UNCHANGED <<server, page>> /\ Start(a, form[a])
      /\ call[a].pc = "idle" /\ up /\ Validated(a)
  BY DEF SInv, Callers, Save, Saving
<1>2. form[a] \in [Fields -> Nat]
  BY <1>1 DEF TypeOK
<1>3. Sent(form[a]) = 1..Len(Order) /\ Sent(form[a]) # {}
  BY <1>2, PageSends, OrderFacts
<1>4. PICK r \in CallRecs : /\ Moves(a, r) /\ r.pc = "apply" /\ r.body = form[a]
                            /\ r.i \in Sent(form[a]) /\ \A j \in Sent(form[a]) : r.i <= j
  <2>1. PICK body : body = form[a]
    OBVIOUS
  <2>2. body \in [Fields -> Nat \cup {Absent}] /\ Sent(body) # {} /\ Start(a, body)
    BY <1>1, <1>2, <1>3, <2>1
  <2> QED
    BY <1>1, <2>1, <2>2, StartMoves
<1>5. r.i = 1
  BY <1>3, <1>4, OrderFacts
<1>6. Fits(r) /\ PageFits(r)
  BY <1>1, <1>2, <1>4 DEF Fits, PageFits, Wrote, Validated
<1>7. HistoryTyped' /\ torn' = (torn \/ \E d \in Callers \ {a} : InHandler(d))
  <2>1. used' \in UsedRecs /\ torn' = (torn \/ \E d \in Callers \ {a} : InHandler(d))
    BY <1>1, SpendFits DEF Start
  <2>2. doubt' \subseteq Admins
    BY <1>1 DEF Save, TypeOK
  <2> QED
    BY <1>1, <2>1, <2>2 DEF HistoryTyped, TypeOK
<1>8. doubt \subseteq doubt' /\ (a \notin doubt' => load[a] \notin {"asked", "read"})
  BY DEF Save
<1>9. ASSUME a \notin doubt', PageKnows(a) PROVE PageKnows(a)'
  <2>1. call'[a] = r /\ load'[a] = load[a] /\ saved'[a] = saved[a]
    BY <1>1, <1>4, OneCall DEF page
  <2>2. Current' = Current
    BY <1>1, CurrentFrame DEF server
  <2>3. ASSUME NEW j \in 1..Len(Order) PROVE ~Reached(r, j)
    BY <1>4, <1>5, <2>3, OrderFacts DEF Reached
  <2>4. load[a] = "done" => \A f \in Fields : ParseInt(saved[a][f]) = Current[f]
    BY <1>1, <1>9 DEF PageKnows, Knows
  <2>5. load[a] = "done" =>
          \A j \in 1..Len(Order) : Current[Order[j]] = ParseInt(saved[a][Order[j]])
    BY <2>4, OrderFacts
  <2> QED
    BY <1>4, <1>8, <1>9, <2>1, <2>2, <2>3, <2>5 DEF PageKnows, Knows
<1>10. UNCHANGED <<load, got, form, saved>> /\ saved' \in [Admins -> [Fields -> Nat]]
  BY <1>1 DEF page, TypeOK
<1> QED
  BY <1>1, <1>4, <1>6, <1>7, <1>8, <1>9, <1>10, OutsideInv DEF Wrote, HandlerPcs

LEMMA PutOneInv ==
  ASSUME SInv, NEW f \in Fields, NEW v \in Puts[f], PutOne(f, v)
  PROVE  SInv'
<1> DEFINE body == [g \in Fields |-> IF g = f THEN StringOf(v) ELSE Absent]
<1>1. /\ TypeOK /\ Script \in Callers /\ UNCHANGED <<server, page, doubt>> /\ Start(Script, body)
      /\ call[Script].pc = "idle" /\ up
  BY DEF SInv, Callers, PutOne, Saving
<1>2. body \in [Fields -> Nat \cup {Absent}] /\ body[f] \in Nat
  BY ValuesAssumption, Parsing
<1> HIDE DEF body
<1>3. Sent(body) # {}
  <2>1. PICK i \in 1..Len(Order) : Order[i] = f
    BY OrderFacts
  <2> QED
    BY <1>2, <2>1 DEF Sent, Absent
<1>4. PICK r \in CallRecs : /\ Moves(Script, r) /\ r.pc = "apply" /\ r.body = body
                            /\ r.i \in Sent(body) /\ \A j \in Sent(body) : r.i <= j
  BY <1>1, <1>2, <1>3, StartMoves
<1>5. Fits(r)
  BY <1>4 DEF Fits, Wrote
<1>6. HistoryTyped' /\ torn' = (torn \/ \E d \in Callers \ {Script} : InHandler(d))
  <2>1. used' \in UsedRecs /\ torn' = (torn \/ \E d \in Callers \ {Script} : InHandler(d))
    BY <1>1, SpendFits DEF Start
  <2> QED
    BY <1>1, <2>1 DEF HistoryTyped, TypeOK
<1>7. UNCHANGED <<load, got, form, saved>> /\ saved' \in [Admins -> [Fields -> Nat]]
  BY <1>1 DEF page, TypeOK
<1> QED
  BY <1>1, <1>4, <1>5, <1>6, <1>7, ScriptIsNoPage, OutsideInv DEF Wrote, HandlerPcs

\* What an idle call looks like.
LEMMA IdleFits == Idle \in CallRecs /\ Idle.pc = "idle" /\ Fits(Idle) /\ PageFits(Idle)
<1>1. Idle \in CallRecs /\ Idle.pc = "idle"
  BY OrderFacts DEF Idle, CallRecs, Pcs
<1> QED
  BY <1>1 DEF Fits, PageFits, HandlerPcs, Wrote

LEMMA SaveLandsInv == ASSUME SInv, NEW a \in Admins, SaveLands(a) PROVE SInv'
<1>1. /\ TypeOK /\ a \in Callers /\ Moves(a, Idle) /\ call[a].pc = "ok"
      /\ UNCHANGED <<server, load, got, form, torn, doubt, used>>
      /\ saved' = [saved EXCEPT ![a] = call[a].body]
  BY DEF SInv, Callers, SaveLands, Moves
<1>2. call[a].body \in [Fields -> Nat]
  BY <1>1 DEF SInv, CallsFit, PageFits
<1>3. /\ saved' \in [Admins -> [Fields -> Nat]] /\ saved'[a] = call[a].body
      /\ \A b \in Admins \ {a} : saved'[b] = saved[b]
  BY <1>1, <1>2 DEF TypeOK
<1>4. HistoryTyped'
  BY <1>1 DEF HistoryTyped, TypeOK, UsedRecs
<1>5. ASSUME PageKnows(a) PROVE PageKnows(a)'
  <2>1. call'[a] = Idle /\ load'[a] = load[a]
    BY <1>1, OneCall
  <2>2. Current' = Current
    BY <1>1, CurrentFrame DEF server
  <2>3. /\ load[a] \notin {"asked", "read"}
        /\ load[a] = "done" => \A f \in Fields : ParseInt(call[a].body[f]) = Current[f]
    BY <1>1, <1>5 DEF PageKnows, Knows
  <2> QED
    BY <1>3, <2>1, <2>2, <2>3, IdleFits DEF PageKnows, Knows, HandlerPcs
<1> QED
  BY <1>1, <1>3, <1>4, <1>5, IdleFits, OutsideInv DEF Wrote, HandlerPcs

LEMMA SaveFailsInv == ASSUME SInv, NEW a \in Admins, SaveFails(a) PROVE SInv'
<1>1. /\ TypeOK /\ a \in Callers /\ Moves(a, Idle) /\ call[a].pc \in {"refused", "lost"}
      /\ UNCHANGED <<server, page, torn, used>>
      /\ doubt' = IF call[a].pc = "lost" THEN doubt \cup {a} ELSE doubt
  BY DEF SInv, Callers, SaveFails, Moves
<1>2. UNCHANGED <<load, got, form, saved>> /\ saved' \in [Admins -> [Fields -> Nat]]
  BY <1>1 DEF page, TypeOK
<1>3. HistoryTyped'
  BY <1>1 DEF HistoryTyped, TypeOK, UsedRecs
<1>4. ASSUME a \notin doubt', PageKnows(a) PROVE PageKnows(a)'
  <2>1. call'[a] = Idle /\ load'[a] = load[a] /\ saved'[a] = saved[a]
    BY <1>1, <1>2, OneCall
  <2>2. Current' = Current
    BY <1>1, CurrentFrame DEF server
  <2>3. call[a].pc = "refused"
    BY <1>1, <1>4
  <2>4. /\ load[a] \notin {"asked", "read"}
        /\ load[a] = "done" => \A f \in Fields : ParseInt(saved[a][f]) = Current[f]
    BY <1>4, <2>3 DEF PageKnows, Knows
  <2> QED
    BY <2>1, <2>2, <2>4, IdleFits DEF PageKnows, Knows, HandlerPcs
<1>5. call[a].pc \notin HandlerPcs /\ doubt \subseteq doubt'
  BY <1>1 DEF HandlerPcs
<1> QED
  BY <1>1, <1>2, <1>3, <1>4, <1>5, IdleFits, OutsideInv DEF Wrote, HandlerPcs

LEMMA ScriptEndsInv == ASSUME SInv, ScriptEnds PROVE SInv'
<1>1. /\ TypeOK /\ Script \in Callers /\ Moves(Script, Idle)
      /\ call[Script].pc \in {"ok", "refused", "lost"}
      /\ UNCHANGED <<server, page, torn, doubt, used>>
  BY DEF SInv, Callers, ScriptEnds, Moves
<1>2. UNCHANGED <<load, got, form, saved>> /\ saved' \in [Admins -> [Fields -> Nat]]
  BY <1>1 DEF page, TypeOK
<1>3. HistoryTyped'
  BY <1>1 DEF HistoryTyped, TypeOK, UsedRecs
<1>4. call[Script].pc \notin HandlerPcs
  BY <1>1 DEF HandlerPcs
<1> QED
  BY <1>1, <1>2, <1>3, <1>4, IdleFits, ScriptIsNoPage, OutsideInv DEF Wrote, HandlerPcs

LEMMA LoseAnswerInv == ASSUME SInv, NEW c \in Callers, LoseAnswer(c) PROVE SInv'
<1>1. /\ TypeOK /\ call[c].pc \in {"ok", "refused"}
      /\ UNCHANGED <<server, page, torn, doubt>> /\ Goto(c, "lost")
  BY DEF SInv, LoseAnswer
<1>2. PICK r \in CallRecs : /\ Moves(c, r)
                            /\ r.pc = "lost" /\ r.i = call[c].i /\ r.body = call[c].body
  BY <1>1, GotoMoves DEF Pcs
<1>3. Fits(r) /\ (c \in Admins => PageFits(r))
  BY <1>1, <1>2 DEF Fits, Wrote, HandlerPcs, PageFits, SInv, CallsFit
<1>4. UNCHANGED <<load, got, form, saved>> /\ saved' \in [Admins -> [Fields -> Nat]]
  BY <1>1 DEF page, TypeOK
<1>5. HistoryTyped'
  <2>1. used' \in UsedRecs
    BY <1>1, SpendFits DEF LoseAnswer
  <2> QED
    BY <1>1, <2>1 DEF HistoryTyped, TypeOK
<1>6. ASSUME PageKnows(c), c \in Admins PROVE PageKnows(c)'
  <2>1. call'[c] = r /\ load'[c] = load[c]
    BY <1>1, <1>2, <1>4, OneCall
  <2>2. load[c] \notin {"asked", "read"}
    BY <1>1, <1>6 DEF PageKnows, Knows
  <2> QED
    BY <1>2, <2>1, <2>2 DEF PageKnows, Knows, HandlerPcs
<1>7. call[c].pc \notin HandlerPcs
  BY <1>1 DEF HandlerPcs
<1> QED
  BY <1>1, <1>2, <1>3, <1>4, <1>5, <1>6, <1>7, OutsideInv DEF Wrote

-----------------------------------------------------------------------------
(* The handler.                                                            *)

LEMMA HandlerFacts ==
  ASSUME SInv, NEW c \in Callers, InHandler(c)
  PROVE  /\ up /\ call[c].i \in 1..Len(Order) /\ Field(c) \in Fields
         /\ call[c].pc \in Wrote => Value(c) \in Nat /\ InRange(Field(c), Value(c))
         /\ ~torn => \A d \in Callers : d # c => call[d].pc \notin HandlerPcs
         /\ ~torn => Copies
<1>1. TypeOK /\ call[c] \in CallRecs
  BY Typed DEF SInv
<1>2. up
  BY DEF SInv, Control, DownIsQuiet
<1>3. call[c].i \in 1..Len(Order) /\ Field(c) \in Fields
  BY <1>1, OrderFacts DEF CallRecs, Field
<1>4. ASSUME call[c].pc \in Wrote PROVE Value(c) \in Nat /\ InRange(Field(c), Value(c))
  <2>1. InRange(Field(c), Value(c))
    BY <1>4 DEF SInv, CallsFit, Fits, Field, Value
  <2>2. Hi[Field(c)] \in Nat
    BY <1>3, ValuesAssumption
  <2> QED
    BY <2>1, <2>2 DEF InRange
<1>5. ~torn => \A d \in Callers : d # c => call[d].pc \notin HandlerPcs
  BY DEF SInv, Control, HandlerAlone, InHandler
<1>6. ~torn => Copies
  BY <1>2 DEF SInv, CopiesFollow
<1> QED
  BY <1>2, <1>3, <1>4, <1>5, <1>6

\* After a field of a page comes the next, or all are done.
LEMMA NextFieldOfPage ==
  ASSUME SInv, NEW a \in Admins, InHandler(a), NEW r \in CallRecs, r.body = call[a].body,
         \/ /\ r.pc = "ok" /\ r.i = call[a].i
            /\ \A j \in Sent(r.body) : ~(j > r.i)
         \/ /\ r.pc = "apply" /\ r.i \in Sent(r.body) /\ r.i > call[a].i
            /\ \A j \in Sent(r.body) : j > call[a].i => r.i <= j
  PROVE  \/ r.pc = "ok" /\ call[a].i = Len(Order)
         \/ r.pc = "apply" /\ r.i = call[a].i + 1
<1>1. call[a].i \in 1..Len(Order)
  BY HandlerFacts DEF Callers
<1>2. Sent(r.body) = 1..Len(Order)
  <2>1. r.body \in [Fields -> Nat]
    BY DEF SInv, CallsFit, PageFits, InHandler, HandlerPcs
  <2> QED
    BY <2>1, PageSends
<1>3. CASE r.pc = "ok"
  <2>1. r.i = call[a].i /\ \A j \in 1..Len(Order) : ~(j > r.i)
    BY <1>2, <1>3
  <2>2. Len(Order) \in 1..Len(Order)
    BY OrderFacts
  <2> QED
    BY <1>1, <1>3, <2>1, <2>2, OrderFacts
<1>4. CASE r.pc = "apply"
  <2>1. /\ r.i \in 1..Len(Order) /\ r.i > call[a].i
        /\ \A j \in 1..Len(Order) : j > call[a].i => r.i <= j
    BY <1>2, <1>4
  <2>2. PICK i \in Nat, n \in Nat : i = call[a].i /\ n = Len(Order)
    BY <1>1, OrderFacts
  <2>3. i + 1 \in 1..n
    BY <1>1, <2>1, <2>2
  <2>4. r.i <= i + 1
    BY <2>1, <2>2, <2>3
  <2>5. r.i = i + 1
    BY <2>1, <2>2, <2>4
  <2> QED
    BY <1>4, <2>2, <2>5
<1> QED
  BY <1>3, <1>4

\* Where a step that has applied the field already leaves the PUT.
Onward(c, r) ==
  /\ r.body = call[c].body
  /\ \/ r.pc \in Wrote /\ r.i = call[c].i
     \/ /\ r.pc = "ok" /\ r.i = call[c].i
        /\ \A j \in Sent(r.body) : ~(j > r.i)
     \/ /\ r.pc = "apply" /\ r.i \in Sent(r.body) /\ r.i > call[c].i
        /\ \A j \in Sent(r.body) : j > call[c].i => r.i <= j

LEMMA OnwardPage ==
  ASSUME SInv, NEW a \in Admins, call[a].pc \in Wrote, NEW r \in CallRecs, Moves(a, r),
         Onward(a, r), UNCHANGED page, Current' = Current, PageKnows(a)
  PROVE  PageKnows(a)'
<1>1. TypeOK /\ a \in Callers /\ call[a].pc \in HandlerPcs
  BY DEF SInv, Callers, Wrote, HandlerPcs
<1>2. call'[a] = r /\ load'[a] = load[a] /\ saved'[a] = saved[a]
  BY <1>1, OneCall DEF page
<1>3. load[a] \notin {"asked", "read"}
  BY <1>1 DEF PageKnows, Knows, HandlerPcs
<1>4. call[a].i \in 1..Len(Order)
  BY <1>1, HandlerFacts DEF InHandler
<1>5. \/ r.pc \in Wrote /\ r.i = call[a].i
      \/ r.pc = "ok" /\ call[a].i = Len(Order)
      \/ r.pc = "apply" /\ r.i = call[a].i + 1
  BY <1>1, NextFieldOfPage DEF Onward, InHandler
<1>6. load[a] = "done" =>
        \A j \in 1..Len(Order) :
          Current[Order[j]] = ParseInt(IF Reached(call[a], j) THEN call[a].body[Order[j]]
                                       ELSE saved[a][Order[j]])
  BY <1>1 DEF PageKnows, Knows
<1>7. CASE r.pc = "ok" /\ call[a].i = Len(Order)
  <2>1. ASSUME NEW j \in 1..Len(Order) PROVE Reached(call[a], j)
    BY <1>7, <2>1, OrderFacts DEF Reached, Wrote
  <2>2. load[a] = "done" =>
          \A j \in 1..Len(Order) : Current[Order[j]] = ParseInt(call[a].body[Order[j]])
    BY <1>6, <2>1
  <2>3. load[a] = "done" => \A f \in Fields : Current[f] = ParseInt(call[a].body[f])
    BY <2>2, OrderFacts
  <2> QED
    BY <1>2, <1>3, <1>7, <2>3 DEF PageKnows, Knows, HandlerPcs, Onward
<1>8. CASE r.pc # "ok"
  <2>1. ASSUME NEW j \in 1..Len(Order) PROVE Reached(r, j) <=> Reached(call[a], j)
    <3>1. call[a].i \in Nat /\ j \in Nat
      BY <1>4, <2>1, OrderFacts
    <3>2. CASE r.pc \in Wrote /\ r.i = call[a].i
      BY <3>2 DEF Reached, Wrote
    <3>3. CASE r.pc = "apply" /\ r.i = call[a].i + 1
      BY <3>1, <3>3 DEF Reached, Wrote
    <3> QED
      BY <1>5, <1>8, <3>2, <3>3
  <2>2. load[a] = "done" =>
          \A j \in 1..Len(Order) :
            Current[Order[j]] = ParseInt(IF Reached(r, j) THEN r.body[Order[j]]
                                         ELSE saved[a][Order[j]])
    BY <1>6, <2>1 DEF Onward
  <2>3. r.pc \notin {"idle", "refused", "ok"}
    BY <1>5, <1>8 DEF Wrote
  <2> QED
    BY <1>2, <1>3, <2>2, <2>3 DEF PageKnows, Knows
<1> QED
  BY <1>5, <1>7, <1>8 DEF Wrote

\* A step past the setter that leaves the configuration alone.
LEMMA OnwardInv ==
  ASSUME SInv, NEW c \in Callers, call[c].pc \in Wrote, NEW r \in CallRecs, Moves(c, r),
         Onward(c, r), r.pc \in {"offer", "drain", "send"} => Field(c) = Tick,
         UNCHANGED <<config, up, page, doubt>>,
         row' \in [Fields -> Nat \cup {Absent}], loop' \in Nat,
         pending' \in Seq(Nat), Len(pending') <= 1,
         torn' \in BOOLEAN, torn => torn', used' \in UsedRecs, CopiesFollow'
  PROVE  SInv'
<1>1. TypeOK /\ InHandler(c)
  BY DEF SInv, InHandler, Wrote, HandlerPcs
<1>2. up
  BY <1>1, HandlerFacts
<1>3. Fits(r) /\ (c \in Admins => PageFits(r))
  <2>1. Fits(r)
    BY DEF SInv, CallsFit, Fits, Onward, Wrote, HandlerPcs, Field
  <2>2. ASSUME c \in Admins PROVE PageFits(r)
    BY <2>2 DEF SInv, CallsFit, PageFits, Onward, Wrote
  <2> QED
    BY <2>1, <2>2
<1>4. CallsFit' /\ call' \in [Callers -> CallRecs]
  BY <1>1, <1>3, MovesFit DEF SInv
<1>5. TypeOK'
  <2>1. config' \in [Fields -> Nat] /\ up' \in BOOLEAN /\ doubt' \subseteq Admins
    BY <1>1 DEF TypeOK
  <2> QED
    BY <1>1, <1>4, <2>1, TypeParts DEF HistoryTyped
<1>6. Control'
  <2>1. r.pc \in Wrote => Admins \ {c} \subseteq doubt'
    BY DEF SInv, Control, WriterDoubted
  <2> QED
    BY <1>1, <1>2, <2>1, MovesControl DEF SInv
<1>7. Current' = Current
  BY <1>2 DEF Current
<1>8. ASSUME NEW b \in Admins \ doubt', ~torn' PROVE PageKnows(b)'
  <2>1. PageKnows(b)
    BY <1>8 DEF SInv, PagesKnow
  <2>2. CASE b = c
    BY <1>7, <2>1, <2>2, OnwardPage
  <2>3. CASE b # c
    <3>1. call'[b] = call[b] /\ load'[b] = load[b] /\ got'[b] = got[b] /\ saved'[b] = saved[b]
      BY <1>1, <2>3, OneCall DEF Callers, page
    <3> QED
      BY <1>7, <2>1, <3>1, PageFrame
  <2> QED
    BY <2>2, <2>3
<1> QED
  BY <1>4, <1>5, <1>6, <1>8 DEF SInv, PagesKnow

LEMMA ApplyInv == ASSUME SInv, NEW c \in Callers, Apply(c) PROVE SInv'
<1>1. /\ TypeOK /\ InHandler(c) /\ call[c].pc = "apply"
      /\ UNCHANGED <<row, loop, pending, up, page, torn, used>>
  BY DEF SInv, Apply, InHandler, HandlerPcs
<1>2. /\ up /\ call[c].i \in 1..Len(Order) /\ Field(c) \in Fields
      /\ ~torn => \A d \in Callers : d # c => call[d].pc \notin HandlerPcs
      /\ ~torn => Copies
  BY <1>1, HandlerFacts
<1>3. CASE InRange(Field(c), Value(c))
  <2>1. /\ config' = [config EXCEPT ![Field(c)] = Value(c)]
        /\ doubt' = doubt \cup (Admins \ {c}) /\ Goto(c, "persist")
    BY <1>3 DEF Apply
  <2>2. PICK r \in CallRecs : /\ Moves(c, r)
                              /\ r.pc = "persist" /\ r.i = call[c].i /\ r.body = call[c].body
    BY <1>1, <2>1, GotoMoves DEF Pcs, HandlerPcs
  <2>3. /\ call'[c] = r
        /\ \A d \in Callers : d # c => call'[d] = call[d]
    BY <1>1, <2>2, OneCall
  <2>4. Fits(r) /\ (c \in Admins => PageFits(r))
    <3>1. Fits(r)
      BY <1>1, <1>3, <2>2 DEF SInv, CallsFit, Fits, Field, Value, HandlerPcs
    <3>2. ASSUME c \in Admins PROVE PageFits(r)
      BY <1>1, <2>2, <3>2 DEF SInv, CallsFit, PageFits
    <3> QED
      BY <3>1, <3>2
  <2>5. CallsFit' /\ call' \in [Callers -> CallRecs]
    BY <1>1, <2>2, <2>4, MovesFit DEF SInv
  <2>6. Value(c) \in Nat /\ config' \in [Fields -> Nat]
    <3>1. Value(c) \in Nat
      BY <1>2, <1>3, ValuesAssumption DEF InRange
    <3> QED
      BY <1>1, <2>1, <3>1 DEF TypeOK
  <2>7. TypeOK'
    <3>1. doubt' \subseteq Admins
      BY <1>1, <2>1 DEF TypeOK
    <3>2. /\ row' \in [Fields -> Nat \cup {Absent}] /\ loop' \in Nat /\ pending' \in Seq(Nat)
          /\ Len(pending') <= 1 /\ up' \in BOOLEAN /\ torn' \in BOOLEAN /\ used' \in UsedRecs
      BY <1>1 DEF TypeOK, UsedRecs
    <3> QED
      BY <1>1, <2>5, <2>6, <3>1, <3>2, TypeParts DEF HistoryTyped
  <2>8. Control'
    BY <1>1, <1>2, <2>1, <2>2, MovesControl DEF SInv
  <2>9. Field(c)' = Field(c) /\ Value(c)' = Value(c) /\ config'[Field(c)] = Value(c)
        /\ \A f \in Fields : f # Field(c) => config'[f] = config[f]
    BY <1>1, <1>2, <2>1, <2>2, <2>3 DEF Field, Value, TypeOK
  <2>10. CopiesFollow'
    <3> SUFFICES ASSUME ~torn' PROVE Copies'
      BY DEF CopiesFollow
    <3>1. Copies /\ \A d \in Callers : d # c => call[d].pc \notin HandlerPcs
      BY <1>1, <1>2
    <3>2. \A d \in Callers : d # c => call'[d].pc \notin Wrote
      BY <2>3, <3>1 DEF Wrote, HandlerPcs
    <3>3. \A d \in Callers : Applied(d)'
      BY <2>9, <3>2 DEF Applied
    <3>4. \A d \in Callers : call[d].pc \notin Wrote
      BY <1>1, <3>1 DEF Wrote, HandlerPcs
    <3>5. call'[c].pc = "persist"
      BY <2>2, <2>3
    <3>6. ASSUME NEW f \in Fields PROVE RowFollows(f)'
      <4>1. Restored' = Restored
        BY <1>1 DEF Restored
      <4>2. config[f] = Restored[f]
        BY <3>1, <3>4 DEF Copies, RowFollows, Wrote
      <4> QED
        BY <2>9, <3>5, <3>6, <4>1, <4>2 DEF RowFollows
    <3>7. TickFollows'
      <4>1. NextTick' = NextTick
        BY <1>1 DEF NextTick
      <4>2. config[Tick] = NextTick
        BY <3>1, <3>4 DEF Copies, TickFollows
      <4> QED
        BY <2>9, <3>5, <4>1, <4>2, OrderFacts DEF TickFollows, Wrote
    <3> QED
      BY <3>3, <3>6, <3>7 DEF Copies
  <2>11. ASSUME NEW b \in Admins \ doubt', ~torn' PROVE PageKnows(b)'
    <3>1. b = c /\ PageKnows(c)
      BY <1>1, <2>1, <2>11 DEF SInv, PagesKnow
    <3>2. load'[c] = load[c] /\ saved'[c] = saved[c] /\ load[c] \notin {"asked", "read"}
      BY <1>1, <3>1 DEF PageKnows, Knows, page
    <3>3. Current = config /\ Current' = config'
      BY <1>1, <1>2 DEF Current
    <3>4. ASSUME load[c] = "done", NEW j \in 1..Len(Order)
          PROVE  config'[Order[j]] = ParseInt(IF Reached(r, j) THEN r.body[Order[j]]
                                              ELSE saved[c][Order[j]])
      <4>1. config[Order[j]] = ParseInt(IF Reached(call[c], j) THEN call[c].body[Order[j]]
                                        ELSE saved[c][Order[j]])
        BY <1>1, <3>1, <3>3, <3>4 DEF PageKnows, Knows, HandlerPcs
      <4>2. CASE j = call[c].i
        BY <2>2, <2>9, <4>2 DEF Reached, Field, Value
      <4>3. CASE j # call[c].i
        <5>1. Order[j] # Field(c) /\ Order[j] \in Fields
          BY <1>2, <4>3, OrderFacts DEF Field
        <5>2. Reached(r, j) <=> Reached(call[c], j)
          BY <2>2, <4>3 DEF Reached
        <5> QED
          BY <2>2, <2>9, <4>1, <5>1, <5>2
      <4> QED
        BY <4>2, <4>3
    <3> QED
      BY <2>2, <2>3, <3>1, <3>2, <3>3, <3>4 DEF PageKnows, Knows
  <2> QED
    BY <2>5, <2>7, <2>8, <2>10, <2>11 DEF SInv, PagesKnow
<1>4. CASE ~InRange(Field(c), Value(c))
  <2>1. Goto(c, "refused") /\ UNCHANGED <<config, doubt>>
    BY <1>4 DEF Apply
  <2>2. PICK r \in CallRecs : /\ Moves(c, r)
                              /\ r.pc = "refused" /\ r.i = call[c].i /\ r.body = call[c].body
    BY <1>1, <2>1, GotoMoves DEF Pcs
  <2>3. /\ call'[c] = r
        /\ \A d \in Callers : d # c => call'[d] = call[d]
    BY <1>1, <2>2, OneCall
  <2>4. c \in Admins => r.i = 1
    <3> SUFFICES ASSUME c \in Admins PROVE call[c].i = 1
      BY <2>2
    <3>1. Field(c) = Strategy
      BY <1>1, <1>2, <1>4 DEF SInv, CallsFit, PageFits, Field, Value
    <3> QED
      BY <1>2, <3>1, OrderFacts DEF Field
  <2>5. Fits(r) /\ (c \in Admins => PageFits(r))
    <3>1. Fits(r)
      BY <2>2 DEF Fits, Wrote, HandlerPcs
    <3>2. ASSUME c \in Admins PROVE PageFits(r)
      BY <1>1, <2>2, <2>4, <3>2 DEF SInv, CallsFit, PageFits
    <3> QED
      BY <3>1, <3>2
  <2>6. CallsFit' /\ call' \in [Callers -> CallRecs]
    BY <1>1, <2>2, <2>5, MovesFit DEF SInv
  <2>7. UNCHANGED server /\ HistoryTyped'
    BY <1>1, <2>1 DEF server, HistoryTyped, TypeOK, UsedRecs
  <2>8. TypeOK'
    BY <1>1, <2>6, <2>7, TypeParts
  <2>9. Control'
    BY <1>1, <2>1, <2>2, MovesControl DEF SInv, HandlerPcs, Wrote
  <2>10. CopiesFollow'
    <3>1. call[c].pc \notin Wrote /\ call'[c].pc \notin Wrote
      BY <1>1, <2>2, <2>3 DEF Wrote
    <3> QED
      BY <1>1, <2>3, <2>7, <3>1, CopiesFrame DEF SInv
  <2>11. Current' = Current
    BY <1>1, <2>1, CurrentFrame
  <2>12. ASSUME NEW b \in Admins \ doubt', ~torn' PROVE PageKnows(b)'
    <3>1. /\ PageKnows(b) /\ load'[b] = load[b] /\ got'[b] = got[b] /\ saved'[b] = saved[b]
      BY <1>1, <2>1, <2>12 DEF SInv, PagesKnow, page
    <3>2. CASE b # c
      BY <2>3, <2>11, <3>1, <3>2, PageFrame DEF Callers
    <3>3. CASE b = c
      <4>1. \A j \in 1..Len(Order) : ~Reached(call[c], j)
        BY <1>1, <2>2, <2>4, <3>3, OrderFacts DEF Reached
      <4>2. load[c] = "done" =>
              \A j \in 1..Len(Order) : Current[Order[j]] = ParseInt(saved[c][Order[j]])
        BY <1>1, <3>1, <3>3, <4>1 DEF PageKnows, Knows, HandlerPcs
      <4>3. load[c] = "done" => \A f \in Fields : ParseInt(saved[c][f]) = Current[f]
        BY <4>2, OrderFacts
      <4>4. load[c] \notin {"asked", "read"}
        BY <1>1, <3>1, <3>3 DEF PageKnows, Knows
      <4> QED
        BY <2>2, <2>3, <2>11, <3>1, <3>3, <4>3, <4>4 DEF PageKnows, Knows, HandlerPcs
    <3> QED
      BY <3>2, <3>3
  <2> QED
    BY <2>6, <2>8, <2>9, <2>10, <2>12 DEF SInv, PagesKnow
<1> QED
  BY <1>3, <1>4

LEMMA PersistInv == ASSUME SInv, NEW c \in Callers, Persist(c) PROVE SInv'
<1>1. /\ TypeOK /\ InHandler(c) /\ call[c].pc = "persist" /\ call[c].pc \in Wrote
      /\ UNCHANGED <<config, loop, pending, up, page, doubt>>
  BY DEF SInv, Persist, InHandler, HandlerPcs, Wrote
<1>2. /\ up /\ call[c].i \in 1..Len(Order) /\ Field(c) \in Fields
      /\ Value(c) \in Nat /\ InRange(Field(c), Value(c))
      /\ ~torn => \A d \in Callers : d # c => call[d].pc \notin HandlerPcs
      /\ ~torn => Copies
  BY <1>1, HandlerFacts
<1>3. PICK r \in CallRecs : /\ Moves(c, r) /\ Onward(c, r)
                            /\ IF Field(c) = Tick THEN r.pc = "offer" /\ r.i = call[c].i
                                                  ELSE r.pc \notin Wrote
  <2>1. CASE Field(c) = Tick
    BY <1>1, <2>1, GotoMoves DEF Persist, Onward, Pcs, HandlerPcs, Wrote
  <2>2. CASE Field(c) # Tick
    BY <1>1, <2>2, NextFieldMoves DEF Persist, Onward, Wrote
  <2> QED
    BY <2>1, <2>2
<1>4. /\ call'[c] = r
      /\ \A d \in Callers : d # c => call'[d] = call[d]
  BY <1>1, <1>3, OneCall
<1>5. \/ row' = [row EXCEPT ![Field(c)] = Value(c)] /\ UNCHANGED <<torn, used>>
      \/ used.faults < MaxFaults /\ Spend("faults") /\ torn' = TRUE /\ UNCHANGED row
  BY DEF Persist
<1>6. /\ row' \in [Fields -> Nat \cup {Absent}] /\ torn' \in BOOLEAN /\ (torn => torn')
      /\ used' \in UsedRecs
  <2>1. CASE row' = [row EXCEPT ![Field(c)] = Value(c)] /\ UNCHANGED <<torn, used>>
    BY <1>1, <1>2, <2>1 DEF TypeOK, UsedRecs
  <2>2. CASE used.faults < MaxFaults /\ Spend("faults") /\ torn' = TRUE /\ UNCHANGED row
    BY <1>1, <2>2, SpendFits DEF TypeOK
  <2> QED
    BY <1>5, <2>1, <2>2
<1>7. CopiesFollow'
  <2> SUFFICES ASSUME ~torn' PROVE Copies'
    BY DEF CopiesFollow
  <2>1. ~torn /\ row' = [row EXCEPT ![Field(c)] = Value(c)]
    BY <1>5
  <2>2. Copies /\ \A d \in Callers : d # c => call[d].pc \notin HandlerPcs
    BY <1>2, <2>1
  <2>3. \A d \in Callers : d # c => call'[d].pc \notin Wrote
    BY <1>4, <2>2 DEF Wrote, HandlerPcs
  <2>4. config[Field(c)] = Value(c)
    BY <1>1, <2>2 DEF Copies, Applied
  <2>5. ASSUME NEW d \in Callers PROVE Applied(d)'
    <3>1. CASE d = c /\ Field(c) = Tick
      BY <1>1, <1>3, <1>4, <2>4, <3>1 DEF Applied, Field, Value, Onward
    <3>2. CASE d # c \/ Field(c) # Tick
      BY <1>3, <1>4, <2>3, <3>2 DEF Applied
    <3> QED
      BY <3>1, <3>2
  <2>6. ASSUME NEW f \in Fields PROVE RowFollows(f)'
    <3>1. CASE f = Field(c)
      <4>1. row'[f] = Value(c) /\ Value(c) # Absent
        BY <1>1, <1>2, <2>1, <3>1 DEF TypeOK, Absent
      <4>2. Restored'[f] = Value(c)
        BY <1>2, <3>1, <4>1 DEF Restored, InRange
      <4> QED
        BY <1>1, <2>4, <3>1, <4>2 DEF RowFollows
    <3>2. CASE f # Field(c)
      <4>1. Restored'[f] = Restored[f]
        BY <1>1, <2>1, <3>2 DEF Restored, TypeOK, InRange
      <4>2. config[f] = Restored[f]
        BY <2>2, <3>2 DEF Copies, RowFollows, HandlerPcs
      <4> QED
        BY <1>1, <4>1, <4>2 DEF RowFollows
    <3> QED
      BY <3>1, <3>2
  <2>7. TickFollows'
    <3>1. CASE Field(c) = Tick
      <4>1. call'[c].pc \in Wrote /\ Field(c)' = Tick
        BY <1>3, <1>4, <3>1 DEF Field, Wrote
      <4> QED
        BY <4>1 DEF TickFollows
    <3>2. CASE Field(c) # Tick
      <4>1. config[Tick] = NextTick
        BY <2>2, <3>2 DEF Copies, TickFollows, HandlerPcs, Wrote
      <4> QED
        BY <1>1, <4>1 DEF TickFollows, NextTick
    <3> QED
      BY <3>1, <3>2
  <2> QED
    BY <2>5, <2>6, <2>7 DEF Copies
<1>8. loop' \in Nat /\ pending' \in Seq(Nat) /\ Len(pending') <= 1
  BY <1>1 DEF TypeOK
<1>9. r.pc \in {"offer", "drain", "send"} => Field(c) = Tick
  BY <1>3 DEF Wrote
<1> QED
  BY <1>1, <1>3, <1>6, <1>7, <1>8, <1>9, OnwardInv

\* In SetTick the configuration and the row are there already.  The channel
\* holds the value when the PUT leaves it.
LEMMA TickSteps ==
  ASSUME SInv, NEW c \in Callers, call[c].pc \in {"offer", "drain", "send"},
         NEW r \in CallRecs, Moves(c, r), Onward(c, r),
         UNCHANGED <<config, row, loop, up, page, torn, doubt, used>>,
         pending' \in Seq(Nat), Len(pending') <= 1,
         \/ r.pc \in {"drain", "send"} /\ r.i = call[c].i
         \/ r.pc \in {"ok", "apply"} /\ pending' = <<Value(c)>>
  PROVE  SInv'
<1>1. TypeOK /\ InHandler(c) /\ call[c].pc \in Wrote
  BY DEF SInv, InHandler, HandlerPcs, Wrote
<1>2. /\ ~torn => \A d \in Callers : d # c => call[d].pc \notin HandlerPcs
      /\ ~torn => Copies
  BY <1>1, HandlerFacts
<1>3. Field(c) = Tick
  BY DEF SInv, CallsFit, Fits, Field
<1>4. /\ call'[c] = r
      /\ \A d \in Callers : d # c => call'[d] = call[d]
  BY <1>1, OneCall
<1>5. CopiesFollow'
  <2> SUFFICES ASSUME ~torn' PROVE Copies'
    BY DEF CopiesFollow
  <2>1. Copies /\ \A d \in Callers : d # c => call[d].pc \notin HandlerPcs
    BY <1>2
  <2>2. \A d \in Callers : d # c => call'[d].pc \notin Wrote
    BY <1>4, <2>1 DEF Wrote, HandlerPcs
  <2>3. config[Tick] = Value(c)
    BY <1>1, <1>3, <2>1 DEF Copies, Applied
  <2>4. CASE r.pc \in {"drain", "send"} /\ r.i = call[c].i
    <3>1. Field(c)' = Tick /\ Value(c)' = Value(c) /\ call'[c].pc \in Wrote
      BY <1>3, <1>4, <2>4 DEF Field, Value, Onward, Wrote
    <3>2. \A d \in Callers : Applied(d)'
      BY <1>3, <2>2, <2>3, <3>1 DEF Applied
    <3>3. TickFollows'
      BY <3>1 DEF TickFollows
    <3>4. ASSUME NEW f \in Fields PROVE RowFollows(f)'
      <4>1. Restored' = Restored
        BY DEF Restored
      <4>2. \A d \in Callers : call[d].pc # "persist"
        BY <2>1 DEF HandlerPcs
      <4>3. config[f] = Restored[f]
        BY <2>1, <4>2 DEF Copies, RowFollows
      <4> QED
        BY <4>1, <4>3 DEF RowFollows
    <3> QED
      BY <3>2, <3>3, <3>4 DEF Copies
  <2>5. CASE r.pc \in {"ok", "apply"} /\ pending' = <<Value(c)>>
    <3>1. \A d \in Callers : call'[d].pc \notin Wrote
      BY <1>4, <2>2, <2>5 DEF Wrote
    <3>2. \A d \in Callers : Applied(d)'
      BY <3>1 DEF Applied
    <3>3. TickFollows'
      <4>1. NextTick' = Value(c)
        BY <2>5 DEF NextTick
      <4> QED
        BY <2>3, <4>1 DEF TickFollows
    <3>4. ASSUME NEW f \in Fields PROVE RowFollows(f)'
      <4>1. Restored' = Restored
        BY DEF Restored
      <4>2. \A d \in Callers : call[d].pc # "persist"
        BY <2>1 DEF HandlerPcs
      <4>3. config[f] = Restored[f]
        BY <2>1, <4>2 DEF Copies, RowFollows
      <4> QED
        BY <4>1, <4>3 DEF RowFollows
    <3> QED
      BY <3>2, <3>3, <3>4 DEF Copies
  <2> QED
    BY <2>4, <2>5
<1>6. /\ row' \in [Fields -> Nat \cup {Absent}] /\ loop' \in Nat /\ torn' \in BOOLEAN
      /\ used' \in UsedRecs
  BY <1>1 DEF TypeOK, UsedRecs
<1> QED
  BY <1>1, <1>3, <1>5, <1>6, OnwardInv

LEMMA SetTickInv ==
  ASSUME SInv, NEW c \in Callers, Offer(c) \/ Drain(c) \/ Send(c)
  PROVE  SInv'
<1>1. /\ TypeOK /\ call[c].pc \in {"offer", "drain", "send"}
      /\ UNCHANGED <<config, row, loop, up, page, torn, doubt, used>>
  BY DEF SInv, Offer, Drain, Send
<1>2. Value(c) \in Nat
  BY <1>1, HandlerFacts DEF InHandler, HandlerPcs, Wrote
<1>3. CASE NextField(c) /\ pending' = <<Value(c)>>
  <2>1. PICK r \in CallRecs : Moves(c, r) /\ Onward(c, r) /\ r.pc \in {"ok", "apply"}
    BY <1>1, <1>3, NextFieldMoves DEF Onward
  <2>2. pending' \in Seq(Nat) /\ Len(pending') <= 1
    BY <1>2, <1>3
  <2> QED
    BY <1>1, <1>3, <2>1, <2>2, TickSteps
<1>4. CASE \E pc \in {"drain", "send"} : Goto(c, pc) /\ (pending' = <<>> \/ pending' = pending)
  <2>1. PICK r \in CallRecs : /\ Moves(c, r) /\ Onward(c, r)
                              /\ r.pc \in {"drain", "send"} /\ r.i = call[c].i
    BY <1>1, <1>4, GotoMoves DEF Onward, Pcs, HandlerPcs, Wrote
  <2>2. pending' \in Seq(Nat) /\ Len(pending') <= 1
    <3>1. <<>> \in Seq(Nat) /\ Len(<<>>) <= 1
      OBVIOUS
    <3>2. pending \in Seq(Nat) /\ Len(pending) <= 1
      BY <1>1 DEF TypeOK
    <3> QED
      BY <1>4, <3>1, <3>2, Zenon
  <2> QED
    BY <1>1, <2>1, <2>2, TickSteps
<1> QED
  BY <1>3, <1>4 DEF Offer, Drain, Send

-----------------------------------------------------------------------------
(* The loop, and the process.                                              *)

LEMMA TickUpdateInv == ASSUME SInv, TickUpdate PROVE SInv'
<1>1. /\ TypeOK /\ up /\ pending # <<>> /\ loop' = Head(pending) /\ pending' = <<>>
      /\ UNCHANGED <<config, row, up, call, page, torn, doubt, used>>
  BY DEF SInv, TickUpdate
<1>2. Head(pending) = pending[1] /\ Head(pending) \in Nat
  BY <1>1 DEF TypeOK
<1>3. TypeOK'
  <2>1. config' \in [Fields -> Nat] /\ row' \in [Fields -> Nat \cup {Absent}] /\ up' \in BOOLEAN
    BY <1>1 DEF TypeOK
  <2>2. loop' \in Nat /\ pending' \in Seq(Nat) /\ Len(pending') <= 1
    BY <1>1, <1>2
  <2> QED
    BY <1>1, <2>1, <2>2, PageStepTyped, TypeParts
<1>4. CallsFit' /\ Control'
  BY <1>1, QuietControl DEF SInv
<1>5. CopiesFollow'
  <2> SUFFICES ASSUME ~torn' PROVE Copies'
    BY DEF CopiesFollow
  <2>1. Copies
    BY <1>1 DEF SInv, CopiesFollow
  <2>2. NextTick' = NextTick
    BY <1>1, <1>2 DEF NextTick
  <2>3. TickFollows'
    BY <1>1, <2>1, <2>2 DEF Copies, TickFollows, Field
  <2>4. \A c \in Callers : Applied(c)'
    BY <1>1, <2>1 DEF Copies, Applied, Field, Value
  <2>5. \A f \in Fields : RowFollows(f)'
    BY <1>1, <2>1 DEF Copies, RowFollows, Field, Restored
  <2> QED
    BY <2>3, <2>4, <2>5 DEF Copies
<1>6. Current' = Current
  BY <1>1, CurrentFrame
<1>7. PagesKnow'
  BY <1>1, <1>6, PageFrame DEF SInv, PagesKnow, page
<1> QED
  BY <1>3, <1>4, <1>5, <1>7 DEF SInv

LEMMA CrashInv == ASSUME SInv, Crash PROVE SInv'
<1>1. /\ TypeOK /\ up /\ up' = FALSE /\ pending' = <<>>
      /\ UNCHANGED <<config, row, loop, page, torn, doubt>> /\ used' \in UsedRecs
      /\ call' = [c \in Callers |->
                    IF InHandler(c) THEN [call[c] EXCEPT !.pc = "lost"] ELSE call[c]]
  BY SpendFits DEF SInv, Crash
<1>2. ASSUME NEW c \in Callers
      PROVE  /\ call'[c] \in CallRecs /\ call'[c].pc \notin HandlerPcs
             /\ InHandler(c) => call'[c].pc = "lost" /\ call'[c].body = call[c].body
             /\ ~InHandler(c) => call'[c] = call[c]
  <2>1. call[c] \in CallRecs
    BY <1>1, Typed
  <2>2. CASE InHandler(c)
    <3>1. call'[c] = [call[c] EXCEPT !.pc = "lost"]
      BY <1>1, <1>2, <2>2
    <3> QED
      BY <2>1, <2>2, <3>1 DEF CallRecs, Pcs, HandlerPcs
  <2>3. CASE ~InHandler(c)
    <3>1. call'[c] = call[c]
      BY <1>1, <1>2, <2>3
    <3> QED
      BY <2>1, <2>3, <3>1 DEF InHandler
  <2> QED
    BY <2>2, <2>3
<1>3. CallsFit'
  <2>1. ASSUME NEW c \in Callers PROVE Fits(call'[c])
    BY <1>2, <2>1 DEF Fits, Wrote, HandlerPcs
  <2>2. ASSUME NEW a \in Admins PROVE PageFits(call'[a])
    <3>1. PageFits(call[a]) /\ a \in Callers
      BY DEF SInv, CallsFit, Callers
    <3> QED
      BY <1>2, <3>1 DEF PageFits, InHandler, HandlerPcs
  <2> QED
    BY <2>1, <2>2 DEF CallsFit, Fits, PageFits
<1>4. TypeOK'
  <2>1. call' \in [Callers -> CallRecs]
    BY <1>1, <1>2
  <2>2. HistoryTyped'
    BY <1>1 DEF TypeOK, HistoryTyped
  <2>3. /\ config' \in [Fields -> Nat] /\ row' \in [Fields -> Nat \cup {Absent}]
        /\ loop' \in Nat /\ up' \in BOOLEAN
    BY <1>1 DEF TypeOK
  <2>4. pending' \in Seq(Nat) /\ Len(pending') <= 1
    BY <1>1
  <2> QED
    BY <1>1, <2>1, <2>2, <2>3, <2>4, TypeParts
<1>5. Control'
  <2>1. \A c \in Callers : ~InHandler(c)'
    BY <1>2 DEF InHandler
  <2> QED
    BY <1>1, <1>2, <2>1 DEF Control, DownIsQuiet, HandlerAlone, WriterDoubted, Wrote, HandlerPcs
<1>6. CopiesFollow'
  BY <1>1 DEF CopiesFollow
<1>7. ASSUME NEW a \in Admins \ doubt', ~torn' PROVE PageKnows(a)'
  <2>1. a \in Callers /\ a \notin doubt /\ PageKnows(a) /\ ~torn
    BY <1>1, <1>7 DEF SInv, PagesKnow, Callers
  <2>2. CASE InHandler(a)
    <3>1. call'[a].pc = "lost" /\ load'[a] = load[a]
      BY <1>1, <1>2, <2>1, <2>2 DEF page
    <3>2. load[a] \notin {"asked", "read"}
      BY <2>1, <2>2 DEF PageKnows, Knows, InHandler, HandlerPcs
    <3> QED
      BY <3>1, <3>2 DEF PageKnows, Knows, HandlerPcs
  <2>3. CASE ~InHandler(a)
    <3>1. \A c \in Callers : call[c].pc \notin Wrote
      BY <2>1, <2>3, <1>7 DEF SInv, Control, WriterDoubted, InHandler, Wrote, HandlerPcs
    <3>2. \A f \in Fields : config[f] = Restored[f]
      BY <1>1, <2>1, <3>1 DEF SInv, CopiesFollow, Copies, RowFollows, Wrote
    <3>3. config = Restored
      BY <1>1, <3>2 DEF Restored, TypeOK
    <3>4. Current' = Current
      <4>1. Restored' = Restored
        BY <1>1 DEF Restored
      <4> QED
        BY <1>1, <3>3, <4>1 DEF Current
    <3> QED
      BY <1>1, <1>2, <2>1, <2>3, <3>4, PageFrame DEF page
  <2> QED
    BY <2>2, <2>3
<1> QED
  BY <1>3, <1>4, <1>5, <1>6, <1>7 DEF SInv, PagesKnow

LEMMA BootInv == ASSUME SInv, Boot PROVE SInv'
<1>1. /\ TypeOK /\ ~up /\ up' = TRUE /\ config' = Restored /\ loop' = Restored[Tick]
      /\ UNCHANGED <<row, pending, call, page, torn, doubt, used>>
  BY DEF SInv, Boot
<1>2. pending = <<>> /\ \A c \in Callers : ~InHandler(c)
  BY <1>1 DEF SInv, Control, DownIsQuiet
<1>3. Restored' = Restored
  BY <1>1 DEF Restored
<1>4. TypeOK'
  <2>1. Restored \in [Fields -> Nat]
    <3>1. \A f \in Fields : row[f] \in Nat \cup {Absent} /\ Default[f] \in Nat
      BY <1>1, ValuesAssumption DEF TypeOK
    <3> QED
      BY <3>1 DEF Restored
  <2>2. config' \in [Fields -> Nat] /\ loop' \in Nat
    BY <1>1, <2>1, OrderFacts
  <2>3. /\ row' \in [Fields -> Nat \cup {Absent}] /\ pending' \in Seq(Nat)
        /\ Len(pending') <= 1 /\ up' \in BOOLEAN
    BY <1>1 DEF TypeOK
  <2> QED
    BY <1>1, <2>2, <2>3, PageStepTyped, TypeParts
<1>5. CallsFit' /\ Control'
  BY <1>1, QuietControl DEF SInv
<1>6. CopiesFollow'
  <2>1. \A c \in Callers : Applied(c)'
    BY <1>1, <1>2 DEF Applied, InHandler, Wrote, HandlerPcs
  <2>2. \A f \in Fields : RowFollows(f)'
    BY <1>1, <1>3 DEF RowFollows
  <2>3. TickFollows'
    BY <1>1, <1>2 DEF TickFollows, NextTick
  <2> QED
    BY <2>1, <2>2, <2>3 DEF CopiesFollow, Copies
<1>7. Current' = Current
  BY <1>1 DEF Current
<1>8. PagesKnow'
  BY <1>1, <1>7, PageFrame DEF SInv, PagesKnow, page
<1> QED
  BY <1>4, <1>5, <1>6, <1>8 DEF SInv

-----------------------------------------------------------------------------
(* The invariant and what it implies.                                      *)

LEMMA InitSInv == Init => SInv
<1> SUFFICES ASSUME Init PROVE SInv
  OBVIOUS
<1>1. \A c \in Callers : call[c] = Idle
  BY DEF Init
<1>2. TypeOK
  <2>1. /\ config \in [Fields -> Nat] /\ row \in [Fields -> Nat \cup {Absent}]
        /\ loop \in Nat /\ up \in BOOLEAN /\ torn \in BOOLEAN /\ doubt \subseteq Admins
    BY ValuesAssumption, OrderFacts DEF Init
  <2>2. pending \in Seq(Nat) /\ Len(pending) <= 1
    BY DEF Init
  <2>3. call \in [Callers -> CallRecs]
    BY IdleFits DEF Init
  <2>4. /\ load \in [Admins -> {"asked", "read", "done", "failed"}]
        /\ got \in [Admins -> [Fields -> Nat]]
        /\ form \in [Admins -> [Fields -> Nat]] /\ saved \in [Admins -> [Fields -> Nat]]
    BY DEF Init, Blank
  <2>5. used \in UsedRecs
    BY BoundsAssumption DEF Init, UsedRecs
  <2> QED
    BY <2>1, <2>2, <2>3, <2>4, <2>5 DEF TypeOK, CallRecs, UsedRecs
<1>3. CallsFit
  BY <1>1, IdleFits DEF CallsFit, Callers
<1>4. Control
  BY <1>1, IdleFits
  DEF Init, Control, DownIsQuiet, HandlerAlone, WriterDoubted, InHandler, HandlerPcs, Wrote
<1>5. CopiesFollow
  <2>1. \A c \in Callers : Applied(c)
    BY <1>1, IdleFits DEF Applied, Wrote
  <2>2. ASSUME NEW f \in Fields PROVE config[f] = Restored[f]
    BY <2>2 DEF Init, Restored
  <2>3. config[Tick] = NextTick
    BY DEF Init, NextTick
  <2> QED
    BY <2>1, <2>2, <2>3 DEF CopiesFollow, Copies, RowFollows, TickFollows
<1>6. PagesKnow
  <2>1. ASSUME NEW a \in Admins PROVE PageKnows(a)
    <3>1. call[a].pc = "idle" /\ load[a] = "asked"
      BY <1>1, IdleFits DEF Callers, Init
    <3> QED
      BY <3>1 DEF PageKnows, Knows
  <2> QED
    BY <2>1 DEF PagesKnow
<1> QED
  BY <1>2, <1>3, <1>4, <1>5, <1>6 DEF SInv

LEMMA StutterSInv == ASSUME SInv, UNCHANGED vars PROVE SInv'
<1>1. /\ UNCHANGED <<config, row, loop, pending, up, call, load, got, form, saved>>
      /\ UNCHANGED <<torn, doubt, used, server, page>>
  BY DEF vars, server, page
<1>2. TypeOK'
  BY <1>1, PageStepTyped, TypeParts DEF SInv
<1>3. Current' = Current
  BY <1>1, CurrentFrame
<1>4. \A a \in Admins : PageKnows(a) => PageKnows(a)'
  BY <1>1, <1>3, PageFrame
<1> QED
  BY <1>1, <1>2, <1>4, PageStepInv

(***************************************************************************)
(* SInv is an invariant: every value a PUT carries is where its stage in   *)
(* the handler says, and a page that is not doubtful knows the stages of   *)
(* its own PUT.                                                            *)
(***************************************************************************)
THEOREM SettingsInvariance == Spec => []SInv
<1>1. Init => SInv
  BY InitSInv
<1>2. SInv /\ [Next]_vars => SInv'
  <2> SUFFICES ASSUME SInv, [Next]_vars PROVE SInv'
    OBVIOUS
  <2>1. CASE UNCHANGED vars
    BY <2>1, StutterSInv
  <2>2. ASSUME NEW a \in Admins,
               \/ ReadSettings(a) \/ ShowSettings(a) \/ LoadFails(a) \/ Save(a)
               \/ SaveLands(a) \/ SaveFails(a)
               \/ \E f \in Fields : \E text \in Texts[f] : Edit(a, f, text)
        PROVE  SInv'
    BY <2>2, ReadSettingsInv, ShowSettingsInv, LoadFailsInv, SaveInv, SaveLandsInv,
       SaveFailsInv, EditInv
  <2>3. ASSUME NEW c \in Callers,
               Apply(c) \/ Persist(c) \/ Offer(c) \/ Drain(c) \/ Send(c) \/ LoseAnswer(c)
        PROVE  SInv'
    BY <2>3, ApplyInv, PersistInv, SetTickInv, LoseAnswerInv
  <2>4. ASSUME NEW f \in Fields, NEW v \in Puts[f], PutOne(f, v) PROVE SInv'
    BY <2>4, PutOneInv
  <2>5. CASE TickUpdate \/ ScriptEnds \/ Crash \/ Boot
    BY <2>5, TickUpdateInv, ScriptEndsInv, CrashInv, BootInv
  <2> QED
    BY <2>1, <2>2, <2>3, <2>4, <2>5 DEF Next
<1> QED
  BY <1>1, <1>2, PTL DEF Spec

(***************************************************************************)
(* Every variable of Settings stays in its type.                           *)
(***************************************************************************)
THEOREM SettingsTypeCorrect == Spec => []TypeOK
<1>1. SInv => TypeOK
  BY DEF SInv
<1> QED
  BY <1>1, SettingsInvariance, PTL

(***************************************************************************)
(* AppConfig, the settings table and the tick of the loop agree whenever   *)
(* no PUT is being handled, for any fields, ranges and number of clients,  *)
(* and over any number of crashes and boots.                               *)
(***************************************************************************)
THEOREM CopiesStayTogether == Spec => []CopiesAgree
<1>1. SInv => CopiesAgree
  <2> SUFFICES ASSUME SInv, up, ~torn, \A c \in Callers : ~InHandler(c)
               PROVE  config = Restored /\ config[Tick] = Head(pending \o <<loop>>)
    BY DEF CopiesAgree
  <2>1. Copies /\ TypeOK
    BY DEF SInv, CopiesFollow
  <2>2. \A c \in Callers : call[c].pc \notin Wrote
    BY DEF InHandler, HandlerPcs, Wrote
  <2>3. \A f \in Fields : config[f] = Restored[f]
    BY <2>1, <2>2 DEF Copies, RowFollows, Wrote
  <2>4. config = Restored
    BY <2>1, <2>3 DEF Restored, TypeOK
  <2>5. config[Tick] = NextTick
    BY <2>1, <2>2 DEF Copies, TickFollows
  <2>6. NextTick = Head(pending \o <<loop>>)
    <3>1. pending \in Seq(Nat) /\ loop \in Nat
      BY <2>1 DEF TypeOK
    <3>2. CASE pending = <<>>
      BY <3>1, <3>2 DEF NextTick
    <3>3. CASE pending # <<>>
      BY <3>1, <3>3 DEF NextTick
    <3> QED
      BY <3>2, <3>3
  <2> QED
    BY <2>4, <2>5, <2>6
<1> QED
  BY <1>1, SettingsInvariance, PTL

(***************************************************************************)
(* A save of the page that is refused was refused at its first field,      *)
(* whatever fields there are and whatever their order, so long as the      *)
(* strategy comes first.                                                   *)
(***************************************************************************)
THEOREM RefusalIsWhole == Spec => []RefusedSaveChangesNothing
<1>1. SInv => RefusedSaveChangesNothing
  BY DEF SInv, CallsFit, PageFits, RefusedSaveChangesNothing
<1> QED
  BY <1>1, SettingsInvariance, PTL

(***************************************************************************)
(* A settings page with nothing to save shows the values in force, however *)
(* many pages are open and however edits, saves, faults and restarts fall. *)
(***************************************************************************)
THEOREM CleanPagesAreRight == Spec => []CleanPageShowsServer
<1>1. SInv => CleanPageShowsServer
  <2> SUFFICES ASSUME SInv, NEW a \in Admins \ doubt,
                      load[a] = "done", ~Dirty(a), ~Saving(a), ~torn, up,
                      NEW f \in Fields
               PROVE  ParseInt(form[a][f]) = config[f]
    BY DEF CleanPageShowsServer
  <2>1. PageKnows(a) /\ call[a].pc = "idle" /\ form[a] = saved[a]
    BY DEF SInv, PagesKnow, Saving, Dirty
  <2> QED
    BY <2>1 DEF PageKnows, Knows, Current
<1> QED
  BY <1>1, SettingsInvariance, PTL

=============================================================================
