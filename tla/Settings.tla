------------------------------ MODULE Settings ------------------------------
(***************************************************************************)
(* The runtime settings: the page that edits them                          *)
(* (src/frontend/src/pages/Settings.tsx), the handlers that apply them     *)
(* (src/backend/handlers/dashboard.go), their three copies (AppConfig, the *)
(* settings table, the tick of the dispatch loop) and what a restart makes *)
(* of them (src/backend/config/store.go).                                  *)
(*                                                                         *)
(* A text of an input is a number of tenths: "2" is 20, "2.7" is 27, and 0 *)
(* is the empty text, whose parse is in no range.  The two strategies are  *)
(* the values 1 and 2 of their field.                                      *)
(***************************************************************************)
EXTENDS Integers, Sequences, FiniteSets

CONSTANTS
  Admins,       \* open settings pages
  Script,       \* a client of the one-field routes PUT /api/settings/...
  Order,        \* the fields, in the order SaveAllSettings reads them
  Strategy,     \* the field chosen with buttons
  Tick,         \* the field the dispatch loop is told about
  Hi,           \* Hi[f]: the range of f is 1..Hi[f]
  Default,      \* Default[f]: the value of the environment, not range-checked
  Texts,        \* Texts[f]: what users enter
  Puts,         \* Puts[f]: the values Script sends
  MaxEdits, MaxSaves, MaxFaults, MaxRestarts   \* bounds

Fields == {Order[i] : i \in 1..Len(Order)}
Callers == Admins \cup {Script}
Absent == -1

ASSUME FieldsAssumption ==
  /\ Len(Order) \in Nat \ {0} /\ Order \in Seq(Fields)
  /\ \A i, j \in 1..Len(Order) : Order[i] = Order[j] => i = j
  /\ {Strategy, Tick} \subseteq Fields /\ Order[1] = Strategy
ASSUME ValuesAssumption ==
  /\ Hi \in [Fields -> Nat] /\ Default \in [Fields -> Nat]
  /\ Texts \in [Fields -> SUBSET Nat] /\ Puts \in [Fields -> SUBSET Nat]
ASSUME ScriptIsNoPage == Script \notin Admins
ASSUME BoundsAssumption == {MaxEdits, MaxSaves, MaxFaults, MaxRestarts} \subseteq Nat

VARIABLES
  config,    \* AppConfig
  row,       \* the settings table; Absent where there is no row
  loop,      \* s.tick of the dispatch loop
  pending,   \* tickUpdate, a channel of one
  up,        \* the process runs
  call,      \* call[c]: the PUT of c in flight, at field i of its body
  load,      \* load[a]: the page's one GET: "asked", "read", "done" or "failed"
  got,       \* got[a]: its answer, while it is under way
  form,      \* form[a]: the texts in the inputs
  saved,     \* saved[a]: the texts that count as saved
  torn,      \* history: two PUTs ran at once, or a row was not written
  doubt,     \* history: the pages that may be behind the server
  used       \* edits, saves, faults and restarts so far

server == <<config, row, loop, pending, up>>
page == <<load, got, form, saved>>
vars == <<server, call, page, torn, doubt, used>>

Idle == [pc |-> "idle", i |-> 1, body |-> [f \in Fields |-> Absent]]
Blank == [f \in Fields |-> 0]
HandlerPcs == {"apply", "persist", "offer", "drain", "send"}
Pcs == HandlerPcs \cup {"idle", "ok", "refused", "lost"}
Spend(what) == used' = [used EXCEPT ![what] = @ + 1]

TypeOK ==
  /\ config \in [Fields -> Nat]
  /\ row \in [Fields -> Nat \cup {Absent}]
  /\ loop \in Nat
  /\ pending \in Seq(Nat) /\ Len(pending) <= 1
  /\ up \in BOOLEAN
  /\ call \in [Callers -> [pc : Pcs, i : 1..Len(Order), body : [Fields -> Nat \cup {Absent}]]]
  /\ load \in [Admins -> {"asked", "read", "done", "failed"}]
  /\ got \in [Admins -> [Fields -> Nat]]
  /\ form \in [Admins -> [Fields -> Nat]]
  /\ saved \in [Admins -> [Fields -> Nat]]
  /\ torn \in BOOLEAN
  /\ doubt \subseteq Admins
  /\ used \in [edits : 0..MaxEdits, saves : 0..MaxSaves,
               faults : 0..MaxFaults, restarts : 0..MaxRestarts]

\* parseInt, and String() of an integer.
ParseInt(text) == text \div 10
StringOf(v) == 10 * v
InRange(f, v) == v \in 1..Hi[f]
InHandler(c) == call[c].pc \in HandlerPcs
Saving(a) == call[a].pc # "idle"
Dirty(a) == form[a] # saved[a]

\* What LoadFromDB makes of the settings table over the environment.
Restored == [f \in Fields |-> IF row[f] # Absent /\ InRange(f, row[f])
                              THEN row[f] ELSE Default[f]]

Init ==
  /\ config = Default
  /\ row = [f \in Fields |-> Absent]
  /\ loop = Default[Tick]
  /\ pending = <<>>
  /\ up = TRUE
  /\ call = [c \in Callers |-> Idle]
  /\ load = [a \in Admins |-> "asked"]
  /\ got = [a \in Admins |-> Blank]
  /\ form = [a \in Admins |-> Blank]
  /\ saved = [a \in Admins |-> Blank]
  /\ torn = FALSE
  /\ doubt = {}
  /\ used = [edits |-> 0, saves |-> 0, faults |-> 0, restarts |-> 0]

-----------------------------------------------------------------------------
(* The page's GET, once per mount.                                         *)

ReadSettings(a) ==
  /\ up /\ load[a] = "asked"
  /\ load' = [load EXCEPT ![a] = "read"]
  /\ got' = [got EXCEPT ![a] = config]
  /\ UNCHANGED <<server, call, form, saved, torn, doubt, used>>

\* The answer replaces what was entered before it came.
ShowSettings(a) ==
  /\ load[a] = "read"
  /\ load' = [load EXCEPT ![a] = "done"]
  /\ form' = [form EXCEPT ![a] = [f \in Fields |-> StringOf(got[a][f])]]
  /\ saved' = [saved EXCEPT ![a] = form'[a]]
  /\ got' = [got EXCEPT ![a] = Blank]
  /\ UNCHANGED <<server, call, torn, doubt, used>>

LoadFails(a) ==
  /\ load[a] \in {"asked", "read"}
  /\ used.faults < MaxFaults
  /\ load' = [load EXCEPT ![a] = "failed"]
  /\ got' = [got EXCEPT ![a] = Blank]
  /\ Spend("faults")
  /\ UNCHANGED <<server, call, form, saved, torn, doubt>>

\* Inputs and buttons take changes at any time, also while a save is under way.
Edit(a, f, text) ==
  /\ used.edits < MaxEdits
  /\ text # form[a][f]
  /\ form' = [form EXCEPT ![a][f] = text]
  /\ Spend("edits")
  /\ UNCHANGED <<server, call, load, got, saved, torn, doubt>>

-----------------------------------------------------------------------------
(* PUT requests.                                                           *)

\* Mutant: handleSave without the range checks.
ValidatedNot(a) == Dirty(a)

\* What handleSave looks at: every field but the strategy.
Validated(a) == \A f \in Fields \ {Strategy} : InRange(f, ParseInt(form[a][f]))

Sent(body) == {i \in 1..Len(Order) : body[Order[i]] # Absent}
Start(c, body) ==
  /\ used.saves < MaxSaves
  /\ call' = [call EXCEPT ![c] =
                [pc |-> "apply", body |-> body,
                 i |-> CHOOSE i \in Sent(body) : \A j \in Sent(body) : i <= j]]
  /\ torn' = (torn \/ \E d \in Callers \ {c} : InHandler(d))
  /\ Spend("saves")

\* The page sends every field, changed or not.
Save(a) ==
  /\ Dirty(a) /\ ~Saving(a)
  /\ Validated(a)
  /\ up
  /\ Start(a, form[a])
  /\ doubt' = IF load[a] \in {"asked", "read"} THEN doubt \cup {a} ELSE doubt
  /\ UNCHANGED <<server, page>>

PutOne(f, v) ==
  /\ ~Saving(Script)
  /\ up
  /\ Start(Script, [g \in Fields |-> IF g = f THEN StringOf(v) ELSE Absent])
  /\ UNCHANGED <<server, page, doubt>>

-----------------------------------------------------------------------------
(* The handler, field by field.                                            *)

Field(c) == Order[call[c].i]
Value(c) == ParseInt(call[c].body[Field(c)])
Goto(c, pc) == call' = [call EXCEPT ![c].pc = pc]
NextField(c) ==
  LET rest == {i \in Sent(call[c].body) : i > call[c].i}
  IN  IF rest = {} THEN Goto(c, "ok")
      ELSE call' = [call EXCEPT ![c].pc = "apply",
                                ![c].i = CHOOSE i \in rest : \A j \in rest : i <= j]

\* The range check and the setter; what came before a refused field stays.
Apply(c) ==
  /\ call[c].pc = "apply"
  /\ IF InRange(Field(c), Value(c))
     THEN /\ config' = [config EXCEPT ![Field(c)] = Value(c)]
          /\ doubt' = doubt \cup (Admins \ {c})
          /\ Goto(c, "persist")
     ELSE Goto(c, "refused") /\ UNCHANGED <<config, doubt>>
  /\ UNCHANGED <<row, loop, pending, up, page, torn, used>>

\* SaveSetting; a failure is only logged.
Persist(c) ==
  /\ call[c].pc = "persist"
  /\ \/ row' = [row EXCEPT ![Field(c)] = Value(c)] /\ UNCHANGED <<torn, used>>
     \/ used.faults < MaxFaults /\ Spend("faults") /\ torn' = TRUE /\ UNCHANGED row
  /\ IF Field(c) = Tick THEN Goto(c, "offer") ELSE NextField(c)
  /\ UNCHANGED <<config, loop, pending, up, page, doubt>>

\* SetTick: the send that does not block, ...
Offer(c) ==
  /\ call[c].pc = "offer"
  /\ IF pending = <<>> THEN pending' = <<Value(c)>> /\ NextField(c)
                       ELSE Goto(c, "drain") /\ UNCHANGED pending
  /\ UNCHANGED <<config, row, loop, up, page, torn, doubt, used>>

\* ... the drain ...
Drain(c) ==
  /\ call[c].pc = "drain"
  /\ pending' = <<>>
  /\ Goto(c, "send")
  /\ UNCHANGED <<config, row, loop, up, page, torn, doubt, used>>

\* Mutant: the channel taken for one with room to spare.
SendUnbounded(c) ==
  /\ call[c].pc = "send"
  /\ pending' = Append(pending, Value(c))
  /\ NextField(c)
  /\ UNCHANGED <<config, row, loop, up, page, torn, doubt, used>>

\* ... and the send that does.
Send(c) ==
  /\ call[c].pc = "send"
  /\ pending = <<>>
  /\ pending' = <<Value(c)>>
  /\ NextField(c)
  /\ UNCHANGED <<config, row, loop, up, page, torn, doubt, used>>

\* Mutant: the loop looks away from an update to the tick it has.
TickUpdateChanged ==
  /\ up /\ pending # <<>> /\ Head(pending) # loop
  /\ loop' = Head(pending)
  /\ pending' = <<>>
  /\ UNCHANGED <<config, row, up, call, page, torn, doubt, used>>

\* The dispatch loop's receive.
TickUpdate ==
  /\ up /\ pending # <<>>
  /\ loop' = Head(pending)
  /\ pending' = <<>>
  /\ UNCHANGED <<config, row, up, call, page, torn, doubt, used>>

-----------------------------------------------------------------------------
(* The answer of a PUT, or none.                                           *)

\* Mutant: the inputs of now are taken for saved.
SaveLandsNow(a) ==
  /\ call[a].pc = "ok"
  /\ saved' = [saved EXCEPT ![a] = form[a]]
  /\ call' = [call EXCEPT ![a] = Idle]
  /\ UNCHANGED <<server, load, got, form, torn, doubt, used>>

\* handleSave goes on with the texts of its closure, the ones it sent.
SaveLands(a) ==
  /\ call[a].pc = "ok"
  /\ saved' = [saved EXCEPT ![a] = call[a].body]
  /\ call' = [call EXCEPT ![a] = Idle]
  /\ UNCHANGED <<server, load, got, form, torn, doubt, used>>

\* A refusal or a broken connection: a toast, and the page stays as it is.
SaveFails(a) ==
  /\ call[a].pc \in {"refused", "lost"}
  /\ call' = [call EXCEPT ![a] = Idle]
  /\ doubt' = IF call[a].pc = "lost" THEN doubt \cup {a} ELSE doubt
  /\ UNCHANGED <<server, page, torn, used>>

ScriptEnds ==
  /\ call[Script].pc \in {"ok", "refused", "lost"}
  /\ call' = [call EXCEPT ![Script] = Idle]
  /\ UNCHANGED <<server, page, torn, doubt, used>>

LoseAnswer(c) ==
  /\ call[c].pc \in {"ok", "refused"}
  /\ used.faults < MaxFaults
  /\ Goto(c, "lost")
  /\ Spend("faults")
  /\ UNCHANGED <<server, page, torn, doubt>>

-----------------------------------------------------------------------------
(* The process ends at any moment; a boot reads the table before it makes  *)
(* the scheduler.                                                          *)

Crash ==
  /\ up
  /\ used.restarts < MaxRestarts
  /\ up' = FALSE
  /\ pending' = <<>>
  /\ call' = [c \in Callers |->
                IF InHandler(c) THEN [call[c] EXCEPT !.pc = "lost"] ELSE call[c]]
  /\ Spend("restarts")
  /\ UNCHANGED <<config, row, loop, page, torn, doubt>>

\* Mutant: the scheduler is made before the table is read.
BootEarlyScheduler ==
  /\ ~up
  /\ up' = TRUE
  /\ config' = Restored
  /\ loop' = Default[Tick]
  /\ UNCHANGED <<row, pending, call, page, torn, doubt, used>>

Boot ==
  /\ ~up
  /\ up' = TRUE
  /\ config' = Restored
  /\ loop' = Restored[Tick]
  /\ UNCHANGED <<row, pending, call, page, torn, doubt, used>>

-----------------------------------------------------------------------------

Handle(c) == Apply(c) \/ Persist(c) \/ Offer(c) \/ Drain(c) \/ Send(c)
Answered(a) == SaveLands(a) \/ SaveFails(a)

Next ==
  \/ \E a \in Admins :
       \/ ReadSettings(a) \/ ShowSettings(a) \/ LoadFails(a) \/ Save(a)
       \/ SaveLands(a) \/ SaveFails(a)
       \/ \E f \in Fields : \E text \in Texts[f] : Edit(a, f, text)
  \/ \E f \in Fields : \E v \in Puts[f] : PutOne(f, v)
  \/ \E c \in Callers :
       Apply(c) \/ Persist(c) \/ Offer(c) \/ Drain(c) \/ Send(c) \/ LoseAnswer(c)
  \/ TickUpdate \/ ScriptEnds \/ Crash \/ Boot

Spec == Init /\ [][Next]_vars

\* Handlers and the loop run; answers are delivered.
Fairness ==
  /\ \A c \in Callers : WF_vars(Handle(c))
  /\ \A a \in Admins : WF_vars(Answered(a))
  /\ WF_vars(ScriptEnds)
  /\ WF_vars(TickUpdate)

FairSpec == Spec /\ Fairness

-----------------------------------------------------------------------------
(* Properties.                                                             *)

\* When no PUT is being handled, AppConfig, the settings table and the tick
\* the loop has or is about to get say the same, so that a restart changes
\* nothing: unless two PUTs ran at once or a row could not be written.
CopiesAgree ==
  (up /\ ~torn /\ \A c \in Callers : ~InHandler(c)) =>
    /\ config = Restored
    /\ config[Tick] = Head(pending \o <<loop>>)

\* A save of the page that the handler refuses has changed nothing, although
\* the handler applies fields before it looks at later ones: the page checks
\* every field but the strategy, and the strategy comes first.
RefusedSaveChangesNothing ==
  \A a \in Admins : call[a].pc = "refused" => call[a].i = 1

\* A page with nothing to save shows the values in force, whatever was edited
\* while a save was under way or came back after it: unless another client
\* has written, the answer of a save was lost, or a save overtook the page's
\* own GET.
CleanPageShowsServer ==
  \A a \in Admins \ doubt :
    (load[a] = "done" /\ ~Dirty(a) /\ ~Saving(a) /\ ~torn /\ up) =>
      \A f \in Fields : ParseInt(form[a][f]) = config[f]

\* Every PUT comes back, whoever else is waiting in SetTick for the channel,
\* and the page's button with it.
SaveReturns == \A c \in Callers : call[c].pc # "idle" ~> call[c].pc = "idle"

=============================================================================
